----------------------------- MODULE Idempotency -----------------------------
(***************************************************************************)
(* The idempotency_keys row of one scope key (user, path, client key) and  *)
(* the requests that carry that key through the middleware of              *)
(* core/idempotency.ts.  Every statement of the middleware is a step of    *)
(* its own, as is the commit of the handler's effect.  The row knows no    *)
(* owner: completion and release address it by scope key alone.            *)
(***************************************************************************)
EXTENDS Naturals

CONSTANTS
    Requests,     \* requests sent with the key, first attempts and retries
    Hashes,       \* request hashes: which body a request carries
    HashOf,       \* [Requests -> Hashes]
    MaxFaults,    \* bound: crashes and failing statements
    MaxOverruns   \* bound: handlers that outlive the lease of their lock

ASSUME HashAssumption == HashOf \in [Requests -> Hashes]

ASSUME BoundsAssumption == MaxFaults \in Nat /\ MaxOverruns \in Nat

VARIABLES
    row,      \* the row, or the empty set when there is none
    at,       \* the next statement of each request
    effects,  \* history: requests whose handler has committed
    replays,  \* history: (asked, got): hash of a replayed request and of the
              \* request whose response it was given
    undone,   \* history: committed effects no completed row remembers
    faults,
    overruns

vars == <<row, at, effects, replays, undone, faults, overruns>>

NoRow == {}

(* holder and author are not columns: the request that inserted the row,   *)
(* and the one whose response it stores.                                   *)
Records == [hash : Hashes, done : BOOLEAN, expired : BOOLEAN,
            holder : Requests, author : Requests]

Points == {"new", "read", "insert", "run", "record", "release", "ended"}

(* Between its lock and the end of its handling. *)
Handling == {r \in Requests : at[r] \in {"run", "record", "release"}}

Go(r, point) == at' = [at EXCEPT ![r] = point]

-----------------------------------------------------------------------------
(* The middleware. *)

\* Mutant: the row is dropped before it has expired.
DropAlways == row' = NoRow

(* DELETE ... WHERE scope_key = key AND expires_at < now(): an expired     *)
(* lock, or an expired result.                                             *)
DropExpired ==
    row' = IF \E x \in row : x.expired THEN NoRow ELSE row

Purge(r) ==
    /\ at[r] = "new"
    /\ DropExpired
    /\ Go(r, "read")
    /\ UNCHANGED <<effects, replays, undone, faults, overruns>>

\* Mutant: the hash of the stored request is not compared.
ReadAnyBody(r) ==
    /\ at[r] = "read"
    /\ \/ row = NoRow /\ Go(r, "insert") /\ UNCHANGED replays
       \/ \E x \in row :
             /\ Go(r, "ended")
             /\ replays' = IF x.done
                           THEN replays \cup {<<HashOf[r], HashOf[x.author]>>}
                           ELSE replays
    /\ UNCHANGED <<row, effects, undone, faults, overruns>>

(* In progress: 409.  Another body: 409.  Completed: replay. *)
Read(r) ==
    /\ at[r] = "read"
    /\ \/ row = NoRow /\ Go(r, "insert") /\ UNCHANGED replays
       \/ \E x \in row :
             /\ Go(r, "ended")
             /\ replays' = IF x.done /\ x.hash = HashOf[r]
                           THEN replays \cup {<<HashOf[r], HashOf[x.author]>>}
                           ELSE replays
    /\ UNCHANGED <<row, effects, undone, faults, overruns>>

Lock(r) == {[hash |-> HashOf[r], done |-> FALSE, expired |-> FALSE,
             holder |-> r, author |-> r]}

\* Mutant: ON CONFLICT DO UPDATE.
InsertOver(r) ==
    /\ at[r] = "insert"
    /\ row' = Lock(r)
    /\ Go(r, "run")
    /\ UNCHANGED <<effects, replays, undone, faults, overruns>>

(* INSERT ... ON CONFLICT DO NOTHING; no row inserted: 409. *)
Insert(r) ==
    /\ at[r] = "insert"
    /\ \/ row = NoRow /\ row' = Lock(r) /\ Go(r, "run")
       \/ row # NoRow /\ UNCHANGED row /\ Go(r, "ended")
    /\ UNCHANGED <<effects, replays, undone, faults, overruns>>

(* The handler commits its effect and answers 2xx. *)
Succeed(r) ==
    /\ at[r] = "run"
    /\ effects' = effects \cup {r}
    /\ undone' = undone \cup {r}
    /\ Go(r, "record")
    /\ UNCHANGED <<row, replays, faults, overruns>>

(* The handler answers with an error status, or throws, without an effect. *)
Decline(r) ==
    /\ at[r] = "run"
    /\ Go(r, "release")
    /\ UNCHANGED <<row, effects, replays, undone, faults, overruns>>

(* UPDATE ... SET status, response_body, expires_at WHERE scope_key = key. *)
Record(r) ==
    /\ at[r] = "record"
    /\ row' = {[x EXCEPT !.done = TRUE, !.author = r, !.expired = FALSE] : x \in row}
    /\ undone' = IF row = NoRow THEN undone ELSE undone \ {r}
    /\ Go(r, "ended")
    /\ UNCHANGED <<effects, replays, faults, overruns>>

(* DELETE ... WHERE scope_key = key. *)
Release(r) ==
    /\ at[r] = "release"
    /\ row' = NoRow
    /\ Go(r, "ended")
    /\ UNCHANGED <<effects, replays, undone, faults, overruns>>

-----------------------------------------------------------------------------
(* Failures and the passing of time. *)

Fault == faults < MaxFaults /\ faults' = faults + 1

(* The process dies, a statement of the middleware fails, or the handler   *)
(* throws although it has committed.  A failing UPDATE of Record is caught *)
(* and the request still answers with success.                             *)
Crash(r) ==
    /\ at[r] \notin {"new", "ended"}
    /\ Fault
    /\ Go(r, "ended")
    /\ UNCHANGED <<row, effects, replays, undone, overruns>>

ThrowAfterCommit(r) ==
    /\ at[r] = "record"
    /\ Fault
    /\ Go(r, "release")
    /\ UNCHANGED <<row, effects, replays, undone, overruns>>

\* Mutant: a lock has no lease, only results expire.
ExpireResult ==
    \E x \in row :
        /\ x.done
        /\ ~x.expired
        /\ row' = {[x EXCEPT !.expired = TRUE]}
        /\ undone' = undone \cup {x.author}
        /\ UNCHANGED <<at, effects, replays, faults, overruns>>

(* expires_at passes: of a result after its retention, of a lock after its *)
(* lease, while its holder is dead or (an overrun) still at work.          *)
Expire ==
    \E x \in row :
        /\ ~x.expired
        /\ row' = {[x EXCEPT !.expired = TRUE]}
        /\ IF ~x.done /\ x.holder \in Handling
           THEN overruns < MaxOverruns /\ overruns' = overruns + 1
           ELSE UNCHANGED overruns
        /\ undone' = IF x.done THEN undone \cup {x.author} ELSE undone
        /\ UNCHANGED <<at, effects, replays, faults>>

(* sweepExpiredIdempotency, every hour. *)
Sweep ==
    /\ row # NoRow
    /\ DropExpired
    /\ UNCHANGED <<at, effects, replays, undone, faults, overruns>>

-----------------------------------------------------------------------------
Init ==
    /\ row = NoRow
    /\ at = [r \in Requests |-> "new"]
    /\ effects = {}
    /\ replays = {}
    /\ undone = {}
    /\ faults = 0
    /\ overruns = 0

Step(r) ==
    \/ Read(r) \/ Insert(r) \/ Succeed(r) \/ Decline(r) \/ Record(r) \/ Release(r)

Next ==
    \/ \E r \in Requests : Purge(r) \/ Step(r) \/ Crash(r) \/ ThrowAfterCommit(r)
    \/ Expire
    \/ Sweep

Spec == Init /\ [][Next]_vars

(* Running requests go on, time passes and the sweeper runs.  Nothing      *)
(* makes a client send another request.                                    *)
FairSpec == /\ Spec
            /\ \A r \in Requests : WF_vars(Step(r))
            /\ WF_vars(Expire)
            /\ WF_vars(Sweep)

-----------------------------------------------------------------------------
TypeOK ==
    /\ row \in {NoRow} \cup {{x} : x \in Records}
    /\ at \in [Requests -> Points]
    /\ undone \subseteq effects /\ effects \subseteq Requests
    /\ replays \subseteq Hashes \X Hashes
    /\ faults \in 0 .. MaxFaults
    /\ overruns \in 0 .. MaxOverruns

(* Single flight: of the requests with one key, at most one is handled at  *)
(* a time, as long as handlers finish within the lease.                    *)
SingleFlight == \A q, r \in Handling : q = r

(* A key used again for another body is a conflict: nobody is given the    *)
(* response to a body it did not send.                                     *)
ReplayMatchesBody == \A pair \in replays : pair[1] = pair[2]

(* A second effect under one key needs an excuse: the effect before it was *)
(* never recorded, because of a failure, or its result had expired.        *)
SecondEffectIsExcused == \A q, r \in effects \ undone : q = r

(* While a result is kept no handler runs again for its key. *)
ResultStopsHandlers ==
    (\E x \in row : x.done /\ ~x.expired) => Handling = {}

(* A key is never poisoned: a lock is gone, or became a result, in the end *)
(* whether its holder finished, failed or died.                            *)
LockEnds == (\E x \in row : ~x.done) ~> ~(\E x \in row : ~x.done)
=============================================================================

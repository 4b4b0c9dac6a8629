-------------------------- MODULE IdempotencyProofs --------------------------
(* What the idempotency middleware promises while every handler finishes   *)
(* within the lease of its lock, for any number of requests and bodies.    *)
EXTENDS Idempotency, TLAPS

(* A request being handled owns the one row there is, and that row is a    *)
(* lock that has not expired; a row's result answers the body whose hash   *)
(* it stores; an effect that is remembered is remembered by the row.       *)
LockInv ==
    /\ TypeOK
    /\ overruns = 0
    /\ \A r \in Handling : \E x \in row : x.holder = r /\ ~x.done /\ ~x.expired
    /\ \A x \in row : /\ x.hash = HashOf[x.author]
                      /\ ~x.done => x.author = x.holder
                      /\ x.done => x.author \in effects
    /\ \A r \in effects \ undone :
          \E x \in row : x.done /\ ~x.expired /\ x.author = r
    /\ ReplayMatchesBody

Committed == \A r \in Requests : at[r] = "record" => r \in effects

LEMMA InitLockInv == Init => LockInv
  BY BoundsAssumption
  DEF Init, LockInv, TypeOK, NoRow, Points, Handling, ReplayMatchesBody

LEMMA OneRow == ASSUME LockInv, NEW x \in row, NEW y \in row PROVE x = y
  BY DEF LockInv, TypeOK, NoRow

LEMMA HolderOwns ==
  ASSUME LockInv, NEW r \in Handling, NEW x \in row
  PROVE  x.holder = r /\ ~x.done /\ ~x.expired /\ x.author = r /\ x.hash = HashOf[r]
  BY OneRow DEF LockInv

LEMMA NextCommitted ==
  ASSUME TypeOK, Committed, [Next]_vars PROVE Committed'
<1>1. ASSUME NEW r \in Requests, Step(r) PROVE Committed'
  BY <1>1 DEF TypeOK, Committed, Step, Read, Insert, Succeed, Decline, Record,
              Release, Go
<1>2. ASSUME NEW r \in Requests, Purge(r) \/ Crash(r) \/ ThrowAfterCommit(r)
      PROVE  Committed'
  BY <1>2 DEF TypeOK, Committed, Purge, Crash, ThrowAfterCommit, Go
<1>3. CASE Expire
  BY <1>3 DEF Committed, Expire
<1>4. CASE Sweep
  BY <1>4 DEF Committed, Sweep
<1>5. CASE UNCHANGED vars
  BY <1>5 DEF Committed, vars
<1> QED
  BY <1>1, <1>2, <1>3, <1>4, <1>5 DEF Next

LEMMA PurgeKeeps ==
  ASSUME LockInv, NEW r \in Requests, Purge(r) PROVE LockInv'
<1>1. TypeOK'
  BY DEF LockInv, TypeOK, Purge, DropExpired, Go, Points, NoRow
<1>2. Handling' = Handling
  BY DEF LockInv, TypeOK, Purge, Go, Handling
<1>3. \A x \in row' : x \in row
  BY DEF Purge, DropExpired, NoRow
<1>4. ASSUME NEW x \in row, ~x.expired PROVE x \in row'
  BY <1>4, OneRow DEF Purge, DropExpired
<1> QED
  BY <1>1, <1>2, <1>3, <1>4 DEF LockInv, Purge, ReplayMatchesBody

LEMMA SweepKeeps == ASSUME LockInv, Sweep PROVE LockInv'
<1>1. TypeOK'
  BY DEF LockInv, TypeOK, Sweep, DropExpired, NoRow
<1>2. Handling' = Handling
  BY DEF Sweep, Handling
<1>3. \A x \in row' : x \in row
  BY DEF Sweep, DropExpired, NoRow
<1>4. ASSUME NEW x \in row, ~x.expired PROVE x \in row'
  BY <1>4, OneRow DEF Sweep, DropExpired
<1> QED
  BY <1>1, <1>2, <1>3, <1>4 DEF LockInv, Sweep, ReplayMatchesBody

LEMMA ReadKeeps ==
  ASSUME LockInv, NEW r \in Requests, Read(r) PROVE LockInv'
<1>1. TypeOK'
  BY HashAssumption DEF LockInv, TypeOK, Read, Go, Points, Records
<1>2. Handling' = Handling
  BY DEF LockInv, TypeOK, Read, Go, Handling
<1>3. ReplayMatchesBody'
  BY DEF LockInv, Read, ReplayMatchesBody
<1> QED
  BY <1>1, <1>2, <1>3 DEF LockInv, Read

LEMMA InsertKeeps ==
  ASSUME LockInv, NEW r \in Requests, Insert(r) PROVE LockInv'
<1>1. CASE row = NoRow /\ row' = Lock(r) /\ Go(r, "run")
  <2>1. Handling = {} /\ effects \ undone = {}
    BY <1>1 DEF LockInv, NoRow
  <2>2. Handling' = {r}
    BY <1>1, <2>1 DEF LockInv, TypeOK, Go, Handling
  <2>3. TypeOK'
    BY <1>1, HashAssumption
    DEF LockInv, TypeOK, Insert, Go, Points, Lock, Records
  <2> QED
    BY <1>1, <2>1, <2>2, <2>3 DEF LockInv, Insert, Lock, ReplayMatchesBody
<1>2. CASE row # NoRow /\ UNCHANGED row /\ Go(r, "ended")
  <2>1. Handling' = Handling
    BY <1>2 DEF LockInv, TypeOK, Insert, Go, Handling
  <2>2. TypeOK'
    BY <1>2 DEF LockInv, TypeOK, Insert, Go, Points
  <2> QED
    BY <1>2, <2>1, <2>2 DEF LockInv, Insert, ReplayMatchesBody
<1> QED
  BY <1>1, <1>2 DEF Insert

LEMMA HandlerKeeps ==
  ASSUME LockInv, NEW r \in Requests, Succeed(r) \/ Decline(r) PROVE LockInv'
<1>1. Handling' = Handling
  BY DEF LockInv, TypeOK, Succeed, Decline, Go, Handling
<1>2. TypeOK'
  BY DEF LockInv, TypeOK, Succeed, Decline, Go, Points
<1>3. (effects \ undone)' \subseteq effects \ undone
  BY DEF Succeed, Decline
<1> QED
  BY <1>1, <1>2, <1>3 DEF LockInv, Succeed, Decline, ReplayMatchesBody

LEMMA RecordKeeps ==
  ASSUME LockInv, Committed, NEW r \in Requests, Record(r) PROVE LockInv'
<1>1. r \in Handling
  BY DEF Record, Handling
<1>2. PICK x \in row : x.holder = r /\ ~x.done /\ ~x.expired
  BY <1>1 DEF LockInv
<1>3. x.author = r /\ x.hash = HashOf[r]
  BY <1>1, <1>2, HolderOwns
<1>4. row = {x}
  BY <1>2, OneRow
<1>5. x \in Records
  BY <1>2 DEF LockInv, TypeOK, NoRow
<1>6. row' = {[x EXCEPT !.done = TRUE, !.author = r, !.expired = FALSE]}
  BY <1>4 DEF Record
<1>7. Handling = {r} /\ effects \ undone = {}
  <2>1. \A q \in Handling : q = r
    BY <1>2, HolderOwns
  <2>2. \A q \in effects \ undone : FALSE
    BY <1>2, <1>4 DEF LockInv
  <2> QED
    BY <1>1, <2>1, <2>2
<1>8. Handling' = {}
  BY <1>7 DEF LockInv, TypeOK, Record, Go, Handling
<1>9. TypeOK'
  <2>1. row' \in {{y} : y \in Records}
    BY <1>5, <1>6 DEF Records
  <2> QED
    BY <2>1 DEF LockInv, TypeOK, Record, Go, Points
<1>10. (effects \ undone)' \subseteq {r}
  BY <1>4, <1>7 DEF Record, NoRow
<1>11. r \in effects'
  BY DEF Committed, Record
<1>12. \A y \in row' : y.hash = HashOf[r] /\ y.done /\ ~y.expired /\ y.author = r
  BY <1>3, <1>5, <1>6 DEF Records
<1>13. row' # {}
  BY <1>6
<1> QED
  BY <1>8, <1>9, <1>10, <1>11, <1>12, <1>13 DEF LockInv, Record, ReplayMatchesBody

LEMMA ReleaseKeeps ==
  ASSUME LockInv, NEW r \in Requests, Release(r) PROVE LockInv'
<1>1. r \in Handling
  BY DEF Release, Handling
<1>2. PICK x \in row : x.holder = r /\ ~x.done
  BY <1>1 DEF LockInv
<1>3. row = {x}
  BY <1>2, OneRow
<1>4. Handling = {r} /\ effects \ undone = {}
  <2>1. \A q \in Handling : q = r
    BY <1>2, HolderOwns
  <2>2. \A q \in effects \ undone : FALSE
    BY <1>2, <1>3 DEF LockInv
  <2> QED
    BY <1>1, <2>1, <2>2
<1>5. Handling' = {}
  BY <1>4 DEF LockInv, TypeOK, Release, Go, Handling
<1>6. TypeOK'
  BY DEF LockInv, TypeOK, Release, Go, Points, NoRow
<1> QED
  BY <1>4, <1>5, <1>6 DEF LockInv, Release, NoRow, ReplayMatchesBody

LEMMA FailureKeeps ==
  ASSUME LockInv, NEW r \in Requests, Crash(r) \/ ThrowAfterCommit(r) PROVE LockInv'
<1>1. Handling' \subseteq Handling
  BY DEF LockInv, TypeOK, Crash, ThrowAfterCommit, Go, Handling
<1>2. TypeOK'
  BY BoundsAssumption
  DEF LockInv, TypeOK, Crash, ThrowAfterCommit, Go, Points, Fault
<1> QED
  BY <1>1, <1>2 DEF LockInv, Crash, ThrowAfterCommit, ReplayMatchesBody

LEMMA ExpireKeeps == ASSUME LockInv, MaxOverruns = 0, Expire PROVE LockInv'
<1>1. PICK x \in row :
          /\ ~x.expired
          /\ row' = {[x EXCEPT !.expired = TRUE]}
          /\ IF ~x.done /\ x.holder \in Handling
             THEN overruns < MaxOverruns /\ overruns' = overruns + 1
             ELSE UNCHANGED overruns
          /\ undone' = IF x.done THEN undone \cup {x.author} ELSE undone
          /\ UNCHANGED <<at, effects, replays, faults>>
  BY DEF Expire
<1>2. x \in Records
  BY DEF LockInv, TypeOK, NoRow
<1>3. Handling = {}
  <2> SUFFICES ASSUME NEW r \in Handling PROVE FALSE
    OBVIOUS
  <2>1. x.holder = r /\ ~x.done
    BY HolderOwns
  <2> QED
    BY <1>1, <2>1 DEF LockInv
<1>4. UNCHANGED overruns /\ Handling' = {}
  BY <1>1, <1>3 DEF Handling
<1>5. (effects \ undone)' = {}
  <2> SUFFICES ASSUME NEW r \in effects \ undone PROVE x.done /\ x.author = r
    BY <1>1
  <2> QED
    BY OneRow DEF LockInv
<1>6. x.done => x.author \in effects
  BY DEF LockInv
<1>7. TypeOK'
  BY <1>1, <1>2, <1>4, <1>6 DEF LockInv, TypeOK, Records
<1> QED
  BY <1>1, <1>2, <1>4, <1>5, <1>7 DEF LockInv, Records, ReplayMatchesBody

LEMMA NextLockInv ==
  ASSUME MaxOverruns = 0, LockInv, Committed, [Next]_vars PROVE LockInv'
<1>1. ASSUME NEW r \in Requests, Step(r) PROVE LockInv'
  BY <1>1, ReadKeeps, InsertKeeps, HandlerKeeps, RecordKeeps, ReleaseKeeps DEF Step
<1>2. CASE UNCHANGED vars
  BY <1>2 DEF vars, LockInv, TypeOK, Handling, ReplayMatchesBody
<1> QED
  BY <1>1, <1>2, PurgeKeeps, FailureKeeps, ExpireKeeps, SweepKeeps DEF Next

LEMMA LockInvariant == ASSUME MaxOverruns = 0 PROVE Spec => []LockInv
<1>1. Init => LockInv /\ Committed
  BY InitLockInv DEF Init, Committed
<1>2. LockInv /\ Committed /\ [Next]_vars => (LockInv /\ Committed)'
  BY NextLockInv, NextCommitted DEF LockInv
<1> QED
  BY <1>1, <1>2, PTL DEF Spec

(* Two requests with one key are never handled at once: the INSERT ... ON  *)
(* CONFLICT DO NOTHING of the middleware is a lock for as long as handlers *)
(* keep within their leases, whatever crashes, expires or is retried.      *)
THEOREM OneHandlerAtATime == ASSUME MaxOverruns = 0 PROVE Spec => []SingleFlight
<1>1. LockInv => SingleFlight
  BY HolderOwns DEF LockInv, SingleFlight
<1> QED
  BY <1>1, LockInvariant, PTL

(* Nobody is replayed the response to a body it did not send, under the    *)
(* same condition (without it the replay can be another body's).           *)
THEOREM ReplaysMatch == ASSUME MaxOverruns = 0 PROVE Spec => []ReplayMatchesBody
<1>1. LockInv => ReplayMatchesBody
  BY DEF LockInv
<1> QED
  BY <1>1, LockInvariant, PTL

(* An effect is repeated under its key only if the one before it was never *)
(* recorded or its result has expired, under the same condition.           *)
THEOREM NoUnexcusedRepetition ==
  ASSUME MaxOverruns = 0 PROVE Spec => []SecondEffectIsExcused
<1>1. LockInv => SecondEffectIsExcused
  BY OneRow DEF LockInv, SecondEffectIsExcused
<1> QED
  BY <1>1, LockInvariant, PTL

(* While a result is kept, no handler runs for its key, under the same     *)
(* condition.                                                              *)
THEOREM ResultsStopHandlers ==
  ASSUME MaxOverruns = 0 PROVE Spec => []ResultStopsHandlers
<1>1. LockInv => ResultStopsHandlers
  BY HolderOwns DEF LockInv, ResultStopsHandlers, Handling
<1> QED
  BY <1>1, LockInvariant, PTL
=============================================================================

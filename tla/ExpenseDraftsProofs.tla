------------------------- MODULE ExpenseDraftsProofs -------------------------
(***************************************************************************)
(* What confirmDraft promises, for any number of requests, edits and       *)
(* expenses.  One live expense and contents of one claim hold through any  *)
(* failures and overlaps.  That no live expense hides behind a draft that  *)
(* is not confirmed is proved for requests that do not overlap and at most *)
(* one failure, the case in which it is true.                              *)
(***************************************************************************)
EXTENDS ExpenseDrafts, TLAPS

Expenses == [payload : Payloads, body : Bodies, live : BOOLEAN]
Holdings == [payload : Payloads \cup {Null}, body : Bodies \cup {Null}]

(* The bound on expenses leaves room for one when none is live. *)
Room == Live = {} => Len(ledger) < MaxExpenses

(* What a request is about to create was bound by a claim, and so was what *)
(* a recovery would read from a confirmed draft.                           *)
BoundInv ==
    /\ draft.status = "confirmed" =>
          [payload |-> draft.payload, body |-> draft.body] \in bound
    /\ \A c \in Calls : calls[c].at \in {"create", "reread"} => calls[c].holds \in bound

(* A request that is to claim holds a body, one that is to link an expense. *)
Holding == \A c \in Calls :
    /\ calls[c].at \in {"look", "claim"} => calls[c].holds.body \in Bodies
    /\ calls[c].at \in {"reread", "link"} => calls[c].expense \in DOMAIN ledger

ContentInv ==
    /\ TypeOK /\ Room /\ Holding /\ BoundInv /\ OneLiveExpense /\ ContentOfOneClaim

-----------------------------------------------------------------------------
LEMMA EndedType == Ended \in Calling
<1>1. 0 \in 0 .. MaxExpenses
  BY BoundsAssumption
<1> QED
  BY <1>1 DEF Ended, Calling, Points, NoExpense

LEMMA InitContentInv == Init => ContentInv
<1> SUFFICES ASSUME Init PROVE ContentInv
  OBVIOUS
<1>1. /\ ledger = <<>> /\ Len(ledger) = 0 /\ DOMAIN ledger = {}
      /\ calls = [c \in Calls |-> Ended]
  BY DEF Init
<1>2. draft \in Drafts
  BY BoundsAssumption DEF Init, Drafts, Payloads, NoExpense
<1>3. ledger \in Seq(Expenses)
  BY <1>1
<1>4. calls \in [Calls -> Calling]
  BY <1>1, EndedType
<1>5. TypeOK
  <2>1. open \in BOOLEAN /\ overlap \in BOOLEAN /\ bound \subseteq Contents
    BY Zenon DEF Init
  <2>2. faults \in 0 .. MaxFaults
    BY BoundsAssumption DEF Init
  <2>3. Len(ledger) <= MaxExpenses
    BY <1>1, BoundsAssumption
  <2> QED
    BY <1>2, <1>3, <1>4, <2>1, <2>2, <2>3 DEF TypeOK, Expenses
<1>6. \A c \in Calls : calls[c].at = "ended"
  BY <1>1 DEF Ended
<1>7. Room /\ OneLiveExpense /\ ContentOfOneClaim
  BY <1>1, BoundsAssumption DEF Room, OneLiveExpense, ContentOfOneClaim, Live
<1>8. Holding /\ BoundInv
  BY <1>6 DEF Init, Holding, BoundInv
<1> QED
  BY <1>5, <1>7, <1>8 DEF ContentInv

LEMMA AgainIsCalling ==
    ASSUME NEW x \in Calling, NEW point \in Points, NEW b
    PROVE  b \in BOOLEAN =>
               [x EXCEPT !.at = point, !.attempt = 2, !.expense = 0, !.ambiguous = b] \in Calling
<1>1. 0 \in 0 .. MaxExpenses /\ 2 \in 1 .. 2
  BY BoundsAssumption
<1> QED
  BY <1>1 DEF Calling

(* Every way a request moves leaves it a request. *)
LEMMA MoveTypeOK ==
    ASSUME TypeOK, NEW c \in Calls
    PROVE  /\ \A point \in Points : Move(c, point) => calls' \in [Calls -> Calling]
           /\ End(c) => calls' \in [Calls -> Calling]
           /\ \A payload \in Payloads, body \in Bodies \cup {Null} :
                 Create(c, payload, body) => calls' \in [Calls -> Calling]
           /\ \A isAmbiguous \in BOOLEAN :
                 NextAttempt(c, isAmbiguous) => calls' \in [Calls -> Calling]
           /\ \A e \in 0 .. MaxExpenses : Created(c, e) => calls' \in [Calls -> Calling]
<1>0. calls \in [Calls -> Calling] /\ calls[c] \in Calling
  BY DEF TypeOK
<1>1. ASSUME NEW point \in Points, Move(c, point) PROVE calls' \in [Calls -> Calling]
  <2>1. [calls[c] EXCEPT !.at = point] \in Calling
    BY <1>0 DEF Calling
  <2> QED
    BY <1>0, <1>1, <2>1 DEF Move
<1>2. End(c) => calls' \in [Calls -> Calling]
  BY <1>0, EndedType DEF End
<1>3. ASSUME NEW payload \in Payloads, NEW body \in Bodies \cup {Null},
             Create(c, payload, body)
      PROVE  calls' \in [Calls -> Calling]
  <2>1. [calls[c] EXCEPT !.at = "create", !.holds = [payload |-> payload, body |-> body]]
            \in Calling
    BY <1>0 DEF Calling, Points
  <2> QED
    BY <1>0, <1>3, <2>1 DEF Create
<1>4. ASSUME NEW isAmbiguous \in BOOLEAN, NextAttempt(c, isAmbiguous)
      PROVE  calls' \in [Calls -> Calling]
  <2> DEFINE point == IF calls[c].attempt = 1 THEN "create" ELSE "prove"
  <2>1. point \in Points /\ 0 \in 0 .. MaxExpenses
    BY BoundsAssumption DEF Points
  <2> HIDE DEF point
  <2>2. [calls[c] EXCEPT !.at = point, !.attempt = 2, !.expense = NoExpense,
                         !.ambiguous = isAmbiguous] \in Calling
    BY <1>0, <2>1, AgainIsCalling DEF NoExpense
  <2>3. calls' = [calls EXCEPT ![c] =
                     [calls[c] EXCEPT !.at = point, !.attempt = 2, !.expense = NoExpense,
                                      !.ambiguous = isAmbiguous]]
    BY <1>4 DEF NextAttempt, point
  <2> QED
    BY <1>0, <2>2, <2>3
<1>5. ASSUME NEW e \in 0 .. MaxExpenses, Created(c, e) PROVE calls' \in [Calls -> Calling]
  <2>1. [calls[c] EXCEPT !.at = "reread", !.expense = e] \in Calling
    BY <1>0 DEF Calling, Points
  <2> QED
    BY <1>0, <1>5, <2>1 DEF Created
<1> QED
  BY <1>1, <1>2, <1>3, <1>4, <1>5

(* What the statements do to the request they belong to; no other moves. *)
LEMMA Moves ==
    ASSUME TypeOK, NEW c \in Calls
    PROVE  /\ \A point : Move(c, point) =>
                 /\ calls'[c].at = point /\ calls'[c].holds = calls[c].holds
                 /\ calls'[c].expense = calls[c].expense
                 /\ calls'[c].ambiguous = calls[c].ambiguous
                 /\ \A d \in Calls \ {c} : calls'[d] = calls[d]
           /\ End(c) => /\ calls'[c].at = "ended"
                        /\ \A d \in Calls \ {c} : calls'[d] = calls[d]
           /\ \A payload, body : Create(c, payload, body) =>
                 /\ calls'[c].at = "create"
                 /\ calls'[c].holds = [payload |-> payload, body |-> body]
                 /\ \A d \in Calls \ {c} : calls'[d] = calls[d]
           /\ \A isAmbiguous \in BOOLEAN : NextAttempt(c, isAmbiguous) =>
                 /\ calls'[c].holds = calls[c].holds
                 /\ calls'[c].at = "create" \/ calls'[c].at = "prove"
                 /\ \A d \in Calls \ {c} : calls'[d] = calls[d]
           /\ \A e : Created(c, e) =>
                 /\ calls'[c].at = "reread" /\ calls'[c].holds = calls[c].holds
                 /\ calls'[c].expense = e
                 /\ \A d \in Calls \ {c} : calls'[d] = calls[d]
<1>0. calls \in [Calls -> Calling] /\ calls[c] \in Calling
  BY DEF TypeOK
<1>1. \A x : calls' = [calls EXCEPT ![c] = x] =>
          calls'[c] = x /\ \A d \in Calls \ {c} : calls'[d] = calls[d]
  BY <1>0
<1>2. ASSUME NEW point, Move(c, point)
      PROVE  /\ calls'[c].at = point /\ calls'[c].holds = calls[c].holds
             /\ calls'[c].expense = calls[c].expense
             /\ calls'[c].ambiguous = calls[c].ambiguous
             /\ \A d \in Calls \ {c} : calls'[d] = calls[d]
  BY <1>0, <1>2 DEF Move, Calling
<1>3. End(c) => /\ calls'[c].at = "ended"
                /\ \A d \in Calls \ {c} : calls'[d] = calls[d]
  <2>1. Ended.at = "ended"
    BY DEF Ended
  <2> QED
    BY <1>1, <2>1 DEF End
<1>4. ASSUME NEW payload, NEW body, Create(c, payload, body)
      PROVE  /\ calls'[c].at = "create"
             /\ calls'[c].holds = [payload |-> payload, body |-> body]
             /\ \A d \in Calls \ {c} : calls'[d] = calls[d]
  BY <1>0, <1>4 DEF Create, Calling
<1>5. ASSUME NEW isAmbiguous \in BOOLEAN, NextAttempt(c, isAmbiguous)
      PROVE  /\ calls'[c].holds = calls[c].holds
             /\ calls'[c].at = "create" \/ calls'[c].at = "prove"
             /\ \A d \in Calls \ {c} : calls'[d] = calls[d]
  BY <1>0, <1>5 DEF NextAttempt, Calling
<1>6. ASSUME NEW e, Created(c, e)
      PROVE  /\ calls'[c].at = "reread" /\ calls'[c].holds = calls[c].holds
             /\ calls'[c].expense = e
             /\ \A d \in Calls \ {c} : calls'[d] = calls[d]
  BY <1>0, <1>6 DEF Created, Calling
<1> QED
  BY <1>2, <1>3, <1>4, <1>5, <1>6

LEMMA RecoverMoves ==
    ASSUME TypeOK, NEW c \in Calls, Recover(c)
    PROVE  calls' \in [Calls -> Calling]
<1>1. draft.payload \in Payloads /\ draft.body \in Bodies \cup {Null}
  BY DEF TypeOK, Drafts
<1> QED
  BY <1>1, MoveTypeOK DEF Recover

LEMMA ArriveMoves ==
    ASSUME TypeOK, NEW c \in Calls, Arrive(c)
    PROVE  /\ calls' \in [Calls -> Calling] /\ calls'[c].at = "look"
           /\ calls'[c].holds.body \in Bodies
           /\ \A d \in Calls \ {c} : calls'[d] = calls[d]
<1> DEFINE held == [calls[c].holds EXCEPT !.body = BodyOf(c)]
           arrived == [calls[c] EXCEPT !.at = "look", !.holds = held]
<1>1. calls \in [Calls -> Calling] /\ calls[c] \in Calling
  BY DEF TypeOK
<1>2. calls[c].holds \in Holdings
  BY <1>1 DEF Calling, Holdings
<1>3. held \in Holdings /\ held.body \in Bodies
  BY <1>2, BodyAssumption DEF Holdings
<1>4. calls' = [calls EXCEPT ![c] = arrived]
  BY DEF Arrive
<1> HIDE DEF held
<1>5. arrived \in Calling /\ arrived.at = "look" /\ arrived.holds = held
  BY <1>1, <1>3 DEF Calling, Holdings, Points
<1> HIDE DEF arrived
<1> QED
  BY <1>1, <1>3, <1>4, <1>5

(* A new expense is one, and there is room for it. *)
LEMMA CommitTypeOK ==
    ASSUME TypeOK, Room, BoundInv, NEW c \in Calls, Commit(c)
    PROVE  TypeOK'
<1>1. calls[c] \in Calling /\ bound \subseteq Contents
  BY DEF TypeOK
<1>2. calls[c].holds \in Contents
  BY <1>1 DEF Commit, BoundInv
<1>3. NewExpense(c) \in Expenses
  BY <1>2 DEF NewExpense, Contents, Expenses
<1>4. ledger \in Seq(Expenses) /\ Len(ledger) \in Nat /\ Len(ledger) <= MaxExpenses
  BY DEF TypeOK, Expenses
<1>5. CASE /\ Live = {} /\ ledger' = Append(ledger, NewExpense(c))
           /\ Created(c, Len(ledger) + 1)
  <2>1. ledger' \in Seq(Expenses) /\ Len(ledger') = Len(ledger) + 1
    BY <1>3, <1>4, <1>5
  <2>2. Len(ledger) + 1 \in 0 .. MaxExpenses
    BY <1>4, <1>5, BoundsAssumption DEF Room
  <2>3. calls' \in [Calls -> Calling]
    BY <1>5, <2>2, MoveTypeOK
  <2> QED
    BY <2>1, <2>2, <2>3 DEF Commit, TypeOK, Expenses
<1>6. ASSUME NEW e \in Live, UNCHANGED ledger, Created(c, e) PROVE TypeOK'
  <2>1. e \in 0 .. MaxExpenses
    BY <1>4, BoundsAssumption DEF Live
  <2>2. calls' \in [Calls -> Calling]
    BY <1>6, <2>1, MoveTypeOK
  <2> QED
    BY <1>6, <2>2 DEF Commit, TypeOK
<1> QED
  BY <1>5, <1>6 DEF Commit

LEMMA RequestTypeOK ==
    ASSUME TypeOK, Room, Holding, BoundInv, NEW c \in Calls,
           Arrive(c) \/ Step(c) \/ Failure(c)
    PROVE  TypeOK'
<1>p. {"claim", "lookAgain", "link", "revert"} \subseteq Points
  BY DEF Points
<1>a. calls[c].ambiguous \in BOOLEAN /\ TRUE \in BOOLEAN
  BY DEF TypeOK, Calling
<1>m. /\ \A point \in {"claim", "lookAgain", "link", "revert"} :
            Move(c, point) => calls' \in [Calls -> Calling]
      /\ End(c) => calls' \in [Calls -> Calling]
      /\ Recover(c) => calls' \in [Calls -> Calling]
      /\ NextAttempt(c, calls[c].ambiguous) => calls' \in [Calls -> Calling]
      /\ NextAttempt(c, TRUE) => calls' \in [Calls -> Calling]
  BY <1>p, <1>a, MoveTypeOK, RecoverMoves
<1>f. Fault => faults' \in 0 .. MaxFaults
  BY BoundsAssumption DEF TypeOK, Fault
<1>1. CASE Arrive(c)
  <2>1. calls' \in [Calls -> Calling]
    BY <1>1, ArriveMoves
  <2>2. overlap' \in BOOLEAN
    BY <1>1 DEF Arrive, TypeOK
  <2> QED
    BY <1>1, <2>1, <2>2 DEF Arrive, TypeOK
<1>2. CASE Look(c) \/ LoseClaim(c) \/ LookAgain(c)
  <2>1. calls' \in [Calls -> Calling]
    BY <1>2, <1>m DEF Look, LoseClaim, LookAgain
  <2> QED
    BY <1>2, <2>1 DEF Look, LoseClaim, LookAgain, TypeOK
<1>3. CASE Claim(c)
  <2>1. calls[c].holds.body \in Bodies /\ draft.payload \in Payloads /\ draft \in Drafts
    BY <1>3 DEF Claim, Holding, TypeOK, Drafts
  <2>2. calls' \in [Calls -> Calling]
    BY <1>3, <2>1, MoveTypeOK DEF Claim
  <2>3. draft' \in Drafts
    BY <1>3, <2>1 DEF Claim, Drafts
  <2>4. bound' \subseteq Contents
    BY <1>3, <2>1 DEF Claim, TypeOK, Contents
  <2> QED
    BY <1>3, <2>2, <2>3, <2>4 DEF Claim, TypeOK
<1>4. CASE Commit(c)
  BY <1>4, CommitTypeOK
<1>5. CASE Refused(c) \/ Reread(c)
  <2>1. calls' \in [Calls -> Calling]
    BY <1>5, <1>m DEF Refused, Reread
  <2> QED
    BY <1>5, <2>1 DEF Refused, Reread, TypeOK
<1>6. CASE Link(c)
  <2>1. calls[c].expense \in 0 .. MaxExpenses
    BY DEF TypeOK, Calling
  <2>2. draft' \in Drafts
    BY <1>6, <2>1 DEF Link, SetConfirmedExpense, TypeOK, Drafts
  <2> QED
    BY <1>6, <2>2, <1>m DEF Link, TypeOK
<1>7. CASE Prove(c)
  <2>1. ASSUME NEW e \in Live,
               calls' = [calls EXCEPT ![c] = [@ EXCEPT !.at = "link", !.expense = e]]
        PROVE  calls' \in [Calls -> Calling]
    <3>1. e \in 0 .. MaxExpenses
      BY <2>1, BoundsAssumption DEF Live, TypeOK
    <3>2. [calls[c] EXCEPT !.at = "link", !.expense = e] \in Calling
      BY <3>1 DEF TypeOK, Calling, Points
    <3> QED
      BY <2>1, <3>2 DEF TypeOK
  <2>2. calls' \in [Calls -> Calling]
    BY <1>7, <2>1, <1>m DEF Prove
  <2> QED
    BY <1>7, <2>2 DEF Prove, TypeOK
<1>8. CASE Revert(c)
  <2>1. draft' \in Drafts
    BY <1>8 DEF Revert, TypeOK, Drafts
  <2> QED
    BY <1>8, <2>1, <1>m DEF Revert, TypeOK
<1>9. CASE Failure(c)
  <2>1. calls' \in [Calls -> Calling]
    BY <1>9, <1>m DEF Failure, Crash, FailAmbiguously, ProveBlindly
  <2> QED
    BY <1>9, <2>1, <1>f DEF Failure, Crash, FailAmbiguously, ProveBlindly, TypeOK
<1> QED
  BY <1>1, <1>2, <1>3, <1>4, <1>5, <1>6, <1>7, <1>8, <1>9 DEF Step

-----------------------------------------------------------------------------
(* How the ledger changes: an expense is appended when none is live, or    *)
(* one is deleted while there is room.                                     *)
Appended(c) ==
    /\ Live = {} /\ calls[c].at = "create"
    /\ ledger' = Append(ledger, NewExpense(c)) /\ Created(c, Len(ledger) + 1)

LEMMA LedgerSteps ==
    ASSUME [Next]_vars
    PROVE  \/ UNCHANGED ledger
           \/ \E c \in Calls : Commit(c) /\ Appended(c)
           \/ \E e \in DOMAIN ledger : DeleteExpense(e)
<1>1. ASSUME NEW c \in Calls,
             \/ Arrive(c) \/ Look(c) \/ Claim(c) \/ LoseClaim(c) \/ LookAgain(c)
             \/ Refused(c) \/ Reread(c) \/ Link(c) \/ Prove(c) \/ Revert(c) \/ Failure(c)
      PROVE  UNCHANGED ledger
  BY <1>1 DEF Arrive, Look, Claim, LoseClaim, LookAgain, Refused, Reread, Link, Prove,
         Revert, Failure, Crash, FailAmbiguously, ProveBlindly
<1>2. ASSUME NEW c \in Calls, Commit(c) PROVE UNCHANGED ledger \/ Appended(c)
  BY <1>2 DEF Commit, Appended
<1>3. UpdateDraft \/ DiscardDraft \/ LockOrReopen \/ UNCHANGED vars => UNCHANGED ledger
  BY DEF UpdateDraft, DiscardDraft, LockOrReopen, vars
<1> QED
  BY <1>1, <1>2, <1>3 DEF Next, Step, Elsewhere

LEMMA LedgerType ==
    ASSUME TypeOK
    PROVE  /\ ledger \in Seq(Expenses) /\ Len(ledger) \in Nat
           /\ DOMAIN ledger = 1 .. Len(ledger)
  BY DEF TypeOK, Expenses

(* What the two changes do to the expenses there were. *)
LEMMA AppendLive ==
    ASSUME TypeOK, NEW c \in Calls, NewExpense(c) \in Expenses, Appended(c)
    PROVE  /\ Len(ledger') = Len(ledger) + 1 /\ DOMAIN ledger' = DOMAIN ledger \cup {Len(ledger) + 1}
           /\ \A e \in DOMAIN ledger : ledger'[e] = ledger[e]
           /\ ledger'[Len(ledger) + 1] = NewExpense(c)
           /\ Live' = {Len(ledger) + 1}
<1>1. /\ Len(ledger') = Len(ledger) + 1 /\ DOMAIN ledger' = DOMAIN ledger \cup {Len(ledger) + 1}
      /\ \A e \in DOMAIN ledger : ledger'[e] = ledger[e]
      /\ ledger'[Len(ledger) + 1] = NewExpense(c)
  BY LedgerType DEF Appended
<1>2. NewExpense(c).live
  BY DEF NewExpense
<1> QED
  BY <1>1, <1>2 DEF Live, Appended

LEMMA DeleteLive ==
    ASSUME TypeOK, NEW e \in DOMAIN ledger, DeleteExpense(e)
    PROVE  /\ ledger' \in Seq(Expenses)
           /\ Len(ledger') = Len(ledger) /\ DOMAIN ledger' = DOMAIN ledger
           /\ \A d \in DOMAIN ledger :
                 ledger'[d].payload = ledger[d].payload /\ ledger'[d].body = ledger[d].body
           /\ Live' = Live \ {e}
<1>1. ledger' = [ledger EXCEPT ![e] = [ledger[e] EXCEPT !.live = FALSE]]
  BY DEF DeleteExpense
<1>2. ledger[e] \in Expenses
  BY LedgerType
<1>3. [ledger[e] EXCEPT !.live = FALSE] \in Expenses
  BY <1>2 DEF Expenses
<1>4. ledger' \in Seq(Expenses) /\ Len(ledger') = Len(ledger) /\ DOMAIN ledger' = DOMAIN ledger
  BY <1>1, <1>3, LedgerType
<1>5. /\ ledger'[e].payload = ledger[e].payload /\ ledger'[e].body = ledger[e].body
      /\ ~ledger'[e].live /\ \A d \in DOMAIN ledger \ {e} : ledger'[d] = ledger[d]
  BY <1>1, <1>2, LedgerType DEF Expenses
<1> QED
  BY <1>4, <1>5 DEF Live

(* What is appended was bound by a claim. *)
LEMMA AppendsBound ==
    ASSUME TypeOK, BoundInv, NEW c \in Calls, Appended(c)
    PROVE  /\ NewExpense(c) \in Expenses
           /\ [payload |-> NewExpense(c).payload, body |-> NewExpense(c).body] \in bound
<1>1. calls[c].holds \in bound /\ bound \subseteq Contents
  BY DEF Appended, BoundInv, TypeOK
<1>2. calls[c].holds \in Contents
  BY <1>1
<1>3. calls[c].holds = [payload |-> calls[c].holds.payload, body |-> calls[c].holds.body]
  BY <1>2 DEF Contents
<1> QED
  BY <1>1, <1>2, <1>3 DEF NewExpense, Contents, Expenses

LEMMA NextTypeOK ==
    ASSUME ContentInv, [Next]_vars PROVE TypeOK'
<1> USE DEF ContentInv
<1>1. ASSUME NEW c \in Calls, Arrive(c) \/ Step(c) \/ Failure(c) PROVE TypeOK'
  BY <1>1, RequestTypeOK
<1>2. CASE UpdateDraft \/ DiscardDraft
  <2>1. draft' \in Drafts
    <3>1. draft \in Drafts
      BY DEF TypeOK
    <3>2. CASE UpdateDraft
      <4>1. draft.payload + 1 \in Payloads
        BY <3>1, <3>2, BoundsAssumption DEF UpdateDraft, Drafts, Payloads
      <4> QED
        BY <3>1, <3>2, <4>1 DEF UpdateDraft, Drafts
    <3>3. CASE DiscardDraft
      BY <3>1, <3>3 DEF DiscardDraft, Drafts
    <3> QED
      BY <1>2, <3>2, <3>3
  <2> QED
    BY <1>2, <2>1 DEF UpdateDraft, DiscardDraft, TypeOK
<1>3. ASSUME NEW e \in DOMAIN ledger, DeleteExpense(e) PROVE TypeOK'
  BY <1>3, DeleteLive DEF DeleteExpense, TypeOK, Expenses
<1>4. CASE LockOrReopen
  <2>1. open' \in BOOLEAN
    BY <1>4 DEF LockOrReopen
  <2> QED
    BY <1>4, <2>1 DEF LockOrReopen, TypeOK
<1>5. CASE UNCHANGED vars
  BY <1>5 DEF vars, TypeOK
<1> QED
  BY <1>1, <1>2, <1>3, <1>4, <1>5 DEF Next, Elsewhere

(* Claims are remembered. *)
LEMMA BoundGrows == ASSUME [Next]_vars PROVE bound \subseteq bound'
  BY DEF Next, Step, Elsewhere, Arrive, Look, Claim, LoseClaim, LookAgain, Commit, Refused,
     Reread, Link, Prove, Revert, Failure, Crash, FailAmbiguously, ProveBlindly,
     UpdateDraft, DiscardDraft, DeleteExpense, LockOrReopen, vars

LEMMA NextLedgerInv ==
    ASSUME ContentInv, [Next]_vars
    PROVE  Room' /\ OneLiveExpense' /\ ContentOfOneClaim'
<1> USE DEF ContentInv
<1>1. CASE UNCHANGED ledger
  BY <1>1, BoundGrows DEF Room, OneLiveExpense, ContentOfOneClaim, Live
<1>2. ASSUME NEW c \in Calls, Appended(c)
      PROVE  Room' /\ OneLiveExpense' /\ ContentOfOneClaim'
  <2>1. NewExpense(c) \in Expenses /\ Live' = {Len(ledger) + 1}
    BY <1>2, AppendsBound, AppendLive
  <2>2. Room' /\ OneLiveExpense'
    BY <2>1 DEF Room, OneLiveExpense
  <2>3. ContentOfOneClaim'
    BY <1>2, <2>1, AppendsBound, AppendLive, BoundGrows DEF ContentOfOneClaim
  <2> QED
    BY <2>2, <2>3
<1>3. ASSUME NEW e \in DOMAIN ledger, DeleteExpense(e)
      PROVE  Room' /\ OneLiveExpense' /\ ContentOfOneClaim'
  <2>1. Live' = Live \ {e} /\ Len(ledger') = Len(ledger) /\ Len(ledger) < MaxExpenses
    BY <1>3, DeleteLive DEF DeleteExpense
  <2>2. Room' /\ OneLiveExpense'
    BY <2>1 DEF Room, OneLiveExpense
  <2>3. ContentOfOneClaim'
    BY <1>3, DeleteLive, BoundGrows DEF ContentOfOneClaim
  <2> QED
    BY <2>2, <2>3
<1> QED
  BY <1>1, <1>2, <1>3, LedgerSteps

(* Expenses, live or not, stay where they are. *)
LEMMA LedgerGrows ==
    ASSUME ContentInv, [Next]_vars PROVE DOMAIN ledger \subseteq DOMAIN ledger'
<1>1. ASSUME NEW c \in Calls, Appended(c) PROVE DOMAIN ledger \subseteq DOMAIN ledger'
  BY <1>1, AppendsBound, AppendLive DEF ContentInv
<1>2. ASSUME NEW e \in DOMAIN ledger, DeleteExpense(e)
      PROVE  DOMAIN ledger \subseteq DOMAIN ledger'
  BY <1>2, DeleteLive DEF ContentInv
<1> QED
  BY <1>1, <1>2, LedgerSteps

(* Where an action of one request leaves it, and what it then holds. *)
LEMMA RequestMoves ==
    ASSUME ContentInv, NEW c \in Calls, Arrive(c) \/ Step(c) \/ Failure(c)
    PROVE  /\ \A d \in Calls \ {c} : calls'[d] = calls[d]
           /\ calls'[c].at \in {"look", "claim"} => calls'[c].holds.body \in Bodies
           /\ calls'[c].at \in {"reread", "link"} => calls'[c].expense \in DOMAIN ledger'
           /\ calls'[c].at \in {"create", "reread"} => calls'[c].holds \in bound'
<1> USE DEF ContentInv
<1>b. bound \subseteq bound' /\ DOMAIN ledger \subseteq DOMAIN ledger'
  <2>1. [Next]_vars
    BY DEF Next
  <2> QED
    BY <2>1, BoundGrows, LedgerGrows
<1>r. ASSUME draft.status = "confirmed", Recover(c), UNCHANGED draft
      PROVE  /\ calls'[c].at = "ended" \/ (calls'[c].at = "create" /\ calls'[c].holds \in bound')
             /\ \A d \in Calls \ {c} : calls'[d] = calls[d]
  BY <1>r, <1>b, Moves DEF Recover, BoundInv
<1>1. CASE Arrive(c)
  BY <1>1, ArriveMoves
<1>2. CASE Look(c) \/ LookAgain(c)
  <2>1. UNCHANGED draft
    BY <1>2 DEF Look, LookAgain
  <2>2. CASE Recover(c) /\ draft.status = "confirmed"
    BY <2>1, <2>2, <1>r
  <2>3. CASE End(c)
    BY <2>3, Moves
  <2>4. CASE Look(c) /\ Move(c, "claim")
    BY <2>4, Moves DEF Look, Holding
  <2> QED
    BY <1>2, <2>2, <2>3, <2>4 DEF Look, LookAgain
<1>3. CASE Claim(c)
  <2>1. /\ Create(c, draft.payload, calls[c].holds.body)
        /\ [payload |-> draft.payload, body |-> calls[c].holds.body] \in bound'
    BY <1>3 DEF Claim
  <2>2. /\ calls'[c].at = "create" /\ calls'[c].holds \in bound'
        /\ \A d \in Calls \ {c} : calls'[d] = calls[d]
    BY <2>1, Moves
  <2> QED
    BY <2>2
<1>4. CASE LoseClaim(c)
  BY <1>4, Moves DEF LoseClaim
<1>5. CASE Commit(c)
  <2>1. calls[c].holds \in bound'
    BY <1>5, <1>b DEF Commit, BoundInv
  <2>2. CASE Appended(c)
    <3>1. Len(ledger) + 1 \in DOMAIN ledger'
      BY <2>2, AppendsBound, AppendLive
    <3> QED
      BY <2>1, <2>2, <3>1, Moves DEF Appended
  <2>3. ASSUME NEW e \in Live, UNCHANGED ledger, Created(c, e)
        PROVE  /\ calls'[c].at = "reread" /\ calls'[c].holds \in bound'
               /\ calls'[c].expense \in DOMAIN ledger'
               /\ \A d \in Calls \ {c} : calls'[d] = calls[d]
    BY <2>1, <2>3, Moves DEF Live
  <2> QED
    BY <1>5, <2>2, <2>3 DEF Commit, Appended
<1>6. ASSUME NEW isAmbiguous \in BOOLEAN, NextAttempt(c, isAmbiguous),
             calls[c].at \in {"create", "reread"}
      PROVE  /\ calls'[c].at = "create" \/ calls'[c].at = "prove"
             /\ calls'[c].holds \in bound' /\ \A d \in Calls \ {c} : calls'[d] = calls[d]
  BY <1>6, <1>b, Moves DEF BoundInv
<1>a. calls[c].ambiguous \in BOOLEAN /\ TRUE \in BOOLEAN
  BY DEF TypeOK, Calling
<1>7. CASE Refused(c) \/ FailAmbiguously(c)
  BY <1>7, <1>6, <1>a DEF Refused, FailAmbiguously
<1>8. CASE Reread(c)
  <2>1. CASE Move(c, "link")
    <3>1. calls'[c].at = "link" /\ calls'[c].expense \in DOMAIN ledger'
          /\ \A d \in Calls \ {c} : calls'[d] = calls[d]
      BY <1>8, <2>1, <1>b, Moves DEF Reread, Holding
    <3> QED
      BY <3>1
  <2>2. CASE NextAttempt(c, calls[c].ambiguous)
    BY <1>8, <2>2, <1>6, <1>a DEF Reread
  <2> QED
    BY <1>8, <2>1, <2>2 DEF Reread
<1>9. CASE Link(c) \/ Revert(c) \/ Crash(c)
  BY <1>9, Moves DEF Link, Revert, Crash
<1>10. CASE Prove(c)
  <2>1. ASSUME NEW e \in Live,
               calls' = [calls EXCEPT ![c] = [@ EXCEPT !.at = "link", !.expense = e]]
        PROVE  /\ calls'[c].at = "link" /\ calls'[c].expense \in DOMAIN ledger'
               /\ \A d \in Calls \ {c} : calls'[d] = calls[d]
    BY <2>1, <1>b DEF Live, TypeOK, Calling
  <2>2. ASSUME End(c) \/ Move(c, "revert")
        PROVE  /\ calls'[c].at = "ended" \/ calls'[c].at = "revert"
               /\ \A d \in Calls \ {c} : calls'[d] = calls[d]
    BY <2>2, Moves
  <2>3. \/ \E e \in Live :
              calls' = [calls EXCEPT ![c] = [@ EXCEPT !.at = "link", !.expense = e]]
        \/ End(c) \/ Move(c, "revert")
    BY <1>10 DEF Prove
  <2> QED
    BY <2>1, <2>2, <2>3
<1>11. CASE ProveBlindly(c)
  BY <1>11, Moves DEF ProveBlindly
<1> QED
  BY <1>1, <1>2, <1>3, <1>4, <1>5, <1>7, <1>8, <1>9, <1>10, <1>11 DEF Step, Failure

(* A draft is confirmed by a claim, and not edited while it is. *)
LEMMA DraftBound ==
    ASSUME ContentInv, [Next]_vars, draft'.status = "confirmed"
    PROVE  [payload |-> draft'.payload, body |-> draft'.body] \in bound'
<1> USE DEF ContentInv
<1>d. draft \in Drafts
  BY DEF TypeOK
<1>1. ASSUME NEW c \in Calls, Claim(c)
      PROVE  [payload |-> draft'.payload, body |-> draft'.body] \in bound'
  BY <1>1, <1>d DEF Claim, Drafts
<1>2. ASSUME NEW c \in Calls,
             \/ Arrive(c) \/ Look(c) \/ LoseClaim(c) \/ LookAgain(c) \/ Commit(c)
             \/ Refused(c) \/ Reread(c) \/ Prove(c) \/ Failure(c)
      PROVE  UNCHANGED draft
  BY <1>2 DEF Arrive, Look, LoseClaim, LookAgain, Commit, Refused, Reread, Prove,
         Failure, Crash, FailAmbiguously, ProveBlindly
<1>3. ASSUME NEW c \in Calls, Link(c) \/ Revert(c)
      PROVE  /\ draft.status = "confirmed" /\ draft'.payload = draft.payload
             /\ draft'.body = draft.body
  BY <1>3, <1>d DEF Link, SetConfirmedExpense, Revert, Drafts
<1>4. ASSUME UpdateDraft \/ DiscardDraft PROVE FALSE
  BY <1>4, <1>d DEF UpdateDraft, DiscardDraft, Drafts
<1>5. ASSUME \/ LockOrReopen \/ UNCHANGED vars \/ \E e \in DOMAIN ledger : DeleteExpense(e)
      PROVE  UNCHANGED draft
  BY <1>5 DEF LockOrReopen, DeleteExpense, vars
<1> QED
  BY <1>1, <1>2, <1>3, <1>4, <1>5, BoundGrows DEF Next, Step, Elsewhere, BoundInv

LEMMA ElsewhereCalls == ASSUME Elsewhere \/ UNCHANGED vars PROVE UNCHANGED calls
  BY DEF Elsewhere, UpdateDraft, DiscardDraft, DeleteExpense, LockOrReopen, vars

LEMMA NextContentInv == ContentInv /\ [Next]_vars => ContentInv'
<1> SUFFICES ASSUME ContentInv, [Next]_vars PROVE ContentInv'
  OBVIOUS
<1>1. TypeOK' /\ Room' /\ OneLiveExpense' /\ ContentOfOneClaim'
  BY NextTypeOK, NextLedgerInv
<1>2. Holding' /\ BoundInv'
  <2>1. ASSUME NEW c \in Calls, Arrive(c) \/ Step(c) \/ Failure(c)
        PROVE  Holding' /\ BoundInv'
    BY <2>1, RequestMoves, LedgerGrows, BoundGrows, DraftBound
       DEF ContentInv, Holding, BoundInv
  <2>2. CASE Elsewhere \/ UNCHANGED vars
    BY <2>2, ElsewhereCalls, LedgerGrows, BoundGrows, DraftBound
       DEF ContentInv, Holding, BoundInv
  <2> QED
    BY <2>1, <2>2 DEF Next
<1> QED
  BY <1>1, <1>2 DEF ContentInv

LEMMA ContentInvariant == Spec => []ContentInv
  BY InitContentInv, NextContentInv, PTL DEF Spec

(* confirmDraft, run by however many overlapping requests, with whatever   *)
(* failures, leaves at most one live expense.                              *)
THEOREM AtMostOneExpense == Spec => []OneLiveExpense
<1>1. ContentInv => OneLiveExpense
  BY DEF ContentInv
<1> QED
  BY <1>1, ContentInvariant, PTL

(* Every expense made of the draft carries what one claim bound.           *)
THEOREM ContentsAreBound == Spec => []ContentOfOneClaim
<1>1. ContentInv => ContentOfOneClaim
  BY DEF ContentInv
<1> QED
  BY <1>1, ContentInvariant, PTL

-----------------------------------------------------------------------------
(* One request at a time: what a single request c sees, if it runs.        *)
(*   - A draft that is not confirmed has neither expense nor link.         *)
(*   - Creating and rolling back happen behind a confirmed, unlinked draft.*)
(*   - Who rolls back has nothing live behind it.                          *)
(*   - Before the first failure, an unlinked draft has no live expense but *)
(*     the one its request is about to link.                               *)
InTurn(c) ==
    /\ \A d \in Calls \ {c} : calls[d].at = "ended"
    /\ draft.status # "confirmed" => Live = {} /\ draft.expense = NoExpense
    /\ calls[c].at \in {"create", "reread", "link", "prove", "revert"} =>
          draft.status = "confirmed" /\ draft.expense = NoExpense
    /\ calls[c].at = "revert" => Live = {}
    /\ faults = 0 /\ draft.expense = NoExpense =>
          \/ Live = {}
          \/ calls[c].at \in {"reread", "link"} /\ Live = {calls[c].expense}

(* With nobody running, everybody's turn may come. *)
TurnInv ==
    \/ overlap
    \/ /\ Calls # {} => \E c \in Calls : InTurn(c)
       /\ Calls = {} => Live = {}

(* Whose turn it is may change only while nobody runs. *)
LEMMA TurnPasses ==
    ASSUME NEW b \in Calls, InTurn(b), NEW c \in Calls, calls[b].at = "ended" \/ b = c
    PROVE  InTurn(c)
<1>1. CASE b = c
  BY <1>1
<1>2. CASE calls[b].at = "ended" /\ b # c
  <2>1. \A d \in Calls : calls[d].at = "ended"
    BY <1>2 DEF InTurn
  <2> QED
    BY <1>2, <2>1 DEF InTurn
<1> QED
  BY <1>1, <1>2

LEMMA RequestInTurn ==
    ASSUME ContentInv, NEW c \in Calls, InTurn(c), MaxFaults <= 1,
           Step(c) \/ Failure(c) \/ (Arrive(c) /\ calls[c].at = "ended")
    PROVE  InTurn(c)'
<1> USE DEF ContentInv
<1>d. \A d \in Calls \ {c} : calls'[d].at = "ended"
  BY RequestMoves DEF InTurn
<1>t. draft \in Drafts /\ faults \in Nat /\ faults <= 1
  BY BoundsAssumption DEF TypeOK
<1>s. UNCHANGED ledger => Live' = Live
  BY DEF Live
<1>1. CASE Arrive(c)
  <2>1. UNCHANGED <<draft, ledger, faults>>
        /\ calls[c].at = "ended" /\ calls'[c].at = "look"
    BY <1>1, ArriveMoves DEF Arrive
  <2> QED
    BY <1>1, <1>d, <1>s, <2>1 DEF InTurn
<1>2. CASE Look(c) \/ LookAgain(c) \/ LoseClaim(c)
  <2>1. UNCHANGED <<draft, ledger, faults>>
    BY <1>2 DEF Look, LookAgain, LoseClaim
  <2>2. \/ calls'[c].at \in {"ended", "claim", "lookAgain"}
        \/ calls'[c].at = "create" /\ draft.status = "confirmed" /\ draft.expense = NoExpense
    BY <1>2, Moves DEF Look, LookAgain, LoseClaim, Recover
  <2>3. calls[c].at \notin {"reread", "link"}
    BY <1>2 DEF Look, LookAgain, LoseClaim
  <2> QED
    BY <1>d, <1>s, <2>1, <2>2, <2>3 DEF InTurn
<1>3. CASE Claim(c)
  <2>1. /\ UNCHANGED <<ledger, faults>> /\ calls'[c].at = "create"
        /\ draft'.status = "confirmed" /\ draft'.expense = draft.expense
        /\ draft.status = "pending"
    BY <1>3, <1>t, Moves DEF Claim, Drafts
  <2> QED
    BY <1>d, <1>s, <2>1 DEF InTurn
<1>4. CASE Commit(c)
  <2>1. UNCHANGED <<draft, faults>> /\ calls[c].at = "create"
    BY <1>4 DEF Commit
  <2>2. CASE Appended(c)
    <3>1. Live' = {Len(ledger) + 1}
      BY <2>2, AppendsBound, AppendLive
    <3>2. calls'[c].at = "reread" /\ calls'[c].expense = Len(ledger) + 1
      BY <2>2, Moves DEF Appended
    <3> QED
      BY <1>d, <2>1, <3>1, <3>2 DEF InTurn
  <2>3. ASSUME NEW e \in Live, UNCHANGED ledger, Created(c, e) PROVE InTurn(c)'
    <3>1. calls'[c].at = "reread" /\ calls'[c].expense = e
      BY <2>3, Moves
    <3> QED
      BY <1>d, <1>s, <2>1, <2>3, <3>1 DEF InTurn
  <2> QED
    BY <1>4, <2>2, <2>3 DEF Commit, Appended
<1>5. CASE Refused(c) \/ Reread(c)
  <2>1. /\ UNCHANGED <<draft, ledger, faults>>
        /\ calls[c].at \in {"create", "reread"}
    BY <1>5 DEF Refused, Reread
  <2>2. calls[c].ambiguous \in BOOLEAN
    BY DEF TypeOK, Calling
  <2>3. CASE NextAttempt(c, calls[c].ambiguous) /\ (calls[c].at = "create" \/ calls[c].expense \notin Live)
    <3>1. calls'[c].at = "create" \/ calls'[c].at = "prove"
      BY <2>2, <2>3, Moves
    <3> QED
      BY <1>d, <1>s, <2>1, <2>3, <3>1 DEF InTurn
  <2>4. CASE Move(c, "link")
    <3>1. calls'[c].at = "link" /\ calls'[c].expense = calls[c].expense
      BY <2>4, Moves
    <3> QED
      BY <1>d, <1>s, <2>1, <3>1 DEF InTurn
  <2> QED
    BY <1>5, <2>3, <2>4 DEF Refused, Reread
<1>6. CASE Link(c)
  <2>1. /\ UNCHANGED <<ledger, faults>> /\ calls[c].at = "link" /\ calls'[c].at = "ended"
        /\ draft' = IF draft.status = "confirmed" THEN [draft EXCEPT !.expense = calls[c].expense]
                                                  ELSE draft
    BY <1>6, Moves DEF Link, SetConfirmedExpense
  <2>2. draft.status = "confirmed" /\ calls[c].expense \in DOMAIN ledger
    BY <2>1 DEF InTurn, Holding
  <2>3. calls[c].expense # NoExpense
    BY <2>2, LedgerType DEF NoExpense
  <2>4. draft'.status = "confirmed" /\ draft'.expense = calls[c].expense
    BY <1>t, <2>1, <2>2 DEF Drafts
  <2> QED
    BY <1>d, <1>s, <2>1, <2>3, <2>4 DEF InTurn
<1>7. CASE Prove(c)
  <2>1. UNCHANGED <<draft, ledger, faults>> /\ calls[c].at = "prove"
    BY <1>7 DEF Prove
  <2>2. ASSUME NEW e \in Live,
               calls' = [calls EXCEPT ![c] = [@ EXCEPT !.at = "link", !.expense = e]]
        PROVE  InTurn(c)'
    <3>1. calls'[c].at = "link" /\ calls'[c].expense = e
      BY <2>2 DEF TypeOK, Calling
    <3> QED
      BY <1>d, <1>s, <2>1, <2>2, <3>1 DEF InTurn
  <2>3. CASE Live = {} /\ (End(c) \/ Move(c, "revert"))
    <3>1. calls'[c].at = "ended" \/ calls'[c].at = "revert"
      BY <2>3, Moves
    <3> QED
      BY <1>d, <1>s, <2>1, <2>3, <3>1 DEF InTurn
  <2> QED
    BY <1>7, <2>2, <2>3 DEF Prove
<1>8. CASE Revert(c)
  <2>1. /\ UNCHANGED <<ledger, faults>> /\ calls[c].at = "revert" /\ calls'[c].at = "ended"
        /\ draft'.expense = draft.expense
    BY <1>8, <1>t, Moves DEF Revert, Drafts
  <2>2. Live = {} /\ draft.expense = NoExpense
    BY <2>1 DEF InTurn
  <2> QED
    BY <1>d, <1>s, <2>1, <2>2 DEF InTurn
<1>9. CASE Crash(c) \/ FailAmbiguously(c)
  <2>1. UNCHANGED <<draft, ledger>> /\ faults' = faults + 1
    BY <1>9 DEF Crash, FailAmbiguously, Fault
  <2>2. \/ calls'[c].at = "ended"
        \/ /\ calls'[c].at = "create" \/ calls'[c].at = "prove"
           /\ calls[c].at \in {"create", "reread"}
    BY <1>9, Moves DEF Crash, FailAmbiguously
  <2> QED
    BY <1>d, <1>s, <1>t, <2>1, <2>2 DEF InTurn
<1>10. CASE ProveBlindly(c)
  <2>1. /\ UNCHANGED <<draft, ledger>> /\ faults' = faults + 1 /\ faults = 0
        /\ calls[c].at = "prove"
    BY <1>10, <1>t, BoundsAssumption DEF ProveBlindly, Fault
  <2>2. Live = {}
    BY <2>1 DEF InTurn
  <2>3. calls'[c].at = "ended" \/ calls'[c].at = "revert"
    BY <1>10, Moves DEF ProveBlindly
  <2> QED
    BY <1>d, <1>s, <2>1, <2>2, <2>3 DEF InTurn
<1> QED
  BY <1>1, <1>2, <1>3, <1>4, <1>5, <1>6, <1>7, <1>8, <1>9, <1>10 DEF Step, Failure

(* What happens elsewhere takes expenses away and leaves a draft that is   *)
(* not pending alone.                                                      *)
LEMMA ElsewhereInTurn ==
    ASSUME ContentInv, NEW c \in Calls, InTurn(c), Elsewhere \/ UNCHANGED vars
    PROVE  InTurn(c)'
<1> USE DEF ContentInv
<1>c. UNCHANGED <<calls, faults>>
  BY DEF Elsewhere, UpdateDraft, DiscardDraft, DeleteExpense, LockOrReopen, vars
<1>1. CASE UpdateDraft \/ DiscardDraft
  <2>1. /\ UNCHANGED ledger /\ draft.status = "pending" /\ draft'.status # "confirmed"
        /\ draft'.expense = draft.expense
    BY <1>1 DEF UpdateDraft, DiscardDraft, TypeOK, Drafts
  <2> QED
    BY <1>c, <2>1 DEF InTurn, Live
<1>2. ASSUME NEW e \in DOMAIN ledger, DeleteExpense(e) PROVE InTurn(c)'
  <2>1. UNCHANGED draft /\ Live' = Live \ {e}
    BY <1>2, DeleteLive DEF DeleteExpense
  <2>2. \A x : Live = {x} => Live' = {x} \/ Live' = {}
    BY <2>1
  <2>3. Live = {} => Live' = {}
    BY <2>1
  <2> QED
    BY <1>c, <2>1, <2>2, <2>3 DEF InTurn
<1>3. CASE LockOrReopen \/ UNCHANGED vars
  BY <1>3 DEF LockOrReopen, vars, InTurn, Live
<1> QED
  BY <1>1, <1>2, <1>3 DEF Elsewhere

LEMMA InitTurnInv == Init => TurnInv
<1> SUFFICES ASSUME Init PROVE TurnInv
  OBVIOUS
<1>1. Live = {}
  BY DEF Init, Live
<1>2. \A c \in Calls : calls[c].at = "ended"
  BY DEF Init, Ended
<1>3. draft.expense = NoExpense
  BY DEF Init
<1> QED
  BY <1>1, <1>2, <1>3 DEF TurnInv, InTurn

LEMMA NextTurnInv ==
    ASSUME MaxFaults <= 1, ContentInv, TurnInv, [Next]_vars PROVE TurnInv'
<1>o. overlap => overlap'
  BY DEF Next, Step, Elsewhere, Arrive, Look, Claim, LoseClaim, LookAgain, Commit, Refused,
     Reread, Link, Prove, Revert, Failure, Crash, FailAmbiguously, ProveBlindly,
     UpdateDraft, DiscardDraft, DeleteExpense, LockOrReopen, vars
<1> SUFFICES ASSUME ~overlap'
             PROVE  /\ Calls # {} => \E c \in Calls : InTurn(c)'
                    /\ Calls = {} => Live' = {}
  BY DEF TurnInv
<1>1. Calls = {} => Live' = {}
  <2> SUFFICES ASSUME Calls = {} PROVE Live' = {}
    OBVIOUS
  <2>1. Live = {}
    BY <1>o DEF TurnInv
  <2>2. UNCHANGED ledger \/ \E e \in DOMAIN ledger : DeleteExpense(e)
    BY LedgerSteps
  <2> QED
    BY <2>1, <2>2, DeleteLive DEF Live, ContentInv
<1>2. ASSUME NEW b \in Calls, InTurn(b) PROVE \E c \in Calls : InTurn(c)'
  <2>1. CASE Elsewhere \/ UNCHANGED vars
    BY <1>2, <2>1, ElsewhereInTurn
  <2>2. ASSUME NEW c \in Calls, Arrive(c) PROVE InTurn(c)'
    <3>1. Running = {}
      BY <2>2 DEF Arrive
    <3>2. calls[b].at = "ended" /\ calls[c].at = "ended"
      BY <3>1 DEF Running
    <3>3. InTurn(c)
      BY <1>2, <3>2, TurnPasses
    <3> QED
      BY <2>2, <3>2, <3>3, RequestInTurn
  <2>3. ASSUME NEW c \in Calls, Step(c) \/ Failure(c) PROVE InTurn(c)'
    <3>1. calls[c].at # "ended"
      BY <2>3 DEF Step, Failure, Look, Claim, LoseClaim, LookAgain, Commit, Refused, Reread,
             Link, Prove, Revert, Crash, FailAmbiguously, ProveBlindly
    <3>2. c = b
      BY <1>2, <3>1 DEF InTurn
    <3> QED
      BY <1>2, <2>3, <3>2, RequestInTurn
  <2> QED
    BY <2>1, <2>2, <2>3 DEF Next
<1> QED
  BY <1>o, <1>1, <1>2 DEF TurnInv

(* While requests confirm one after the other and at most one failure      *)
(* strikes, createAndLink rolls back only what it did not make: no live    *)
(* expense stands behind a draft that is not confirmed.                    *)
THEOREM NoOrphanInTurn == ASSUME MaxFaults <= 1 PROVE Spec => []NoPendingOrphanInTurn
<1>1. ContentInv /\ TurnInv /\ [Next]_vars => TurnInv'
  BY NextTurnInv
<1>2. Spec => []TurnInv
  BY <1>1, InitTurnInv, ContentInvariant, PTL DEF Spec
<1>3. TurnInv => NoPendingOrphanInTurn
  BY DEF TurnInv, InTurn, NoPendingOrphanInTurn, NoPendingOrphan
<1> QED
  BY <1>2, <1>3, PTL

=============================================================================

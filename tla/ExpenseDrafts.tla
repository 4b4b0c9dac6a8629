---------------------------- MODULE ExpenseDrafts ----------------------------
(***************************************************************************)
(* Confirming one imported draft: expense-drafts.service confirmDraft and  *)
(* createAndLink, run by several overlapping requests of the draft's owner *)
(* (two tabs, a retry overtaking a slow first attempt), next to the edits  *)
(* and the discarding of the draft, the deletion of the expense it became, *)
(* the locking of the trip, infrastructure failures and crashes.           *)
(*                                                                         *)
(* Each repository call is one step: a single statement, or one            *)
(* transaction.  Between two of them everything else may happen.           *)
(***************************************************************************)
EXTENDS Naturals, Sequences

CONSTANTS
    Calls,        \* confirm requests that may be running at once
    Bodies,       \* confirm bodies: who paid, who took part
    BodyOf(_),    \* the body a request was sent with
    Null,         \* confirm_payload IS NULL; nothing read yet
    MaxEdits,     \* bound: edits of the draft
    MaxExpenses,  \* bound: expenses ever created under the draft's key
    MaxFaults     \* bound: infrastructure failures and crashes

ASSUME BoundsAssumption ==
    MaxExpenses \in Nat \ {0} /\ MaxFaults \in Nat /\ MaxEdits \in Nat

(* Every edit leaves another content of the parsed draft: its number. *)
Payloads == 0 .. MaxEdits

ASSUME SentinelAssumption == Null \notin Bodies \cup Payloads

ASSUME BodyAssumption == \A c \in Calls : BodyOf(c) \in Bodies

NoExpense == 0

VARIABLES
    draft,   \* the expense_drafts row
    ledger,  \* expenses created with idempotency key draft:<id>, oldest first
    open,    \* settlement_status of the trip is 'open'
    calls,   \* where each request is, and what it holds
    bound,   \* history: the (payload, body) pairs claimForConfirm has bound
    overlap, \* history: two requests were running at once
    faults   \* failures so far

vars == <<draft, ledger, open, calls, bound, overlap, faults>>

Contents == [payload : Payloads, body : Bodies]

Drafts == [status : {"pending", "confirmed", "discarded"},
           payload : Payloads, body : Bodies \cup {Null},
           expense : 0 .. MaxExpenses]

(* The statements of confirmDraft and createAndLink a request may be at. *)
Points == {"ended", "look", "claim", "lookAgain", "create", "reread", "link",
           "prove", "revert"}

Calling == [at : Points,
            holds : [payload : Payloads \cup {Null}, body : Bodies \cup {Null}],
            attempt : 1 .. 2, ambiguous : BOOLEAN, expense : 0 .. MaxExpenses]

Ended == [at |-> "ended", holds |-> [payload |-> Null, body |-> Null],
          attempt |-> 1, ambiguous |-> FALSE, expense |-> NoExpense]

Live == {e \in DOMAIN ledger : ledger[e].live}

-----------------------------------------------------------------------------
(* The rows confirmDraft may meet.  A discarded draft is soft-deleted, so  *)
(* findById does not return it; one already linked is replayed.            *)

Move(c, point) == calls' = [calls EXCEPT ![c].at = point]

(* The request is answered, with a result or an error, or it dies. *)
End(c) == calls' = [calls EXCEPT ![c] = Ended]

Running == {c \in Calls : calls[c].at # "ended"}

Arrive(c) ==
    /\ calls[c].at = "ended"
    /\ calls' = [calls EXCEPT ![c] = [@ EXCEPT !.at = "look", !.holds.body = BodyOf(c)]]
    /\ overlap' = (overlap \/ Running # {})
    /\ UNCHANGED <<draft, ledger, open, bound, faults>>

(* Enter createAndLink with a payload and a body. *)
Create(c, payload, body) ==
    calls' = [calls EXCEPT ![c] =
                 [@ EXCEPT !.at = "create",
                           !.holds = [payload |-> payload, body |-> body]]]

\* Mutant: the recovery uses the body of its own request.
RecoverWithOwnBody(c) ==
    IF draft.expense = NoExpense THEN Create(c, draft.payload, calls[c].holds.body)
                                 ELSE End(c)

(* A confirmed draft without a link: finish what another request, or an    *)
(* earlier one, left undone, with the content that one bound.              *)
Recover(c) ==
    IF draft.expense = NoExpense THEN Create(c, draft.payload, draft.body)
                                 ELSE End(c)

\* Mutant: a confirmed draft is a conflict, linked or not.
LookWithoutRecovery(c) ==
    /\ calls[c].at = "look"
    /\ IF draft.status = "pending" THEN Move(c, "claim") ELSE End(c)
    /\ UNCHANGED <<draft, ledger, open, bound, overlap, faults>>

Look(c) ==
    /\ calls[c].at = "look"
    /\ \/ draft.status = "discarded" /\ End(c)
       \/ draft.status = "confirmed" /\ Recover(c)
       \/ draft.status = "pending" /\ Move(c, "claim")
    /\ UNCHANGED <<draft, ledger, open, bound, overlap, faults>>

(* claimForConfirm: pending becomes confirmed, the body is bound, and the  *)
(* payload used from here on is the one the UPDATE returned.               *)
Claim(c) ==
    /\ calls[c].at = "claim"
    /\ draft.status = "pending"
    /\ LET body == calls[c].holds.body
       IN  /\ draft' = [draft EXCEPT !.status = "confirmed", !.body = body]
           /\ bound' = bound \cup {[payload |-> draft.payload, body |-> body]}
           /\ Create(c, draft.payload, body)
    /\ UNCHANGED <<ledger, open, overlap, faults>>

LoseClaim(c) ==
    /\ calls[c].at = "claim"
    /\ draft.status # "pending"
    /\ Move(c, "lookAgain")
    /\ UNCHANGED <<draft, ledger, open, bound, overlap, faults>>

LookAgain(c) ==
    /\ calls[c].at = "lookAgain"
    /\ \/ draft.status = "confirmed" /\ Recover(c)
       \/ draft.status # "confirmed" /\ End(c)
    /\ UNCHANGED <<draft, ledger, open, bound, overlap, faults>>

-----------------------------------------------------------------------------
(* createAndLink: two attempts of createExpense under the key draft:<id>.  *)

NewExpense(c) == [payload |-> calls[c].holds.payload,
                  body |-> calls[c].holds.body, live |-> TRUE]

Created(c, e) == calls' = [calls EXCEPT ![c] = [@ EXCEPT !.at = "reread", !.expense = e]]

\* Mutant: the key is not looked up before the INSERT.
CommitAgain(c) ==
    /\ calls[c].at = "create"
    /\ open
    /\ Len(ledger) < MaxExpenses
    /\ ledger' = Append(ledger, NewExpense(c))
    /\ Created(c, Len(ledger) + 1)
    /\ UNCHANGED <<draft, open, bound, overlap, faults>>

(* repo.create commits: a live expense with the key is returned as it is,  *)
(* otherwise one is inserted.                                              *)
Commit(c) ==
    /\ calls[c].at = "create"
    /\ open
    /\ \/ /\ Live = {}
          /\ ledger' = Append(ledger, NewExpense(c))
          /\ Created(c, Len(ledger) + 1)
       \/ \E e \in Live : UNCHANGED ledger /\ Created(c, e)
    /\ UNCHANGED <<draft, open, bound, overlap, faults>>

(* An attempt threw: try once more, then look for what the key made. *)
NextAttempt(c, isAmbiguous) ==
    calls' = [calls EXCEPT ![c] =
                 [@ EXCEPT !.at = IF calls[c].attempt = 1 THEN "create" ELSE "prove",
                           !.attempt = 2, !.expense = NoExpense,
                           !.ambiguous = isAmbiguous]]

(* createExpense throws an AppError before it writes: the trip is          *)
(* finalized, its time zone changed, no rate, invalid participants.        *)
Refused(c) ==
    /\ calls[c].at = "create"
    /\ NextAttempt(c, calls[c].ambiguous)
    /\ UNCHANGED <<draft, ledger, open, bound, overlap, faults>>

(* findById after the commit: the row is there, or somebody deleted it and *)
(* NotFoundError is thrown, an AppError too.                               *)
Reread(c) ==
    /\ calls[c].at = "reread"
    /\ IF calls[c].expense \in Live THEN Move(c, "link") ELSE NextAttempt(c, calls[c].ambiguous)
    /\ UNCHANGED <<draft, ledger, open, bound, overlap, faults>>

(* setConfirmedExpense: only a row that is still confirmed is linked. *)
SetConfirmedExpense(e) ==
    draft' = IF draft.status = "confirmed"
             THEN [draft EXCEPT !.expense = e] ELSE draft

Link(c) ==
    /\ calls[c].at = "link"
    /\ SetConfirmedExpense(calls[c].expense)
    /\ End(c)
    /\ UNCHANGED <<ledger, open, bound, overlap, faults>>

\* Mutant: the roll-back does not look for what the key made.
ProveNothing(c) ==
    /\ calls[c].at = "prove"
    /\ IF calls[c].ambiguous THEN End(c) ELSE Move(c, "revert")
    /\ UNCHANGED <<draft, ledger, open, bound, overlap, faults>>

(* findExpenseIdByKey, after both attempts failed. *)
Prove(c) ==
    /\ calls[c].at = "prove"
    /\ \/ \E e \in Live :
             calls' = [calls EXCEPT ![c] = [@ EXCEPT !.at = "link", !.expense = e]]
       \/ /\ Live = {}
          /\ IF calls[c].ambiguous THEN End(c) ELSE Move(c, "revert")
    /\ UNCHANGED <<draft, ledger, open, bound, overlap, faults>>

Revert(c) ==
    /\ calls[c].at = "revert"
    /\ draft' = IF draft.status = "confirmed" /\ draft.expense = NoExpense
                THEN [draft EXCEPT !.status = "pending"] ELSE draft
    /\ End(c)
    /\ UNCHANGED <<ledger, open, bound, overlap, faults>>

-----------------------------------------------------------------------------
(* What may go wrong below a request. *)

Fault == faults < MaxFaults /\ faults' = faults + 1

(* The process dies, or a query outside the two attempts throws. *)
Crash(c) ==
    /\ calls[c].at # "ended"
    /\ Fault
    /\ End(c)
    /\ UNCHANGED <<draft, ledger, open, bound, overlap>>

(* The attempt throws something else than an AppError: before the commit,  *)
(* or after it (the acknowledgement or the findById is lost).              *)
FailAmbiguously(c) ==
    /\ calls[c].at \in {"create", "reread"}
    /\ Fault
    /\ NextAttempt(c, TRUE)
    /\ UNCHANGED <<draft, ledger, open, bound, overlap>>

(* findExpenseIdByKey throws, which is taken for "none". *)
ProveBlindly(c) ==
    /\ calls[c].at = "prove"
    /\ Fault
    /\ IF calls[c].ambiguous THEN End(c) ELSE Move(c, "revert")
    /\ UNCHANGED <<draft, ledger, open, bound, overlap>>

-----------------------------------------------------------------------------
(* What else happens to the draft, the expense and the trip. *)

(* PATCH: the body is merged into a payload read before, stale or not, and *)
(* the result written if the draft is still pending.                       *)
UpdateDraft ==
    /\ draft.status = "pending"
    /\ draft.payload < MaxEdits
    /\ draft' = [draft EXCEPT !.payload = @ + 1]
    /\ UNCHANGED <<ledger, open, calls, bound, overlap, faults>>

DiscardDraft ==
    /\ draft.status = "pending"
    /\ draft.expense = NoExpense
    /\ draft' = [draft EXCEPT !.status = "discarded"]
    /\ UNCHANGED <<ledger, open, calls, bound, overlap, faults>>

DeleteExpense(e) ==
    /\ open
    /\ e \in Live
    /\ Len(ledger) < MaxExpenses
    /\ ledger' = [ledger EXCEPT ![e].live = FALSE]
    /\ UNCHANGED <<draft, open, calls, bound, overlap, faults>>

(* finalize and unlock. *)
LockOrReopen ==
    /\ open' = ~open
    /\ UNCHANGED <<draft, ledger, calls, bound, overlap, faults>>

-----------------------------------------------------------------------------
Init ==
    /\ draft = [status |-> "pending", payload |-> 0, body |-> Null,
                expense |-> NoExpense]
    /\ ledger = <<>>
    /\ open = TRUE
    /\ calls = [c \in Calls |-> Ended]
    /\ bound = {}
    /\ overlap = FALSE
    /\ faults = 0

Step(c) ==
    \/ Look(c) \/ Claim(c) \/ LoseClaim(c) \/ LookAgain(c)
    \/ Commit(c) \/ Refused(c) \/ Reread(c) \/ Link(c) \/ Prove(c) \/ Revert(c)

Failure(c) == Crash(c) \/ FailAmbiguously(c) \/ ProveBlindly(c)

Elsewhere ==
    \/ UpdateDraft
    \/ DiscardDraft
    \/ \E e \in DOMAIN ledger : DeleteExpense(e)
    \/ LockOrReopen

Next ==
    \/ \E c \in Calls : Arrive(c) \/ Step(c) \/ Failure(c)
    \/ Elsewhere

Spec == Init /\ [][Next]_vars

(* A running request goes on (the event loop starves nobody), and the      *)
(* owner confirms again for as long as the draft shows as unfinished,      *)
(* which is why listPending returns confirmed drafts without a link.       *)
Retry(c) == draft.status = "confirmed" /\ draft.expense = NoExpense
            /\ Arrive(c)

FairSpec == Spec /\ \A c \in Calls : WF_vars(Step(c)) /\ WF_vars(Retry(c))

-----------------------------------------------------------------------------
(* What the variables range over. *)
TypeOK ==
    /\ draft \in Drafts
    /\ ledger \in Seq([payload : Payloads, body : Bodies, live : BOOLEAN])
    /\ Len(ledger) <= MaxExpenses
    /\ open \in BOOLEAN
    /\ calls \in [Calls -> Calling]
    /\ bound \subseteq Contents
    /\ overlap \in BOOLEAN
    /\ faults \in 0 .. MaxFaults

(* However many requests confirm the draft, retry and fail, at most one    *)
(* live expense comes of it.                                               *)
OneLiveExpense == \A d, e \in Live : d = e

(* An expense carries the payload and the body of one claim, never the     *)
(* payload of one and the body of another, nor an edit the claim did not   *)
(* see (claimForConfirm returns what it committed).                        *)
ContentOfOneClaim ==
    \A e \in DOMAIN ledger :
        [payload |-> ledger[e].payload, body |-> ledger[e].body] \in bound

(* Once nothing is running, no live expense stands behind a draft that     *)
(* shows as pending or was discarded: createAndLink rolls back only when   *)
(* it has proved that nothing was made.                                    *)
NoPendingOrphan == draft.status # "confirmed" /\ Running = {} => Live = {}

(* So it is as long as the requests confirm one after the other and at     *)
(* most one failure strikes, however the draft, the expense and the trip   *)
(* change meanwhile.                                                       *)
NoPendingOrphanInTurn == overlap \/ NoPendingOrphan

(* A confirmation interrupted anywhere is finished by a later one: the     *)
(* draft ends up linked, or pending again.                                 *)
Recovered ==
    draft.status = "confirmed" /\ draft.expense = NoExpense
        ~> draft.expense # NoExpense \/ draft.status = "pending"
=============================================================================

------------------------------- MODULE Members -------------------------------
(***************************************************************************)
(* The memberships of one trip: invitations, joining, deactivation and the *)
(* hand-over of the admin role.                                            *)
(*                                                                         *)
(* uq_member_email allows one trip_members row per normalized address, and *)
(* a revived invitation keeps its row, so a row is named by its address.   *)
(* Single UPDATE statements are atomic actions.  updateMember's            *)
(* deactivation and transferAdmin hold the trip row FOR UPDATE and nothing *)
(* outside that lock writes a role or takes a member out of 'joined', so   *)
(* they are atomic actions too.  acceptInvite holds no lock: its reads and *)
(* its compare-and-set are separate steps.                                 *)
(***************************************************************************)
EXTENDS Naturals, FiniteSets

CONSTANTS
    Emails,     \* normalized addresses
    Users,      \* accounts
    EmailOf,    \* the address of each account
    Attempts,   \* calls of acceptInvite, concurrent ones of one account too
    Caller,     \* the account making each call
    Creator,    \* the account that created the trip
    NoUser,     \* user_id IS NULL
    NoToken,    \* invite_token_hash IS NULL
    MaxTokens   \* bound: tokens drawn

ASSUME AccountsAssumption ==
    /\ EmailOf \in [Users -> Emails]
    /\ \A u, v \in Users : EmailOf[u] = EmailOf[v] => u = v
    /\ Caller \in [Attempts -> Users]
    /\ Creator \in Users
    /\ NoUser \notin Users
    /\ MaxTokens \in Nat
    /\ NoToken \notin Nat

VARIABLES
    rows,      \* trip_members of the trip, by address; status "none": no row
    drawn,     \* tokens drawn so far are 1 .. drawn
    voided,    \* history: tokens an admin has revoked, rotated out or renewed
    joinedBy,  \* history: the token with which the row's member joined
    calls      \* the calls of acceptInvite

vars == <<rows, drawn, voided, joinedBy, calls>>

Tokens == 1 .. MaxTokens

Statuses == {"none", "invited", "joined", "deactivated", "invite_expired"}

Row == [status : Statuses, role : {"admin", "member"}, user : Users \cup {NoUser},
        token : Tokens \cup {NoToken}, fresh : BOOLEAN]

NoRow == [status |-> "none", role |-> "member", user |-> NoUser,
          token |-> NoToken, fresh |-> FALSE]

(* at: where the call is; email, token: the invitation it found.           *)
Call == [at : {"idle", "found", "checked", "missed", "accepted", "refused"},
         email : Emails, token : Tokens \cup {NoToken}]

JoinedAdmins == {e \in Emails : rows[e].role = "admin" /\ rows[e].status = "joined"}

(* findMembership(...).status === "joined" *)
IsJoined(u) == \E e \in Emails : rows[e].user = u /\ rows[e].status = "joined"

-----------------------------------------------------------------------------
(* Invitations. *)

(* A fresh token, drawn for the row at e; whatever token was there is void. *)
Draw(e, role, user) ==
    /\ drawn < MaxTokens
    /\ drawn' = drawn + 1
    /\ voided' = voided \cup ({rows[e].token} \ {NoToken})
    /\ rows' = [rows EXCEPT ![e] = [status |-> "invited", role |-> role,
                                    user |-> user, token |-> drawn + 1,
                                    fresh |-> TRUE]]
    /\ UNCHANGED <<joinedBy, calls>>

(* The insert, or the revival of a revoked or expired invitation. *)
CreateInvite(e) ==
    /\ \/ rows[e].status \in {"none", "invite_expired"}
       \/ rows[e].status = "invited" /\ ~rows[e].fresh
    /\ Draw(e, rows[e].role, rows[e].user)

RotateInviteToken(e) ==
    /\ rows[e].status = "invited"
    /\ Draw(e, rows[e].role, rows[e].user)

RevokeInvite(e) ==
    /\ rows[e].status = "invited"
    /\ voided' = voided \cup ({rows[e].token} \ {NoToken})
    /\ rows' = [rows EXCEPT ![e].status = "invite_expired", ![e].token = NoToken,
                            ![e].fresh = FALSE]
    /\ UNCHANGED <<drawn, joinedBy, calls>>

(* The clock passes invite_token_expires_at: no row is written. *)
TokenExpires(e) ==
    /\ rows[e].fresh
    /\ rows' = [rows EXCEPT ![e].fresh = FALSE]
    /\ UNCHANGED <<drawn, voided, joinedBy, calls>>

-----------------------------------------------------------------------------
(* The call a of acceptInvite, by an account that was given a link. *)

Answer(a, at) == calls' = [calls EXCEPT ![a].at = at]

(* Mutant: whoever holds the link may follow it. *)
FindInviteAnyAddress(a, token) ==
    /\ calls[a].at \in {"idle", "accepted", "refused"}
    /\ \E e \in Emails :
          /\ rows[e].token = token
          /\ calls' = [calls EXCEPT ![a] = [at |-> "found", email |-> e,
                                            token |-> token]]
    /\ UNCHANGED <<rows, drawn, voided, joinedBy>>

(* findByTokenHash, then the address must be the caller's. *)
FindInvite(a, token) ==
    /\ calls[a].at \in {"idle", "accepted", "refused"}
    /\ \E e \in Emails :
          /\ rows[e].token = token
          /\ e = EmailOf[Caller[a]]
          /\ calls' = [calls EXCEPT ![a] = [at |-> "found", email |-> e,
                                            token |-> token]]
    /\ UNCHANGED <<rows, drawn, voided, joinedBy>>

(* Already a member, perhaps through another row: accepted as it is. *)
CheckMembership(a) ==
    /\ calls[a].at = "found"
    /\ Answer(a, IF IsJoined(Caller[a]) THEN "accepted" ELSE "checked")
    /\ UNCHANGED <<rows, drawn, voided, joinedBy>>

(* Mutant: the compare-and-set without the token. *)
CanAcceptAnyToken(a) ==
    LET row == rows[calls[a].email]
    IN  row.status = "invited" /\ row.user = NoUser /\ row.fresh

(* The predicate of acceptInviteCas. *)
CanAccept(a) ==
    LET row == rows[calls[a].email]
    IN  /\ row.status = "invited"
        /\ row.user = NoUser
        /\ row.token = calls[a].token
        /\ row.fresh

(* uq_member_user: the account is bound to another row. *)
BoundElsewhere(u) == \E e \in Emails : rows[e].user = u

AcceptInviteCas(a) ==
    /\ calls[a].at = "checked"
    /\ CanAccept(a)
    /\ ~BoundElsewhere(Caller[a])
    /\ rows' = [rows EXCEPT ![calls[a].email].status = "joined",
                            ![calls[a].email].user = Caller[a]]
    /\ joinedBy' = [joinedBy EXCEPT ![calls[a].email] = calls[a].token]
    /\ Answer(a, "accepted")
    /\ UNCHANGED <<drawn, voided>>

(* No row matched, or 23505: the membership is looked up once more. *)
AcceptMissed(a) ==
    /\ calls[a].at = "checked"
    /\ ~CanAccept(a) \/ BoundElsewhere(Caller[a])
    /\ Answer(a, "missed")
    /\ UNCHANGED <<rows, drawn, voided, joinedBy>>

LookAgain(a) ==
    /\ calls[a].at = "missed"
    /\ Answer(a, IF IsJoined(Caller[a]) THEN "accepted" ELSE "refused")
    /\ UNCHANGED <<rows, drawn, voided, joinedBy>>

-----------------------------------------------------------------------------
(* Administration. *)

(* updateMember only moves rows with an account, between these two. *)
Movable(e) == rows[e].user # NoUser /\ rows[e].status \in {"joined", "deactivated"}

Deactivate(e) ==
    /\ JoinedAdmins # {e}
    /\ Movable(e)
    /\ rows' = [rows EXCEPT ![e].status = "deactivated"]
    /\ UNCHANGED <<drawn, voided, joinedBy, calls>>

Reactivate(e) ==
    /\ Movable(e)
    /\ rows' = [rows EXCEPT ![e].status = "joined"]
    /\ UNCHANGED <<drawn, voided, joinedBy, calls>>

(* Mutant: the target need not be active. *)
TransferAdminUnchecked(from, to) ==
    /\ from \in JoinedAdmins
    /\ rows[to].user # NoUser
    /\ rows[to].role = "member"
    /\ rows' = [rows EXCEPT ![from].role = "member", ![to].role = "admin"]
    /\ UNCHANGED <<drawn, voided, joinedBy, calls>>

TransferAdmin(from, to) ==
    /\ from \in JoinedAdmins
    /\ rows[to].status = "joined"
    /\ rows[to].user # NoUser
    /\ rows[to].role = "member"
    /\ rows' = [rows EXCEPT ![from].role = "member", ![to].role = "admin"]
    /\ UNCHANGED <<drawn, voided, joinedBy, calls>>

-----------------------------------------------------------------------------
(* createTrip inserts the creator's row in the transaction of the trip.    *)
Init ==
    /\ rows = [e \in Emails |->
                  IF e = EmailOf[Creator]
                  THEN [status |-> "joined", role |-> "admin", user |-> Creator,
                        token |-> NoToken, fresh |-> FALSE]
                  ELSE NoRow]
    /\ drawn = 0
    /\ voided = {}
    /\ joinedBy = [e \in Emails |-> NoToken]
    /\ calls = [a \in Attempts |-> [at |-> "idle", email |-> EmailOf[Caller[a]],
                                    token |-> NoToken]]

InviteStep ==
    \E e \in Emails : \/ CreateInvite(e)
                      \/ RotateInviteToken(e)
                      \/ RevokeInvite(e)
                      \/ TokenExpires(e)

AcceptStep ==
    \E a \in Attempts : \/ \E token \in 1 .. drawn : FindInvite(a, token)
                        \/ CheckMembership(a)
                        \/ AcceptInviteCas(a)
                        \/ AcceptMissed(a)
                        \/ LookAgain(a)

AdminStep ==
    \/ \E e \in Emails : Deactivate(e) \/ Reactivate(e)
    \/ \E from, to \in Emails : TransferAdmin(from, to)

Next == InviteStep \/ AcceptStep \/ AdminStep

Spec == Init /\ [][Next]_vars

-----------------------------------------------------------------------------
(* Properties. *)

(* The table holds rows of its schema, the calls are where they may be.    *)
TypeOK ==
    /\ rows \in [Emails -> Row]
    /\ drawn \in 0 .. MaxTokens
    /\ voided \in SUBSET Tokens
    /\ joinedBy \in [Emails -> Tokens \cup {NoToken}]
    /\ calls \in [Attempts -> Call]

(* PRD: a trip always has exactly one active admin, through hand-overs,    *)
(* deactivations and reactivations in any order.                           *)
ExactlyOneAdmin == \E e \in Emails : JoinedAdmins = {e}

(* An account is bound exactly to the rows that joined: nobody is switched *)
(* to joined without having accepted, no accepted invitation returns to    *)
(* pending.                                                                *)
JoinedIsBound ==
    \A e \in Emails :
        rows[e].user # NoUser <=> rows[e].status \in {"joined", "deactivated"}

(* A forwarded link is no use to anybody but the invited address.          *)
OnlyInviteeJoins ==
    \A e \in Emails : rows[e].user # NoUser => EmailOf[rows[e].user] = e

(* Nobody joins with a token that was revoked, rotated out or renewed      *)
(* while the call was on its way.                                          *)
JoinedWithLiveToken == \A e \in Emails : joinedBy[e] \notin voided
=============================================================================

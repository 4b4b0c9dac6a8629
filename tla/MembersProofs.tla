---------------------------- MODULE MembersProofs ----------------------------
(***************************************************************************)
(* Theorems about Members, for any accounts, addresses and concurrent      *)
(* calls.                                                                  *)
(***************************************************************************)
EXTENDS Members, TLAPS

(* An admin is an active member: hand-over demands an active target and    *)
(* the last admin cannot be deactivated.                                   *)
AdminsJoined ==
    \A e \in Emails : rows[e].role = "admin" => rows[e].status = "joined"

(* Where the tokens are: no two rows hold the same one (uq_invite_token),  *)
(* none that a row holds is void, and who joined still holds the token     *)
(* used.                                                                   *)
TokensInPlace ==
    /\ voided \subseteq 1 .. drawn
    /\ \A e \in Emails :
          /\ rows[e].token # NoToken =>
                rows[e].token \in 1 .. drawn /\ rows[e].token \notin voided
          /\ joinedBy[e] # NoToken =>
                joinedBy[e] = rows[e].token
                    /\ rows[e].status \in {"joined", "deactivated"}
    /\ \A d, e \in Emails :
          rows[d].token = rows[e].token /\ rows[d].token # NoToken => d = e

CallsByInvitee ==
    \A a \in Attempts : calls[a].email = EmailOf[Caller[a]]

MemberInv ==
    /\ TypeOK
    /\ ExactlyOneAdmin
    /\ JoinedIsBound
    /\ AdminsJoined
    /\ OnlyInviteeJoins
    /\ CallsByInvitee
    /\ TokensInPlace

LEMMA InitMemberInv == Init => MemberInv
<1> SUFFICES ASSUME Init PROVE MemberInv
  OBVIOUS
<1> DEFINE home == EmailOf[Creator]
<1>1. home \in Emails
  BY AccountsAssumption
<1>2. TypeOK
  BY <1>1, AccountsAssumption DEF Init, TypeOK, Row, NoRow, Statuses, Call, Tokens
<1>3. JoinedAdmins = {home}
  BY <1>1 DEF Init, JoinedAdmins, NoRow
<1>4. JoinedIsBound /\ OnlyInviteeJoins /\ AdminsJoined
  BY <1>1, AccountsAssumption DEF Init, JoinedIsBound, OnlyInviteeJoins, AdminsJoined, NoRow
<1>5. CallsByInvitee
  BY DEF Init, CallsByInvitee
<1>6. TokensInPlace
  BY AccountsAssumption DEF Init, TokensInPlace, NoRow
<1> QED
  BY <1>1, <1>2, <1>3, <1>4, <1>5, <1>6 DEF MemberInv, ExactlyOneAdmin

-----------------------------------------------------------------------------
(* Drawing a token for a row that nobody joined by.                        *)
LEMMA DrawMemberInv ==
  ASSUME MemberInv, NEW e \in Emails, Draw(e, rows[e].role, rows[e].user),
         rows[e].status \in {"none", "invited", "invite_expired"}
  PROVE  MemberInv'
<1> DEFINE new == [status |-> "invited", role |-> rows[e].role,
                   user |-> rows[e].user, token |-> drawn + 1, fresh |-> TRUE]
<1>1. /\ rows' = [rows EXCEPT ![e] = new]
      /\ drawn + 1 \in Tokens /\ drawn \in Nat /\ drawn' = drawn + 1
      /\ rows[e] \in Row
      /\ UNCHANGED <<joinedBy, calls>>
      /\ voided' = voided \cup ({rows[e].token} \ {NoToken})
  BY AccountsAssumption DEF Draw, MemberInv, TypeOK, Tokens
<1>2. new \in Row /\ rows[e].role = "member" /\ rows[e].user = NoUser
  BY <1>1 DEF MemberInv, Row, Statuses, AdminsJoined, JoinedIsBound
<1>3. TypeOK'
  <2>1. rows' \in [Emails -> Row]
    BY <1>1, <1>2 DEF MemberInv, TypeOK
  <2>2. voided' \in SUBSET Tokens
    BY <1>1 DEF MemberInv, TypeOK, Row
  <2>3. drawn' \in 0 .. MaxTokens
    BY <1>1 DEF Tokens
  <2> QED
    BY <1>1, <2>1, <2>2, <2>3 DEF MemberInv, TypeOK
<1>4. \A d \in Emails : d # e => rows'[d] = rows[d]
  BY <1>1 DEF MemberInv, TypeOK
<1>5. rows'[e] = new
  BY <1>1 DEF MemberInv, TypeOK
<1>6. ExactlyOneAdmin'
  <2>1. JoinedAdmins' = JoinedAdmins
    BY <1>2, <1>4, <1>5 DEF JoinedAdmins
  <2> QED
    BY <2>1 DEF MemberInv, ExactlyOneAdmin
<1>7. JoinedIsBound' /\ OnlyInviteeJoins' /\ AdminsJoined'
  BY <1>2, <1>4, <1>5 DEF MemberInv, JoinedIsBound, OnlyInviteeJoins, AdminsJoined
<1>8. CallsByInvitee'
  BY <1>1 DEF MemberInv, CallsByInvitee
<1>9. TokensInPlace'
  <2>1. voided' \subseteq 1 .. drawn'
    BY <1>1 DEF MemberInv, TokensInPlace
  <2>2. joinedBy[e] = NoToken
    BY DEF MemberInv, TokensInPlace
  <2>3. \A d \in Emails : rows[d].token # NoToken =>
           rows[d].token \in 1 .. drawn /\ rows[d].token # drawn + 1
    BY <1>1 DEF MemberInv, TokensInPlace
  <2>4. drawn + 1 \notin voided'
    BY <1>1, <2>3 DEF MemberInv, TokensInPlace
  <2>5. \A d \in Emails : d # e /\ rows[d].token # NoToken => rows[d].token \notin voided'
    BY <1>1 DEF MemberInv, TokensInPlace
  <2>6. ASSUME NEW d \in Emails
        PROVE  /\ rows'[d].token # NoToken =>
                     rows'[d].token \in 1 .. drawn' /\ rows'[d].token \notin voided'
               /\ joinedBy'[d] # NoToken =>
                     joinedBy'[d] = rows'[d].token
                         /\ rows'[d].status \in {"joined", "deactivated"}
    <3>1. CASE d = e
      BY <1>1, <1>5, <2>2, <2>4, <3>1
    <3>2. CASE d # e
      BY <1>1, <1>4, <2>3, <2>5, <3>2 DEF MemberInv, TokensInPlace
    <3> QED
      BY <3>1, <3>2
  <2>7. ASSUME NEW c \in Emails, NEW d \in Emails,
               rows'[c].token = rows'[d].token, rows'[c].token # NoToken
        PROVE  c = d
    BY <1>4, <1>5, <2>3, <2>7 DEF MemberInv, TokensInPlace
  <2> QED
    BY <2>1, <2>6, <2>7 DEF TokensInPlace
<1> QED
  BY <1>3, <1>6, <1>7, <1>8, <1>9 DEF MemberInv

(* A step that rewrites one row, keeps its role and its account, takes it  *)
(* neither in nor out of having joined, moves no admin in or out of        *)
(* 'joined', and at most removes a pending token.                          *)
Rewrites(e, row) ==
    /\ rows' = [rows EXCEPT ![e] = row]
    /\ row.role = rows[e].role
    /\ row.user = rows[e].user
    /\ row.role = "admin" => (row.status = "joined" <=> rows[e].status = "joined")
    /\ row.status \in {"joined", "deactivated"}
          <=> rows[e].status \in {"joined", "deactivated"}
    /\ \/ row.token = rows[e].token
       \/ row.token = NoToken /\ rows[e].status = "invited"
    /\ voided' \subseteq voided \cup ({rows[e].token} \ {row.token, NoToken})
    /\ UNCHANGED <<drawn, joinedBy, calls>>

LEMMA RowStepMemberInv ==
  ASSUME MemberInv, NEW e \in Emails, NEW row \in Row, Rewrites(e, row)
  PROVE  MemberInv'
<1> USE DEF Rewrites
<1>1. /\ rows'[e] = row
      /\ \A d \in Emails : d # e => rows'[d] = rows[d]
  BY DEF MemberInv, TypeOK
<1>2. TypeOK'
  <2>1. rows' \in [Emails -> Row]
    BY DEF MemberInv, TypeOK
  <2>2. rows[e].token \in Tokens \cup {NoToken}
    BY DEF MemberInv, TypeOK, Row
  <2>3. voided' \in SUBSET Tokens
    BY <2>2 DEF MemberInv, TypeOK
  <2> QED
    BY <2>1, <2>3 DEF MemberInv, TypeOK
<1>3. ExactlyOneAdmin'
  <2>1. JoinedAdmins' = JoinedAdmins
    BY <1>1 DEF JoinedAdmins
  <2> QED
    BY <2>1 DEF MemberInv, ExactlyOneAdmin
<1>4. JoinedIsBound' /\ OnlyInviteeJoins' /\ AdminsJoined'
  BY <1>1 DEF MemberInv, JoinedIsBound, OnlyInviteeJoins, AdminsJoined
<1>5. CallsByInvitee'
  BY DEF MemberInv, CallsByInvitee
<1>6. TokensInPlace'
  <2>1. voided' \subseteq 1 .. drawn'
    BY DEF MemberInv, TokensInPlace
  <2>2. \A d \in Emails : d # e /\ rows[d].token # NoToken => rows[d].token # rows[e].token
    BY DEF MemberInv, TokensInPlace
  <2>3. row.token # NoToken => row.token \in 1 .. drawn /\ row.token \notin voided'
    BY DEF MemberInv, TokensInPlace
  <2>4. joinedBy[e] # NoToken => rows[e].status # "invited"
    BY DEF MemberInv, TokensInPlace
  <2>5. ASSUME NEW d \in Emails
        PROVE  /\ rows'[d].token # NoToken =>
                     rows'[d].token \in 1 .. drawn' /\ rows'[d].token \notin voided'
               /\ joinedBy'[d] # NoToken =>
                     joinedBy'[d] = rows'[d].token
                         /\ rows'[d].status \in {"joined", "deactivated"}
    <3>1. CASE d = e
      BY <1>1, <2>3, <2>4, <3>1 DEF MemberInv, TokensInPlace
    <3>2. CASE d # e
      BY <1>1, <2>2, <3>2 DEF MemberInv, TokensInPlace
    <3> QED
      BY <3>1, <3>2
  <2>6. ASSUME NEW c \in Emails, NEW d \in Emails,
               rows'[c].token = rows'[d].token, rows'[c].token # NoToken
        PROVE  c = d
    BY <1>1, <2>6 DEF MemberInv, TokensInPlace
  <2> QED
    BY <2>1, <2>5, <2>6 DEF TokensInPlace
<1> QED
  BY <1>2, <1>3, <1>4, <1>5, <1>6 DEF MemberInv

-----------------------------------------------------------------------------
LEMMA InviteStepMemberInv == MemberInv /\ InviteStep => MemberInv'
<1> SUFFICES ASSUME MemberInv, NEW e \in Emails,
                    \/ CreateInvite(e) \/ RotateInviteToken(e)
                    \/ RevokeInvite(e) \/ TokenExpires(e)
             PROVE  MemberInv'
  BY DEF InviteStep
<1>1. rows[e] \in Row
  BY DEF MemberInv, TypeOK
<1>2. CASE CreateInvite(e)
  BY <1>2, DrawMemberInv DEF CreateInvite
<1>3. CASE RotateInviteToken(e)
  BY <1>3, DrawMemberInv DEF RotateInviteToken
<1>4. CASE RevokeInvite(e)
  <2> DEFINE row == [rows[e] EXCEPT !.status = "invite_expired", !.token = NoToken,
                                    !.fresh = FALSE]
  <2>1. row \in Row
    BY <1>1 DEF Row, Statuses
  <2>2. rows' = [rows EXCEPT ![e] = row] /\ UNCHANGED <<drawn, joinedBy, calls>>
    BY <1>4 DEF RevokeInvite, MemberInv, TypeOK
  <2>3. /\ row.role = rows[e].role /\ row.user = rows[e].user
        /\ row.status = "invite_expired" /\ row.token = NoToken
    BY <1>1 DEF Row
  <2>4. rows[e].status = "invited" /\ rows[e].role # "admin"
    BY <1>4 DEF RevokeInvite, MemberInv, AdminsJoined
  <2>5. voided' \subseteq voided \cup ({rows[e].token} \ {row.token, NoToken})
    BY <1>4, <2>3 DEF RevokeInvite
  <2> HIDE DEF row
  <2> QED
    BY <2>1, <2>2, <2>3, <2>4, <2>5, RowStepMemberInv DEF Rewrites
<1>5. CASE TokenExpires(e)
  <2> DEFINE row == [rows[e] EXCEPT !.fresh = FALSE]
  <2>1. row \in Row
    BY <1>1 DEF Row
  <2>2. /\ rows' = [rows EXCEPT ![e] = row]
        /\ UNCHANGED <<drawn, voided, joinedBy, calls>>
    BY <1>5 DEF TokenExpires, MemberInv, TypeOK
  <2>3. /\ row.role = rows[e].role /\ row.user = rows[e].user
        /\ row.status = rows[e].status /\ row.token = rows[e].token
    BY <1>1 DEF Row
  <2> HIDE DEF row
  <2>4. row.role = "admin" => (row.status = "joined" <=> rows[e].status = "joined")
    BY <2>3
  <2>5. row.status \in {"joined", "deactivated"}
           <=> rows[e].status \in {"joined", "deactivated"}
    BY <2>3
  <2>6. /\ voided' \subseteq voided \cup ({rows[e].token} \ {row.token, NoToken})
        /\ UNCHANGED <<drawn, joinedBy, calls>>
    BY <2>2
  <2>7. Rewrites(e, row)
    BY <2>2, <2>3, <2>4, <2>5, <2>6 DEF Rewrites
  <2> QED
    BY <2>1, <2>7, RowStepMemberInv
<1> QED
  BY <1>2, <1>3, <1>4, <1>5

LEMMA AnswerMemberInv ==
  ASSUME MemberInv, NEW a \in Attempts,
         NEW at \in {"accepted", "checked", "missed", "refused"}, Answer(a, at),
         UNCHANGED <<rows, drawn, voided, joinedBy>>
  PROVE  MemberInv'
<1>1. TypeOK'
  BY DEF Answer, MemberInv, TypeOK, Call
<1>2. JoinedAdmins' = JoinedAdmins
  BY DEF JoinedAdmins
<1>3. CallsByInvitee'
  BY DEF Answer, MemberInv, CallsByInvitee, TypeOK, Call
<1>4. JoinedIsBound' /\ OnlyInviteeJoins' /\ AdminsJoined' /\ TokensInPlace'
  BY DEF MemberInv, JoinedIsBound, OnlyInviteeJoins, AdminsJoined, TokensInPlace
<1> QED
  BY <1>1, <1>2, <1>3, <1>4 DEF MemberInv, ExactlyOneAdmin

LEMMA FindInviteMemberInv ==
  ASSUME MemberInv, NEW a \in Attempts, NEW token \in 1 .. drawn,
         FindInvite(a, token)
  PROVE  MemberInv'
<1>1. token \in Tokens
  <2>1. drawn \in Nat /\ drawn <= MaxTokens /\ MaxTokens \in Nat
    BY AccountsAssumption DEF MemberInv, TypeOK
  <2> QED
    BY <2>1 DEF Tokens
<1>2. calls' = [calls EXCEPT ![a] = [at |-> "found", email |-> EmailOf[Caller[a]],
                                     token |-> token]]
  BY DEF FindInvite
<1>3. TypeOK'
  BY <1>1, <1>2, AccountsAssumption DEF FindInvite, MemberInv, TypeOK, Call
<1>4. CallsByInvitee'
  BY <1>2 DEF MemberInv, CallsByInvitee, TypeOK
<1>5. JoinedAdmins' = JoinedAdmins
  BY DEF FindInvite, JoinedAdmins
<1>6. JoinedIsBound' /\ OnlyInviteeJoins' /\ AdminsJoined' /\ TokensInPlace'
  BY DEF FindInvite, MemberInv, JoinedIsBound, OnlyInviteeJoins, AdminsJoined,
         TokensInPlace
<1> QED
  BY <1>3, <1>4, <1>5, <1>6 DEF MemberInv, ExactlyOneAdmin

(* The compare-and-set: the row was pending and of no account.             *)
LEMMA AcceptMemberInv ==
  ASSUME MemberInv, NEW a \in Attempts, AcceptInviteCas(a)
  PROVE  MemberInv'
<1> DEFINE e == calls[a].email
           u == Caller[a]
           row == [rows[e] EXCEPT !.status = "joined", !.user = u]
<1>1. /\ e \in Emails /\ u \in Users /\ rows[e] \in Row
      /\ calls[a].token \in Tokens \cup {NoToken} /\ e = EmailOf[u]
  BY AccountsAssumption DEF MemberInv, TypeOK, Call, CallsByInvitee
<1>2. /\ rows[e].status = "invited" /\ rows[e].user = NoUser
      /\ rows[e].token = calls[a].token /\ rows[e].role = "member"
  BY <1>1 DEF AcceptInviteCas, CanAccept, MemberInv, AdminsJoined, Row
<1>3. /\ rows' = [rows EXCEPT ![e] = row] /\ row \in Row
      /\ row.status = "joined" /\ row.user = u
      /\ row.token = rows[e].token /\ row.role = "member"
  BY <1>1, <1>2 DEF AcceptInviteCas, MemberInv, TypeOK, Row, Statuses
<1>4. /\ joinedBy' = [joinedBy EXCEPT ![e] = rows[e].token]
      /\ calls' = [calls EXCEPT ![a].at = "accepted"]
      /\ UNCHANGED <<drawn, voided>>
  BY <1>2 DEF AcceptInviteCas, Answer
<1> HIDE DEF e, u, row
<1>5. /\ rows'[e] = row
      /\ \A d \in Emails : d # e => rows'[d] = rows[d]
      /\ joinedBy'[e] = rows[e].token
      /\ \A d \in Emails : d # e => joinedBy'[d] = joinedBy[d]
  BY <1>1, <1>3, <1>4 DEF MemberInv, TypeOK
<1>6. TypeOK'
  <2>1. rows' \in [Emails -> Row]
    BY <1>3 DEF MemberInv, TypeOK
  <2>2. joinedBy' \in [Emails -> Tokens \cup {NoToken}]
    BY <1>1, <1>2, <1>4 DEF MemberInv, TypeOK
  <2>3. calls' \in [Attempts -> Call]
    BY <1>4 DEF MemberInv, TypeOK, Call
  <2> QED
    BY <1>4, <2>1, <2>2, <2>3 DEF MemberInv, TypeOK
<1>7. ExactlyOneAdmin'
  <2>1. JoinedAdmins' = JoinedAdmins
    BY <1>1, <1>2, <1>3, <1>5 DEF JoinedAdmins
  <2> QED
    BY <2>1 DEF MemberInv, ExactlyOneAdmin
<1>8. JoinedIsBound' /\ OnlyInviteeJoins' /\ AdminsJoined'
  BY <1>1, <1>3, <1>5, AccountsAssumption
     DEF MemberInv, JoinedIsBound, OnlyInviteeJoins, AdminsJoined
<1>9. CallsByInvitee'
  BY <1>4 DEF MemberInv, CallsByInvitee, TypeOK, Call
<1>10. TokensInPlace'
  <2>1. voided' \subseteq 1 .. drawn'
    BY <1>4 DEF MemberInv, TokensInPlace
  <2>2. ASSUME NEW d \in Emails
        PROVE  /\ rows'[d].token # NoToken =>
                     rows'[d].token \in 1 .. drawn' /\ rows'[d].token \notin voided'
               /\ joinedBy'[d] # NoToken =>
                     joinedBy'[d] = rows'[d].token
                         /\ rows'[d].status \in {"joined", "deactivated"}
    <3>1. CASE d = e
      BY <1>3, <1>4, <1>5, <3>1 DEF MemberInv, TokensInPlace
    <3>2. CASE d # e
      BY <1>4, <1>5, <3>2 DEF MemberInv, TokensInPlace
    <3> QED
      BY <3>1, <3>2
  <2>3. ASSUME NEW c \in Emails, NEW d \in Emails,
               rows'[c].token = rows'[d].token, rows'[c].token # NoToken
        PROVE  c = d
    BY <1>3, <1>5, <2>3 DEF MemberInv, TokensInPlace
  <2> QED
    BY <2>1, <2>2, <2>3 DEF TokensInPlace
<1> QED
  BY <1>6, <1>7, <1>8, <1>9, <1>10 DEF MemberInv

LEMMA AcceptStepMemberInv == MemberInv /\ AcceptStep => MemberInv'
<1> SUFFICES ASSUME MemberInv, NEW a \in Attempts,
                    \/ \E token \in 1 .. drawn : FindInvite(a, token)
                    \/ CheckMembership(a) \/ AcceptInviteCas(a)
                    \/ AcceptMissed(a) \/ LookAgain(a)
             PROVE  MemberInv'
  BY DEF AcceptStep
<1>1. ASSUME NEW token \in 1 .. drawn, FindInvite(a, token) PROVE MemberInv'
  BY <1>1, FindInviteMemberInv
<1>2. CASE CheckMembership(a)
  BY <1>2, AnswerMemberInv DEF CheckMembership
<1>3. CASE AcceptInviteCas(a)
  BY <1>3, AcceptMemberInv
<1>4. CASE AcceptMissed(a)
  BY <1>4, AnswerMemberInv DEF AcceptMissed
<1>5. CASE LookAgain(a)
  BY <1>5, AnswerMemberInv DEF LookAgain
<1> QED
  BY <1>1, <1>2, <1>3, <1>4, <1>5

-----------------------------------------------------------------------------
LEMMA StatusStepMemberInv ==
  ASSUME MemberInv, NEW e \in Emails, Deactivate(e) \/ Reactivate(e)
  PROVE  MemberInv'
<1> DEFINE to == IF Deactivate(e) THEN "deactivated" ELSE "joined"
           row == [rows[e] EXCEPT !.status = to]
<1>1. rows[e] \in Row
  BY DEF MemberInv, TypeOK
<1>2. Movable(e) /\ UNCHANGED <<drawn, voided, joinedBy, calls>>
  BY DEF Deactivate, Reactivate
<1>3. rows' = [rows EXCEPT ![e].status = to]
  <2>1. CASE Deactivate(e)
    BY <2>1 DEF Deactivate
  <2>2. CASE ~Deactivate(e)
    BY <2>2 DEF Reactivate
  <2> QED
    BY <2>1, <2>2
<1>4. rows[e].role = "admin" => rows[e].status = "joined" /\ to = "joined"
  <2> SUFFICES ASSUME rows[e].role = "admin", Deactivate(e) PROVE FALSE
    BY DEF MemberInv, AdminsJoined
  <2>1. e \in JoinedAdmins
    BY DEF MemberInv, AdminsJoined, JoinedAdmins
  <2> QED
    BY <2>1 DEF Deactivate, MemberInv, ExactlyOneAdmin
<1> HIDE DEF to
<1>5. to \in {"joined", "deactivated"}
  BY DEF to
<1>6. /\ rows' = [rows EXCEPT ![e] = row] /\ row \in Row
      /\ row.role = rows[e].role /\ row.user = rows[e].user
      /\ row.token = rows[e].token /\ row.status = to
  BY <1>1, <1>3, <1>5 DEF MemberInv, TypeOK, Row, Statuses
<1> HIDE DEF row
<1>7. /\ rows[e].status \in {"joined", "deactivated"}
      /\ row.status \in {"joined", "deactivated"}
      /\ row.role = "admin" =>
            (row.status = "joined" <=> rows[e].status = "joined")
  BY <1>2, <1>4, <1>5, <1>6 DEF Movable
<1>8. /\ voided' \subseteq voided \cup ({rows[e].token} \ {row.token, NoToken})
      /\ UNCHANGED <<drawn, joinedBy, calls>>
  BY <1>2
<1>9. Rewrites(e, row)
  BY <1>6, <1>7, <1>8 DEF Rewrites
<1> QED
  BY <1>6, <1>9, RowStepMemberInv

LEMMA TransferMemberInv ==
  ASSUME MemberInv, NEW from \in Emails, NEW to \in Emails, TransferAdmin(from, to)
  PROVE  MemberInv'
<1>1. JoinedAdmins = {from} /\ rows[from] \in Row /\ rows[to] \in Row
  BY DEF TransferAdmin, MemberInv, ExactlyOneAdmin, TypeOK
<1>2. from # to /\ rows[to].status = "joined" /\ rows[from].status = "joined"
  BY DEF TransferAdmin, JoinedAdmins
<1>3. /\ rows'[from] = [rows[from] EXCEPT !.role = "member"]
      /\ rows'[to] = [rows[to] EXCEPT !.role = "admin"]
      /\ \A d \in Emails : d # from /\ d # to => rows'[d] = rows[d]
      /\ UNCHANGED <<drawn, voided, joinedBy, calls>>
  BY <1>2 DEF TransferAdmin, MemberInv, TypeOK
<1>4. /\ rows'[from] \in Row /\ rows'[to] \in Row
      /\ rows'[from].role = "member" /\ rows'[to].role = "admin"
  BY <1>1, <1>3 DEF Row
<1>5. \A d \in Emails : /\ rows'[d].status = rows[d].status
                        /\ rows'[d].user = rows[d].user
                        /\ rows'[d].token = rows[d].token
  BY <1>1, <1>3 DEF Row
<1>6. TypeOK'
  <2>1. rows' \in [Emails -> Row]
    BY <1>3, <1>4 DEF TransferAdmin, MemberInv, TypeOK
  <2> QED
    BY <1>3, <2>1 DEF MemberInv, TypeOK
<1>7. JoinedAdmins' = {to}
  <2>1. ASSUME NEW d \in JoinedAdmins', d # to PROVE FALSE
    <3>1. d \in Emails /\ rows'[d].role = "admin" /\ rows'[d].status = "joined"
      BY DEF JoinedAdmins
    <3>2. d # from
      BY <1>4, <3>1
    <3>3. rows'[d] = rows[d]
      BY <1>3, <2>1, <3>1, <3>2
    <3> QED
      BY <1>1, <3>1, <3>2, <3>3 DEF JoinedAdmins
  <2>2. to \in JoinedAdmins'
    BY <1>2, <1>4, <1>5 DEF JoinedAdmins
  <2>3. JoinedAdmins' \subseteq Emails
    BY DEF JoinedAdmins
  <2> QED
    BY <2>1, <2>2, <2>3
<1>8. JoinedIsBound' /\ OnlyInviteeJoins' /\ TokensInPlace' /\ CallsByInvitee'
  BY <1>3, <1>5 DEF MemberInv, JoinedIsBound, OnlyInviteeJoins, TokensInPlace,
                    CallsByInvitee
<1>9. AdminsJoined'
  BY <1>2, <1>3, <1>4, <1>5 DEF MemberInv, AdminsJoined
<1> QED
  BY <1>6, <1>7, <1>8, <1>9 DEF MemberInv, ExactlyOneAdmin

LEMMA AdminStepMemberInv == MemberInv /\ AdminStep => MemberInv'
BY StatusStepMemberInv, TransferMemberInv DEF AdminStep

LEMMA MemberInvariant == Spec => []MemberInv
<1>1. MemberInv /\ UNCHANGED vars => MemberInv'
  BY DEF vars, MemberInv, TypeOK, ExactlyOneAdmin, JoinedAdmins, JoinedIsBound,
         AdminsJoined, OnlyInviteeJoins, CallsByInvitee, TokensInPlace
<1> QED
  BY InitMemberInv, InviteStepMemberInv, AcceptStepMemberInv, AdminStepMemberInv,
     <1>1, PTL DEF Spec, Next

(* PRD: whatever hand-overs, deactivations, reactivations and acceptances  *)
(* overlap, the trip has exactly one active admin.                         *)
THEOREM AlwaysOneAdmin == Spec => []ExactlyOneAdmin
<1>1. MemberInv => ExactlyOneAdmin
  BY DEF MemberInv
<1> QED
  BY <1>1, MemberInvariant, PTL

(* Nobody ever joins with a token that was void by then, even if the call  *)
(* had found the invitation before it was revoked or renewed.              *)
THEOREM VoidTokensNeverJoin == Spec => []JoinedWithLiveToken
<1>1. MemberInv => JoinedWithLiveToken
  <2> SUFFICES ASSUME MemberInv, NEW e \in Emails PROVE joinedBy[e] \notin voided
    BY DEF JoinedWithLiveToken
  <2>1. voided \subseteq Nat /\ NoToken \notin Nat
    BY AccountsAssumption DEF MemberInv, TypeOK, Tokens
  <2> QED
    BY <2>1 DEF MemberInv, TokensInPlace
<1> QED
  BY <1>1, MemberInvariant, PTL

(* An account is bound exactly to rows that joined, and only to the row    *)
(* that was addressed to it.                                               *)
THEOREM BoundByAcceptance == Spec => [](JoinedIsBound /\ OnlyInviteeJoins)
<1>1. MemberInv => JoinedIsBound /\ OnlyInviteeJoins
  BY DEF MemberInv
<1> QED
  BY <1>1, MemberInvariant, PTL
=============================================================================

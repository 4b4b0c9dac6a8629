SPECIFICATION Spec
CONSTANTS
    ann = ann
    bob = bob
    cho = cho
    annMail = annMail
    bobMail = bobMail
    choMail = choMail
    bob1 = bob1
    bob2 = bob2
    cho1 = cho1
    Attempts = {bob1, bob2, cho1}
    Caller <- MCCaller
    Users = {ann, bob, cho}
    Emails = {annMail, bobMail, choMail}
    EmailOf <- MCEmailOf
    Creator = ann
    NoUser = NoUser
    NoToken = NoToken
    MaxTokens = 3
INVARIANTS
    ExactlyOneAdmin
    OnlyInviteeJoins
    JoinedWithLiveToken

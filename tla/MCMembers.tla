----------------------------- MODULE MCMembers -----------------------------
(* The creator and two people to invite, one of them clicking twice. *)
EXTENDS Members, TLC
CONSTANTS ann, bob, cho, annMail, bobMail, choMail, bob1, bob2, cho1
MCEmailOf == (ann :> annMail) @@ (bob :> bobMail) @@ (cho :> choMail)
MCCaller == (bob1 :> bob) @@ (bob2 :> bob) @@ (cho1 :> cho)
=============================================================================

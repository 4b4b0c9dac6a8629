---------------------------- MODULE TransferLoop ----------------------------
(***************************************************************************)
(* The loop of minTransfers, one turn per step, started on any nets that   *)
(* cancel.  SettlementCompute gives the turn itself.                       *)
(***************************************************************************)
EXTENDS SettlementCompute

CONSTANTS Parties,   \* members of the inventory, integers
          MaxAmount  \* bound: size of one member's net

ASSUME PartiesAssumption == Parties \subseteq Int /\ IsFiniteSet(Parties)

VARIABLES net,    \* the argument of minTransfers
          loop    \* the loop's variables, see StartMatching

LoopInit ==
    /\ net \in {f \in [Parties -> -MaxAmount .. MaxAmount] : SumFunction(f) = 0}
    /\ loop = StartMatching(net)

LoopNext ==
    /\ Matching(loop)
    /\ loop' = Give(loop)
    /\ UNCHANGED net

LoopSpec == LoopInit /\ [][LoopNext]_<<net, loop>>

-----------------------------------------------------------------------------
Sent(m) == SumFunction([i \in {k \in DOMAIN loop.out : loop.out[k].from = m} |->
                           loop.out[i].amount])
Received(m) == SumFunction([i \in {k \in DOMAIN loop.out : loop.out[k].to = m} |->
                               loop.out[i].amount])

(* The rows of settlement_transfers a finalize writes are accepted by its  *)
(* checks (transfer_amount_pos, transfer_distinct and uq_transfer_pair, no *)
(* member paying another one twice), are fewer than the members to settle  *)
(* (PRD 18.4), which also bounds the loop, and leave everybody with what   *)
(* was due to them or without what they owed, nobody having done both.     *)
PlanSettlesEverybody ==
    LET out == loop.out
        unsettled == {m \in Parties : net[m] # 0}
    IN  /\ \A i \in DOMAIN out : out[i].amount > 0 /\ out[i].from # out[i].to
        /\ \A i, j \in DOMAIN out :
              out[i].from = out[j].from /\ out[i].to = out[j].to => i = j
        /\ unsettled # {} => Len(out) < Cardinality(unsettled)
        /\ ~Matching(loop) =>
              \A m \in Parties :
                  /\ Received(m) - Sent(m) = net[m]
                  /\ Received(m) = 0 \/ Sent(m) = 0
=============================================================================

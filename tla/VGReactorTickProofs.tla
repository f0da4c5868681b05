------------------------ MODULE VGReactorTickProofs ------------------------
(***************************************************************************)
(* VG::react meets spec.md's decision table for every set of addresses:    *)
(* the table run checks three addresses, the theorem below any number.     *)
(*                                                                         *)
(* The argument is a lemma about React alone, for every instance whose     *)
(* sub-instance was fetched for the same user (the concern's user_address  *)
(* is the same for a game and its children): the table is a consequence of *)
(* the order of the early returns in React, ClaimerReact and               *)
(* ChallengerReact.  The state of VGReactorTick is always an input and its  *)
(* reaction, so the invariant follows.                                     *)
(***************************************************************************)
EXTENDS VGReactorTick, TLAPS

(* An instance tree as the fetch builds it: sub-instance 0, if any, was    *)
(* fetched for the user the VG instance was fetched for.                   *)
SameUser(inst) == inst.subs # << >> => inst.subs[1].user = inst.user

(* The inputs are instances, and fetched for one user.                     *)
LEMMA InputsWellFormed ==
    ASSUME NEW s \in Inputs
    PROVE  s \in Instances /\ SameUser(s)
<1>1. InputSubs \subseteq SubInstances
  BY DEF InputSubs, SubInstances, PartitionStates, PartitionRunning,
         PartitionFinished, MMStates, States, VGStates, VGFinished, Protocols
<1>2. s.subs \in {<< >>} \cup {<<x>> : x \in InputSubs}
  BY DEF Inputs
<1>3. << >> \in Seq(SubInstances) /\ \A x \in SubInstances : <<x>> \in Seq(SubInstances)
  OBVIOUS
<1>4. s.subs \in Seq(SubInstances)
  BY <1>1, <1>2, <1>3
<1>5. QED
  BY <1>4 DEF Inputs, FetchedTogether, Instances, SameUser, States, VGStates,
              VGFinished, Protocols

(* The table is a consequence of React alone: for every instance tree      *)
(* fetched for one user, the reaction React returns meets every row.       *)
LEMMA ReactMeetsTable ==
    ASSUME snapshot \in Instances, SameUser(snapshot), reaction = React(snapshot)
    PROVE  ReactionMatchesSpecTable
<1> USE DEF ReactionMatchesSpecTable, Active, AsClaimer, AsChallenger, Sub, HasSub, IsTx,
            DecodesAs, Instances, VGFinished
<1>1. CASE ~DecodesAs(snapshot, "VG")
  BY <1>1 DEF React, DecodeError, Transaction
<1>2. CASE DecodesAs(snapshot, "VG") /\ snapshot.state \in VGFinished
  BY <1>2 DEF React, Idle
<1>3. CASE Active /\ snapshot.user = snapshot.claimer
  <2>1. reaction = ClaimerReact(snapshot)
    BY <1>3 DEF React
  <2>2. CASE snapshot.state = "WaitPartition" /\ ~HasSub
    BY <1>3, <2>1, <2>2 DEF ClaimerReact, InvalidContractState
  <2>3. CASE snapshot.state = "WaitPartition" /\ HasSub /\ ~DecodesAs(Sub, "Partition")
    BY <1>3, <2>1, <2>3 DEF ClaimerReact, DecodeError
  <2>4. CASE snapshot.state = "WaitPartition" /\ HasSub /\ DecodesAs(Sub, "Partition")
    <3>1. Sub.user = snapshot.user
      BY <2>4 DEF SameUser
    <3>2. CASE Sub.state \in PartitionFinished \cup {"DivergenceFound"}
      BY <1>3, <2>1, <2>4, <3>2 DEF ClaimerReact, Transaction, PartitionFinished
    <3>3. CASE Sub.state \notin PartitionFinished \cup {"DivergenceFound"}
      <4>1. reaction = PartitionReact(Sub)
        BY <1>3, <2>1, <2>4, <3>3 DEF ClaimerReact
      <4>2. reaction.kind = "Tx" /\ reaction.data = <<snapshot.index>>
              => reaction.user = snapshot.user
        BY <3>1, <4>1 DEF PartitionReact, PartitionMove, Transaction, InvalidContractState,
                          DecodeError, Idle
      <4>3. QED
        BY <1>3, <2>4, <3>3, <4>2 DEF PartitionFinished
    <3>4. QED
      BY <3>2, <3>3
  <2>5. CASE snapshot.state = "WaitMemoryProveValues"
    BY <1>3, <2>1, <2>5 DEF ClaimerReact, Idle
  <2>6. CASE snapshot.state \notin {"WaitPartition", "WaitMemoryProveValues"}
    BY <1>3, <2>1, <2>6 DEF ClaimerReact, InvalidContractState
  <2>7. QED
    BY <2>2, <2>3, <2>4, <2>5, <2>6
<1>4. CASE Active /\ snapshot.user # snapshot.claimer /\ snapshot.user = snapshot.challenger
  BY <1>4 DEF React, ChallengerReact, PartitionReact, PartitionMove, MMReact, Transaction,
              InvalidContractState, DecodeError, Idle, SameUser
<1>5. CASE Active /\ snapshot.user \notin {snapshot.claimer, snapshot.challenger}
  BY <1>5 DEF React, InvalidContractState
<1>6. QED
  BY <1>1, <1>2, <1>3, <1>4, <1>5

(* The state of the tick machine: an input and what React made of it.      *)
Ticked == snapshot \in Inputs /\ reaction = React(snapshot)

(* For every set of addresses, every reaction VG::react returns to a        *)
(* scheduler tick follows spec.md's decision table: finished games idle,    *)
(* bystanders refused, missing sub-instances fatal, the claimer concluding  *)
(* or escalating the partition, the challenger settling the replay, and    *)
(* every transaction on the game sent for one of its parties.              *)
THEOREM TableHolds == Spec => []ReactionMatchesSpecTable
<1>1. Init => Ticked
  BY DEF Init, Ticked
<1>2. Ticked /\ [Tick]_vars => Ticked'
  BY DEF Ticked, Tick, vars
<1>3. Ticked => ReactionMatchesSpecTable
  BY InputsWellFormed, ReactMeetsTable DEF Ticked
<1>4. QED
  BY <1>1, <1>2, <1>3, PTL DEF Spec

=============================================================================

--------------------------- MODULE VGReactorTick ---------------------------
(***************************************************************************)
(* One scheduler tick after another: every tick fetches some instance      *)
(* tree and calls VG::react on it (compute/src/vg.rs).  Nothing survives   *)
(* between ticks, so the reachable states are exactly the pairs            *)
(* (snapshot, React(snapshot)) over the snapshots enumerated by Inputs:    *)
(* this module checks the reactor, a pure function, against what spec.md   *)
(* says of it, over every bounded input.                                   *)
(***************************************************************************)
EXTENDS VGReactor

VARIABLES snapshot, reaction

vars == <<snapshot, reaction>>

(* The bounded inputs: a VG instance (index 0) whose json_data has the VG  *)
(* layout or another one, every current_state class, every choice of       *)
(* claimer, challenger and viewing user among Users (ties included), and   *)
(* no sub-instance or one (index 1) of either sub-protocol in any state,   *)
(* fetched for the same game and user as the VG instance.                  *)
InputSubs ==
    [index : {1}, proto : {"Partition", "MM"},
     state : PartitionStates \cup MMStates \cup {"Other"}, round : {0},
     claimer : Users, challenger : Users, user : Users, expired : BOOLEAN]

FetchedTogether(inst) ==
    \A i \in DOMAIN inst.subs :
        /\ inst.subs[i].claimer = inst.claimer
        /\ inst.subs[i].challenger = inst.challenger
        /\ inst.subs[i].user = inst.user

Inputs ==
    {inst \in [index : {0}, proto : {"VG", "Partition"},
               state : {"WaitPartition", "WaitMemoryProveValues", "FinishedClaimerWon", "Other"},
               claimer : Users, challenger : Users, user : Users,
               subs : {<< >>} \cup {<<s>> : s \in InputSubs}] :
        FetchedTogether(inst)}

Init ==
    /\ snapshot \in Inputs
    /\ reaction = React(snapshot)

(* A tick: a fresh snapshot, decoded and reacted to from scratch.          *)
Tick ==
    \E s \in Inputs :
        /\ snapshot' = s
        /\ reaction' = React(s)

Spec == Init /\ [][Tick]_vars

-----------------------------------------------------------------------------
TypeOK ==
    /\ snapshot \in Instances
    /\ reaction \in Reactions

(* Shorthands for the properties: the snapshot decoded as a VG instance,   *)
(* whether a sub-instance is present, and the role the user plays.         *)
Active   == DecodesAs(snapshot, "VG") /\ snapshot.state \notin VGFinished
AsClaimer    == Active /\ snapshot.user = snapshot.claimer
AsChallenger == Active /\ snapshot.user # snapshot.claimer /\ snapshot.user = snapshot.challenger
Sub      == snapshot.subs[1]
HasSub   == snapshot.subs # << >>
IsTx(fn) == reaction = Transaction(snapshot, fn)

(* The decision table of spec.md (sections 4.3 and 8) as a reference:      *)
(* finished games are idle whatever else holds; a user who is neither      *)
(* party gets the "neither" error and never a transaction; a missing       *)
(* sub-instance or an unknown state is a fatal error; the claimer claims   *)
(* the partition timeout or starts the machine-run challenge when the      *)
(* partition says so; the challenger settles once the memory manager is    *)
(* waiting for replay, hands WaitingProofs to the MM reactor verbatim and  *)
(* is idle on a finished replay (a warning, not an error);                 *)
(* the claimer is idle while memory values are proved; and every           *)
(* transaction on the VG instance itself is sent for one of its parties.   *)
ReactionMatchesSpecTable ==
    /\ DecodesAs(snapshot, "VG") /\ snapshot.state \in VGFinished => reaction = Idle
    /\ Active /\ snapshot.user \notin {snapshot.claimer, snapshot.challenger}
         => reaction = InvalidContractState("Neither")
    /\ (AsClaimer \/ AsChallenger) /\ snapshot.state \notin {"WaitPartition", "WaitMemoryProveValues"}
         => reaction = InvalidContractState("UnknownState")
    /\ (AsClaimer \/ AsChallenger) /\ snapshot.state = "WaitPartition" /\ ~HasSub
         => reaction.kind = "Err"
    /\ AsChallenger /\ snapshot.state = "WaitMemoryProveValues" /\ ~HasSub
         => reaction.kind = "Err"
    /\ AsClaimer /\ snapshot.state = "WaitPartition" /\ HasSub /\ DecodesAs(Sub, "Partition")
         => /\ Sub.state \in PartitionFinished => IsTx("winByPartitionTimeout")
            /\ Sub.state = "DivergenceFound" => IsTx("startMachineRunChallenge")
    /\ AsClaimer /\ snapshot.state = "WaitMemoryProveValues" => reaction = Idle
    /\ AsChallenger /\ snapshot.state = "WaitPartition" /\ HasSub
         => reaction = PartitionReact(Sub)
    /\ AsChallenger /\ snapshot.state = "WaitMemoryProveValues" /\ HasSub /\ DecodesAs(Sub, "MM")
         => /\ Sub.state = "WaitingReplay" => IsTx("settleVerificationGame")
            /\ Sub.state = "WaitingProofs" => reaction = MMReact(Sub)
            /\ Sub.state = "FinishedReplay" => reaction = Idle
    /\ reaction.kind = "Tx" /\ reaction.data = <<snapshot.index>>
         => reaction.user \in {snapshot.claimer, snapshot.challenger}

(* Section 7 of spec.md: a decode error carries the raw payload that       *)
(* failed to decode.  The payload named must be the json_data of the       *)
(* instance that did not decode: the VG instance itself, or else its       *)
(* sub-instance 0.                                                         *)
DecodeErrorNamesOffendingInstance ==
    reaction.kind = "Err" /\ reaction.err = "Decode"
        => reaction.payload = IF DecodesAs(snapshot, "VG") THEN Sub.index ELSE snapshot.index

=============================================================================

----------------------------- MODULE VGReactor -----------------------------
(***************************************************************************)
(* The verification-game reactor of compute/src/vg.rs: the pure function  *)
(* VG::react(instance, archive, ()) that maps one freshly fetched          *)
(* instance tree to a Reaction (Idle, a transaction, or an error).         *)
(*                                                                         *)
(* Data abstraction.  An instance's json_data is represented by the        *)
(* protocol whose storage layout it was encoded with ("proto") and the     *)
(* fields the decision logic reads; serde_json::from_str into the          *)
(* VGCtxParsed / PartitionCtxParsed / MMCtxParsed tuple succeeds exactly   *)
(* when that layout is the one asked for.  Addresses are members of the    *)
(* constant set Users, an instance's index is a natural number, hashes,    *)
(* the machine address and the six uint fields other than the ones read    *)
(* are left out: no branch of react reads them.                            *)
(*                                                                         *)
(* The Partition and MM reactors live in crates that are not part of the   *)
(* sources modelled here; PartitionReact and MMReact model only the        *)
(* contract spec.md gives them (whose move it is, claim by timeout).       *)
(***************************************************************************)
EXTENDS Naturals, Sequences

CONSTANT Users   \* the addresses that can appear as claimer, challenger or user

ASSUME UsersAssumption == Users # {}

-----------------------------------------------------------------------------
(* The protocols whose layouts an encoded state can have, and the values   *)
(* of current_state the code compares against.  "Other" stands for any    *)
(* string the code does not name.                                          *)
Protocols == {"VG", "Partition", "MM"}

VGFinished == {"FinishedClaimerWon", "FinishedChallengerWon"}
VGStates   == {"WaitPartition", "WaitMemoryProveValues"} \cup VGFinished

PartitionRunning  == {"WaitingQuery", "WaitingHashes"}
PartitionFinished == {"ChallengerWon", "ClaimerWon"}
PartitionStates   == PartitionRunning \cup PartitionFinished \cup {"DivergenceFound"}

MMStates == {"WaitingProofs", "WaitingReplay", "FinishedReplay"}

States == VGStates \cup PartitionStates \cup MMStates \cup {"Other"}

(* A sub-instance (state::Instance without its own children) and an        *)
(* instance with its ordered sub_instances.  "user" is                     *)
(* instance.concern.user_address; "expired" says whether the on-chain     *)
(* deadline of the current move has passed, and "round" stands for the     *)
(* query of a partition (both read by the sub-reactors only).              *)
SubInstances ==
    [index : Nat, proto : Protocols, state : States, round : Nat,
     claimer : Users, challenger : Users, user : Users, expired : BOOLEAN]

Instances ==
    [index : Nat, proto : Protocols, state : States,
     claimer : Users, challenger : Users, user : Users,
     subs : Seq(SubInstances)]

-----------------------------------------------------------------------------
(* Reactions.  A transaction request carries the concern (its user), the   *)
(* function name and its Uint arguments (data); value 0 and the Simplest   *)
(* strategy are the same for every request and are left out.               *)
TxFunctions ==
    {"winByPartitionTimeout", "startMachineRunChallenge", "settleVerificationGame",
     "makeQuery", "replyQuery", "claimVictoryByTime", "submitProofs"}

NoPayload == 0 - 1   \* an error that does not carry an encoded state

Idle == [kind |-> "Idle"]

Transaction(inst, fn) == [kind |-> "Tx", fn |-> fn, data |-> <<inst.index>>, user |-> inst.user]

(* ErrorKind::InvalidContractState(msg): the message names no instance.    *)
InvalidContractState(what) ==
    [kind |-> "Err", err |-> "InvalidContractState", what |-> what, payload |-> NoPayload]

(* chain_err on a failed serde_json::from_str: proto is the layout that    *)
(* was expected, payload the index of the instance whose json_data the     *)
(* message quotes.                                                         *)
DecodeError(proto, payload) ==
    [kind |-> "Err", err |-> "Decode", what |-> proto, payload |-> payload]

ErrorReasons == {"Neither", "NoPartitionInstance", "NoMMInstance", "UnknownState"}

Reactions ==
    {Idle}
    \cup [kind : {"Tx"}, fn : TxFunctions, data : Seq(Nat), user : Users]
    \cup [kind : {"Err"}, err : {"InvalidContractState"}, what : ErrorReasons,
          payload : {NoPayload}]
    \cup [kind : {"Err"}, err : {"Decode"}, what : Protocols, payload : Nat]

DecodesAs(inst, proto) == inst.proto = proto

-----------------------------------------------------------------------------
(* Sub-protocol reactors (not in the modelled sources).  Partition: the    *)
(* challenger queries in WaitingQuery, the claimer replies in              *)
(* WaitingHashes, and the party that is not on turn claims victory once    *)
(* the deadline has passed.  MM: the challenger, as provider, submits its  *)
(* proofs while WaitingProofs.  Both decode their own instance first.  A    *)
(* query or a reply also carries the query it answers (the query times     *)
(* the partition reactor reads from its instance), abstracted to its round. *)
PartitionMove(p, fn) ==
    [kind |-> "Tx", fn |-> fn, data |-> <<p.index, p.round>>, user |-> p.user]

PartitionReact(p) ==
    IF ~DecodesAs(p, "Partition") THEN DecodeError("Partition", p.index)
    ELSE IF p.user \notin {p.claimer, p.challenger} THEN InvalidContractState("Neither")
    ELSE CASE p.state = "WaitingQuery" /\ p.user = p.challenger -> PartitionMove(p, "makeQuery")
           [] p.state = "WaitingHashes" /\ p.user = p.claimer -> PartitionMove(p, "replyQuery")
           [] OTHER -> IF p.state \in PartitionRunning /\ p.expired
                       THEN Transaction(p, "claimVictoryByTime")
                       ELSE Idle

MMReact(m) ==
    IF ~DecodesAs(m, "MM") THEN DecodeError("MM", m.index)
    ELSE IF m.state = "WaitingProofs" /\ m.user = m.challenger
         THEN Transaction(m, "submitProofs")
         ELSE Idle

-----------------------------------------------------------------------------
(* Plausible slips in the dispatch below, used as mutants of it: a         *)
(* claimer that treats DivergenceFound as a finished partition, a          *)
(* challenger that decodes the MM sub-instance with the Partition layout   *)
(* (a copy of the WaitPartition arm), one that leaves WaitingReplay to the *)
(* catch-all arm, and a role test that tries the challenger first.         *)
ClaimerReactDivergenceAsFinished(inst) ==
    CASE inst.state = "WaitPartition" ->
           IF inst.subs = << >>
           THEN InvalidContractState("NoPartitionInstance")
           ELSE LET p == inst.subs[1] IN
                IF ~DecodesAs(p, "Partition") THEN DecodeError("Partition", inst.index)
                ELSE IF p.state \in PartitionFinished \cup {"DivergenceFound"}
                     THEN Transaction(inst, "winByPartitionTimeout")
                     ELSE PartitionReact(p)
      [] inst.state = "WaitMemoryProveValues" -> Idle
      [] OTHER -> InvalidContractState("UnknownState")

ChallengerReactMMAsPartition(inst) ==
    CASE inst.state = "WaitPartition" ->
           IF inst.subs = << >>
           THEN InvalidContractState("NoPartitionInstance")
           ELSE PartitionReact(inst.subs[1])
      [] inst.state = "WaitMemoryProveValues" ->
           IF inst.subs = << >>
           THEN InvalidContractState("NoMMInstance")
           ELSE IF ~DecodesAs(inst.subs[1], "Partition")
                THEN DecodeError("MM", inst.index)
                ELSE Idle
      [] OTHER -> InvalidContractState("UnknownState")

ChallengerReactNoSettle(inst) ==
    CASE inst.state = "WaitPartition" ->
           IF inst.subs = << >>
           THEN InvalidContractState("NoPartitionInstance")
           ELSE PartitionReact(inst.subs[1])
      [] inst.state = "WaitMemoryProveValues" ->
           IF inst.subs = << >>
           THEN InvalidContractState("NoMMInstance")
           ELSE LET m == inst.subs[1] IN
                IF ~DecodesAs(m, "MM") THEN DecodeError("MM", inst.index)
                ELSE IF m.state = "WaitingProofs" THEN MMReact(m) ELSE Idle
      [] OTHER -> InvalidContractState("UnknownState")

-----------------------------------------------------------------------------
(* The claimer's dispatch (vg.rs, Role::Claimer arm).  A partition         *)
(* sub-instance that fails to decode is reported with the json_data of     *)
(* the VG instance, as the chain_err closure formats instance.json_data.   *)
ClaimerReact(inst) ==
    CASE inst.state = "WaitPartition" ->
           IF inst.subs = << >>
           THEN InvalidContractState("NoPartitionInstance")
           ELSE LET p == inst.subs[1] IN
                IF ~DecodesAs(p, "Partition") THEN DecodeError("Partition", inst.index)
                ELSE CASE p.state \in PartitionFinished -> Transaction(inst, "winByPartitionTimeout")
                       [] p.state = "DivergenceFound" -> Transaction(inst, "startMachineRunChallenge")
                       [] OTHER -> PartitionReact(p)
      [] inst.state = "WaitMemoryProveValues" -> Idle
      [] OTHER -> InvalidContractState("UnknownState")

(* The challenger's dispatch (vg.rs, Role::Challenger arm).  The MM        *)
(* reactor receives ctx.divergence_time, which MMReact does not read.      *)
ChallengerReact(inst) ==
    CASE inst.state = "WaitPartition" ->
           IF inst.subs = << >>
           THEN InvalidContractState("NoPartitionInstance")
           ELSE PartitionReact(inst.subs[1])
      [] inst.state = "WaitMemoryProveValues" ->
           IF inst.subs = << >>
           THEN InvalidContractState("NoMMInstance")
           ELSE LET m == inst.subs[1] IN
                IF ~DecodesAs(m, "MM") THEN DecodeError("MM", inst.index)
                ELSE CASE m.state = "WaitingProofs" -> MMReact(m)
                       [] m.state = "WaitingReplay" -> Transaction(inst, "settleVerificationGame")
                       [] OTHER -> Idle
      [] OTHER -> InvalidContractState("UnknownState")

ReactChallengerFirst(inst) ==
    IF ~DecodesAs(inst, "VG") THEN DecodeError("VG", inst.index)
    ELSE IF inst.state \in VGFinished THEN Idle
    ELSE IF inst.user = inst.challenger THEN ChallengerReact(inst)
    ELSE IF inst.user = inst.claimer THEN ClaimerReact(inst)
    ELSE InvalidContractState("Neither")

(* VG::react: decode, short-circuit finished games, classify the role      *)
(* (the claimer test comes first), dispatch.                               *)
React(inst) ==
    IF ~DecodesAs(inst, "VG") THEN DecodeError("VG", inst.index)
    ELSE IF inst.state \in VGFinished THEN Idle
    ELSE IF inst.user = inst.claimer THEN ClaimerReact(inst)
    ELSE IF inst.user = inst.challenger THEN ChallengerReact(inst)
    ELSE InvalidContractState("Neither")

=============================================================================

------------------------------- MODULE VGGame -------------------------------
(***************************************************************************)
(* One verification game on chain, observed and driven by the off-chain    *)
(* agents of the parties that run one.  Each agent tick fetches the        *)
(* latest instance tree for its concern and calls VG::react on it          *)
(* (compute/src/vg.rs); a Transaction reaction is handed to the            *)
(* transaction subsystem, whose pending requests the chain later includes  *)
(* one at a time in any order, or rejects when the contract's guard no     *)
(* longer holds.                                                           *)
(*                                                                         *)
(* The contracts (VG, Partition, MM) are not part of this repository,     *)
(* and neither the code nor spec.md states their guards: Accepts and      *)
(* Effects below are this model's own assumption about them, the          *)
(* environment the agents run in.  A property is credited to the code    *)
(* only when a change of the reactor can break it; what happens on chain  *)
(* rests on the assumption.  The time of the chain is abstracted          *)
(* to one flag, "expired", saying that the deadline of the current         *)
(* partition move has passed.                                              *)
(***************************************************************************)
EXTENDS VGReactor, FiniteSets

CONSTANTS
    Claimer,     \* the claimer address of the game
    Challenger,  \* the challenger address of the game
    Agents,      \* the addresses whose concern an agent runs for
    MaxRounds,   \* partition rounds before the divergence is found
    MaxPending   \* bound on the transaction requests pending at once

ASSUME GameAssumption ==
    /\ {Claimer, Challenger} \subseteq Users
    /\ Claimer # Challenger
    /\ Agents \subseteq Users

ASSUME BoundsAssumption ==
    /\ MaxRounds \in Nat \ {0}
    /\ MaxPending \in Nat \ {0}

(* The instance indexes of the game and of its two sub-instances.          *)
VGIndex        == 0
PartitionIndex == 1
MMIndex        == 2

VARIABLES
    chain,    \* on-chain state: VG current_state and sub-instance 0
    pending   \* transaction requests handed off, each with the chain state it was computed from

vars == <<chain, pending>>

-----------------------------------------------------------------------------
(* The sub-instance 0 of the game as the chain stores it: a Partition      *)
(* instance until the machine-run challenge starts, then an MM instance.   *)
SubStates ==
    [proto : {"Partition", "MM"}, index : {PartitionIndex, MMIndex},
     state : PartitionStates \cup MMStates, round : 0..MaxRounds, expired : BOOLEAN]

ChainStates == [state : VGStates, sub : SubStates]

Requests == [kind : {"Tx"}, fn : TxFunctions, data : Seq(Nat), user : Users]

(* A request handed off, the chain state it was computed from, and which   *)
(* copy it is: the agent hands off the same request again on every tick   *)
(* until the chain moves on, and nothing merges the copies.                *)
Entries == [req : Requests, seen : ChainStates, copy : 1..MaxPending]

(* The instance tree an agent of user a fetches (state::Instance): the VG  *)
(* instance under concern a, and its sub-instance under the same concern.  *)
Snapshot(c, a) ==
    [index |-> VGIndex, proto |-> "VG", state |-> c.state,
     claimer |-> Claimer, challenger |-> Challenger, user |-> a,
     subs |-> << [index |-> c.sub.index, proto |-> c.sub.proto, state |-> c.sub.state,
                  round |-> c.sub.round, claimer |-> Claimer, challenger |-> Challenger, user |-> a,
                  expired |-> c.sub.expired] >>]

Init ==
    /\ chain = [state |-> "WaitPartition",
                sub |-> [proto |-> "Partition", index |-> PartitionIndex,
                         state |-> "WaitingQuery", round |-> 0, expired |-> FALSE]]
    /\ pending = {}

-----------------------------------------------------------------------------
(* A plausible slip in the tick, used as a mutant of it: handing whatever  *)
(* react returned to the transaction subsystem, idle and errors included.  *)
TickSubmitsAnyReaction(a) ==
    LET r == React(Snapshot(chain, a)) IN
    /\ Cardinality(pending) < MaxPending
    /\ \E k \in 1..MaxPending :
         /\ [req |-> r, seen |-> chain, copy |-> k] \notin pending
         /\ pending' = pending \cup {[req |-> r, seen |-> chain, copy |-> k]}
    /\ UNCHANGED chain

(* An agent's tick: fetch, react, hand a transaction request to the        *)
(* transaction subsystem as one more copy.  Idle and errors leave the      *)
(* chain and the pending requests alone (the caller logs an error and      *)
(* polls again).                                                           *)
Tick(a) ==
    LET r == React(Snapshot(chain, a)) IN
    /\ Cardinality(pending) < MaxPending
    /\ IF r.kind = "Tx"
       THEN \E k \in 1..MaxPending :
              /\ [req |-> r, seen |-> chain, copy |-> k] \notin pending
              /\ pending' = pending \cup {[req |-> r, seen |-> chain, copy |-> k]}
       ELSE pending' = pending
    /\ UNCHANGED chain

-----------------------------------------------------------------------------
OnTurn(c, u) ==
    \/ c.sub.state = "WaitingQuery" /\ u = Challenger
    \/ c.sub.state = "WaitingHashes" /\ u = Claimer

(* A query or a reply names the partition and answers its current query.   *)
(* The round stands for the query data, which the model assumes the       *)
(* partition contract checks; spec.md does not describe that check.       *)
QueryAnswered(c, r) == r.data = <<PartitionIndex, c.sub.round>>

(* The contract guards: whether the chain, in state c, accepts request r.  *)
(* A query or a reply must answer the current query (its round).           *)
Accepts(c, r) ==
    \/ /\ r.fn = "winByPartitionTimeout" /\ r.data = <<VGIndex>> /\ r.user = Claimer
       /\ c.state = "WaitPartition" /\ c.sub.state \in PartitionFinished
    \/ /\ r.fn = "startMachineRunChallenge" /\ r.data = <<VGIndex>> /\ r.user = Claimer
       /\ c.state = "WaitPartition" /\ c.sub.state = "DivergenceFound"
    \/ /\ r.fn = "settleVerificationGame" /\ r.data = <<VGIndex>> /\ r.user = Challenger
       /\ c.state = "WaitMemoryProveValues" /\ c.sub.state = "WaitingReplay"
    \/ /\ r.fn \in {"makeQuery", "replyQuery"} /\ QueryAnswered(c, r)
       /\ c.state = "WaitPartition" /\ OnTurn(c, r.user)
       /\ r.fn = IF r.user = Challenger THEN "makeQuery" ELSE "replyQuery"
    \/ /\ r.fn = "claimVictoryByTime" /\ r.data = <<PartitionIndex>>
       /\ r.user \in {Claimer, Challenger}
       /\ c.state = "WaitPartition" /\ c.sub.state \in PartitionRunning
       /\ c.sub.expired /\ ~OnTurn(c, r.user)
    \/ /\ r.fn = "submitProofs" /\ r.data = <<MMIndex>> /\ r.user = Challenger
       /\ c.state = "WaitMemoryProveValues" /\ c.sub.state = "WaitingProofs"

(* The VG state winByPartitionTimeout concludes a finished partition with. *)
PartitionWinner(c) ==
    IF c.sub.state = "ClaimerWon" THEN "FinishedClaimerWon" ELSE "FinishedChallengerWon"

(* The effect of an accepted request on the chain.  The winner of a        *)
(* settled game depends on the replayed step, which is not modelled: it   *)
(* is either party.                                                        *)
Effects(c, r) ==
    CASE r.fn = "winByPartitionTimeout" ->
           {[c EXCEPT !.state = PartitionWinner(c)]}
      [] r.fn = "startMachineRunChallenge" ->
           {[state |-> "WaitMemoryProveValues",
             sub |-> [proto |-> "MM", index |-> MMIndex, state |-> "WaitingProofs",
                      round |-> 0, expired |-> FALSE]]}
      [] r.fn = "settleVerificationGame" ->
           {[state |-> w, sub |-> [c.sub EXCEPT !.state = "FinishedReplay"]] : w \in VGFinished}
      [] r.fn = "makeQuery" ->
           {[c EXCEPT !.sub.state = "WaitingHashes", !.sub.expired = FALSE]}
      [] r.fn = "replyQuery" ->
           {[c EXCEPT !.sub.state = IF c.sub.round + 1 = MaxRounds THEN "DivergenceFound"
                                    ELSE "WaitingQuery",
                      !.sub.round = c.sub.round + 1, !.sub.expired = FALSE]}
      [] r.fn = "claimVictoryByTime" ->
           {[c EXCEPT !.sub.state = IF r.user = Claimer THEN "ClaimerWon" ELSE "ChallengerWon"]}
      [] r.fn = "submitProofs" ->
           {[c EXCEPT !.sub.state = "WaitingReplay"]}

(* The chain includes a pending request: it takes effect if the contract   *)
(* accepts it in the current state, which may differ from the one the      *)
(* request was computed from, and is reverted otherwise.                   *)
Include(p) ==
    /\ pending' = pending \ {p}
    /\ IF Accepts(chain, p.req)
       THEN chain' \in Effects(chain, p.req)
       ELSE chain' = chain

(* Time passes beyond the deadline of the current partition move.          *)
Expire ==
    /\ chain.state = "WaitPartition"
    /\ chain.sub.state \in PartitionRunning
    /\ ~chain.sub.expired
    /\ chain' = [chain EXCEPT !.sub.expired = TRUE]
    /\ UNCHANGED pending

Next ==
    \/ \E a \in Agents : Tick(a)
    \/ \E p \in pending : Include(p)
    \/ Expire

(* The scheduler polls every agent again and again, the chain keeps         *)
(* including pending requests, and time does not stop.                     *)
Fairness ==
    /\ \A a \in Agents : WF_vars(Tick(a))
    /\ WF_vars(\E p \in pending : Include(p))
    /\ WF_vars(Expire)

Spec == Init /\ [][Next]_vars /\ Fairness

-----------------------------------------------------------------------------
TypeOK ==
    /\ chain \in ChainStates
    /\ pending \subseteq Entries

(* The chain keeps its sub-instance consistent with the phase: a           *)
(* Partition instance while partitioning, an MM instance afterwards.       *)
ChainConsistent ==
    /\ chain.sub.proto = "Partition" <=> chain.sub.index = PartitionIndex
    /\ chain.sub.proto = "Partition" => chain.sub.state \in PartitionStates
    /\ chain.sub.proto = "MM" => chain.sub.state \in MMStates
    /\ chain.state = "WaitPartition" => chain.sub.proto = "Partition"
    /\ chain.state = "WaitMemoryProveValues" => chain.sub.proto = "MM"

(* Every request an agent hands off is one the contracts accept in the     *)
(* chain state it was computed from: react never proposes a move outside  *)
(* the protocol's rules, for the role or the phase it observed (spec.md,   *)
(* section 1).  Requests may still be reverted, when the chain has moved   *)
(* on before including them.                                               *)
RequestsAcceptedWhenComputed ==
    \A p \in pending : Accepts(p.seen, p.req)

(* In every state the game can reach, react gives each party's agent a     *)
(* reaction that is not a fatal error: the dispatch table and the          *)
(* sub-reactors cover every phase and sub-instance the contracts produce.  *)
NoFatalErrorForParties ==
    \A a \in Agents \cap {Claimer, Challenger} :
        React(Snapshot(chain, a)).kind # "Err"

(* Driven by the agents, the game reaches one of its two finished states. *)
GameConcludes == <>(chain.state \in VGFinished)

=============================================================================

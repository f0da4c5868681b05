---------------------------- MODULE VGGameProofs ----------------------------
(***************************************************************************)
(* Proofs about VGGame for every value of the constants: the type          *)
(* invariant; that every request an agent hands off is accepted by the     *)
(* contracts in the chain state it was computed from; and that the         *)
(* parties' agents never get a fatal error.                                *)
(*                                                                         *)
(* None of the invariants is inductive alone.  The type needs RoundBound   *)
(* (a running partition has a round left, so replyQuery keeps round in     *)
(* 0..MaxRounds); the acceptance of a new request needs ChainConsistent    *)
(* (the sub-instance index matches its protocol, so the argument the       *)
(* sub-reactors put in a request is the instance the contract expects).   *)
(* IInv is their conjunction.                                              *)
(***************************************************************************)
EXTENDS VGGame, TLAPS

RoundBound ==
    chain.sub.state \in PartitionRunning => chain.sub.round < MaxRounds

IInv ==
    /\ TypeOK
    /\ RoundBound
    /\ ChainConsistent
    /\ RequestsAcceptedWhenComputed

-----------------------------------------------------------------------------
(* The reactor, given the tree of a consistent chain state, either         *)
(* proposes no transaction or a well-typed request the contracts accept   *)
(* in that state.                                                          *)
LEMMA ReactAccepted ==
    ASSUME NEW c \in ChainStates, NEW a \in Users,
           c.sub.proto = "Partition" <=> c.sub.index = PartitionIndex
    PROVE  LET r == React(Snapshot(c, a))
           IN  r.kind = "Tx" => r \in Requests /\ Accepts(c, r)
<1> DEFINE s == Snapshot(c, a)
           p == s.subs[1]
<1>1. /\ s.subs # << >>
      /\ p = [index |-> c.sub.index, proto |-> c.sub.proto, state |-> c.sub.state,
              round |-> c.sub.round, claimer |-> Claimer, challenger |-> Challenger,
              user |-> a, expired |-> c.sub.expired]
      /\ s.proto = "VG" /\ s.state = c.state /\ s.index = VGIndex /\ s.user = a
      /\ s.claimer = Claimer /\ s.challenger = Challenger
  BY DEF Snapshot
<1>2. Claimer # Challenger /\ Claimer \in Users /\ Challenger \in Users
  BY GameAssumption
<1>10. /\ <<VGIndex>> \in Seq(Nat) /\ <<PartitionIndex>> \in Seq(Nat)
       /\ <<MMIndex>> \in Seq(Nat) /\ <<PartitionIndex, c.sub.round>> \in Seq(Nat)
  BY DEF VGIndex, PartitionIndex, MMIndex, ChainStates, SubStates
<1> USE <1>1, <1>2, <1>10 DEF ChainStates, SubStates
<1>3. CASE c.state \in VGFinished
  BY <1>3 DEF React, DecodesAs, Idle
<1>4. CASE c.state \notin VGFinished /\ a # Claimer /\ a # Challenger
  BY <1>4 DEF React, DecodesAs, InvalidContractState
<1>5. CASE c.state = "WaitPartition" /\ a = Claimer
  <2>1. React(s) = ClaimerReact(s)
    BY <1>5 DEF React, DecodesAs, VGFinished
  <2>2. CASE c.sub.proto # "Partition"
    BY <2>1, <2>2, <1>5 DEF ClaimerReact, DecodesAs, DecodeError
  <2>3. CASE c.sub.proto = "Partition"
    <3>1. c.sub.index = PartitionIndex
      BY <2>3
    <3>2. QED
      BY <2>1, <2>3, <3>1, <1>5
      DEF ClaimerReact, PartitionReact, PartitionMove, DecodesAs, Transaction, Accepts, QueryAnswered, OnTurn,
          Requests, TxFunctions, InvalidContractState, Idle, PartitionFinished,
          PartitionRunning, VGIndex, PartitionIndex
  <2>4. QED
    BY <2>2, <2>3
<1>6. CASE c.state = "WaitPartition" /\ a = Challenger
  <2>1. React(s) = ChallengerReact(s)
    BY <1>6 DEF React, DecodesAs, VGFinished
  <2>2. CASE c.sub.proto # "Partition"
    BY <2>1, <2>2, <1>6 DEF ChallengerReact, PartitionReact, DecodesAs, DecodeError
  <2>3. CASE c.sub.proto = "Partition"
    <3>1. c.sub.index = PartitionIndex
      BY <2>3
    <3>2. QED
      BY <2>1, <2>3, <3>1, <1>6
      DEF ChallengerReact, PartitionReact, PartitionMove, DecodesAs, Transaction, Accepts, QueryAnswered, OnTurn,
          Requests, TxFunctions, InvalidContractState, Idle, PartitionRunning,
          PartitionIndex
  <2>4. QED
    BY <2>2, <2>3
<1>7. CASE c.state = "WaitMemoryProveValues" /\ a = Claimer
  BY <1>7 DEF React, DecodesAs, VGFinished, ClaimerReact, Idle
<1>8. CASE c.state = "WaitMemoryProveValues" /\ a = Challenger
  <2>1. React(s) = ChallengerReact(s)
    BY <1>8 DEF React, DecodesAs, VGFinished
  <2>2. CASE c.sub.proto # "MM"
    BY <2>1, <2>2, <1>8 DEF ChallengerReact, DecodesAs, DecodeError
  <2>3. CASE c.sub.proto = "MM"
    <3>1. c.sub.index = MMIndex
      BY <2>3 DEF PartitionIndex, MMIndex
    <3>2. QED
      BY <2>1, <2>3, <3>1, <1>8
      DEF ChallengerReact, MMReact, DecodesAs, Transaction, Accepts, QueryAnswered,
          Requests, TxFunctions, Idle, VGIndex, MMIndex
  <2>4. QED
    BY <2>2, <2>3
<1>9. QED
  BY <1>3, <1>4, <1>5, <1>6, <1>7, <1>8 DEF VGStates, VGFinished

-----------------------------------------------------------------------------
(* On a consistent chain, react gives the claimer and the challenger a     *)
(* reaction that is not an error.                                          *)
LEMMA ReactNoError ==
    ASSUME NEW c \in ChainStates, NEW a \in {Claimer, Challenger},
           c.sub.proto = "Partition" => c.sub.state \in PartitionStates,
           c.sub.proto = "MM" => c.sub.state \in MMStates,
           c.state = "WaitPartition" => c.sub.proto = "Partition",
           c.state = "WaitMemoryProveValues" => c.sub.proto = "MM"
    PROVE  React(Snapshot(c, a)).kind # "Err"
<1> DEFINE s == Snapshot(c, a)
           p == s.subs[1]
<1>1. /\ s.subs # << >>
      /\ p.proto = c.sub.proto /\ p.state = c.sub.state /\ p.user = a
      /\ p.claimer = Claimer /\ p.challenger = Challenger
      /\ s.proto = "VG" /\ s.state = c.state /\ s.user = a
      /\ s.claimer = Claimer /\ s.challenger = Challenger
  BY DEF Snapshot
<1>2. Claimer # Challenger
  BY GameAssumption
<1> USE <1>1, <1>2 DEF ChainStates, SubStates, VGStates, VGFinished
<1>3. c.state = "WaitPartition" => PartitionReact(p).kind # "Err"
  BY <1>1 DEF PartitionReact, PartitionMove, Transaction, Idle, DecodesAs, DecodeError,
     PartitionStates, PartitionRunning, PartitionFinished
<1>4. CASE c.state \in VGFinished
  BY <1>4 DEF React, DecodesAs, Idle
<1>5. CASE c.state = "WaitPartition" /\ a = Claimer
  BY <1>3, <1>5 DEF React, DecodesAs, ClaimerReact, Transaction, PartitionStates,
     PartitionFinished
<1>6. CASE c.state = "WaitPartition" /\ a = Challenger
  BY <1>3, <1>6 DEF React, DecodesAs, ChallengerReact
<1>7. CASE c.state = "WaitMemoryProveValues" /\ a = Claimer
  BY <1>7 DEF React, DecodesAs, ClaimerReact, Idle
<1>8. CASE c.state = "WaitMemoryProveValues" /\ a = Challenger
  BY <1>8 DEF React, DecodesAs, ChallengerReact, MMReact, Transaction, Idle, MMStates
<1>9. QED
  BY <1>4, <1>5, <1>6, <1>7, <1>8

-----------------------------------------------------------------------------
(* Every accepted request leads to a state of the right type in which the  *)
(* invariants on the chain still hold.                                     *)
LEMMA EffectsPreserve ==
    ASSUME NEW c \in ChainStates, NEW r \in Requests, Accepts(c, r),
           c.sub.state \in PartitionRunning => c.sub.round < MaxRounds,
           c.sub.proto = "Partition" <=> c.sub.index = PartitionIndex,
           c.sub.proto = "Partition" => c.sub.state \in PartitionStates,
           c.sub.proto = "MM" => c.sub.state \in MMStates,
           c.state = "WaitPartition" => c.sub.proto = "Partition",
           c.state = "WaitMemoryProveValues" => c.sub.proto = "MM",
           NEW d \in Effects(c, r)
    PROVE  /\ d \in ChainStates
           /\ d.sub.state \in PartitionRunning => d.sub.round < MaxRounds
           /\ d.sub.proto = "Partition" <=> d.sub.index = PartitionIndex
           /\ d.sub.proto = "Partition" => d.sub.state \in PartitionStates
           /\ d.sub.proto = "MM" => d.sub.state \in MMStates
           /\ d.state = "WaitPartition" => d.sub.proto = "Partition"
           /\ d.state = "WaitMemoryProveValues" => d.sub.proto = "MM"
<1> USE BoundsAssumption
    DEF ChainStates, SubStates, VGStates, VGFinished, PartitionStates, PartitionRunning,
        PartitionFinished, MMStates, PartitionIndex, MMIndex
<1>1. CASE r.fn = "winByPartitionTimeout"
  BY <1>1 DEF Accepts, QueryAnswered, Effects, PartitionWinner
<1>2. CASE r.fn = "startMachineRunChallenge"
  <2>1. d = [state |-> "WaitMemoryProveValues",
             sub |-> [proto |-> "MM", index |-> MMIndex, state |-> "WaitingProofs",
                      round |-> 0, expired |-> FALSE]]
    BY <1>2 DEF Effects, PartitionWinner
  <2>2. QED
    BY <2>1
<1>3. CASE r.fn = "settleVerificationGame"
  BY <1>3 DEF Accepts, QueryAnswered, Effects, PartitionWinner
<1>4. CASE r.fn = "makeQuery"
  <2>1. c.state = "WaitPartition" /\ c.sub.state \in PartitionRunning
    BY <1>4 DEF Accepts, QueryAnswered, OnTurn
  <2>2. d = [c EXCEPT !.sub.state = "WaitingHashes", !.sub.expired = FALSE]
    BY <1>4 DEF Effects, PartitionWinner
  <2>3. d.state = c.state /\ d.sub.proto = c.sub.proto /\ d.sub.index = c.sub.index
        /\ d.sub.round = c.sub.round /\ d.sub.state = "WaitingHashes"
        /\ d.sub.expired = FALSE
    BY <2>2
  <2>4. d = [state |-> d.state, sub |-> d.sub]
        /\ d.sub = [proto |-> d.sub.proto, index |-> d.sub.index, state |-> d.sub.state,
                    round |-> d.sub.round, expired |-> d.sub.expired]
    BY <2>2
  <2>5. QED
    BY <2>1, <2>3, <2>4
<1>5. CASE r.fn = "replyQuery"
  <2>1. c.state = "WaitPartition" /\ c.sub.state = "WaitingHashes"
    BY <1>5 DEF Accepts, QueryAnswered, OnTurn
  <2>2. d = [c EXCEPT !.sub.state = IF c.sub.round + 1 = MaxRounds THEN "DivergenceFound"
                                    ELSE "WaitingQuery",
                      !.sub.round = c.sub.round + 1, !.sub.expired = FALSE]
    BY <1>5 DEF Effects, PartitionWinner
  <2>3. d.state = c.state /\ d.sub.proto = c.sub.proto /\ d.sub.index = c.sub.index
        /\ d.sub.round = c.sub.round + 1 /\ d.sub.expired = FALSE
        /\ d.sub.state = IF c.sub.round + 1 = MaxRounds THEN "DivergenceFound"
                         ELSE "WaitingQuery"
    BY <2>2
  <2>4. d = [state |-> d.state, sub |-> d.sub]
        /\ d.sub = [proto |-> d.sub.proto, index |-> d.sub.index, state |-> d.sub.state,
                    round |-> d.sub.round, expired |-> d.sub.expired]
    BY <2>2
  <2>5. c.sub.round + 1 \in 0..MaxRounds
    BY <2>1
  <2>6. d.sub.state \in PartitionStates /\ d.sub.proto = "Partition"
    BY <2>1, <2>3
  <2>7. d.sub.state \in PartitionRunning => d.sub.round < MaxRounds
    BY <2>3, <2>5
  <2>8. d.sub \in SubStates
    BY <2>3, <2>4, <2>5, <2>6, <2>1
  <2>9. QED
    BY <2>1, <2>3, <2>4, <2>6, <2>7, <2>8
<1>6. CASE r.fn = "claimVictoryByTime"
  BY <1>6 DEF Accepts, QueryAnswered, Effects, PartitionWinner
<1>7. CASE r.fn = "submitProofs"
  BY <1>7 DEF Accepts, QueryAnswered, Effects, PartitionWinner
<1>8. QED
  BY <1>1, <1>2, <1>3, <1>4, <1>5, <1>6, <1>7 DEF Accepts, QueryAnswered

-----------------------------------------------------------------------------
(* The initial state satisfies the inductive invariant.                   *)
LEMMA InitIInv == Init => IInv
BY BoundsAssumption
DEF Init, IInv, TypeOK, RoundBound, ChainConsistent, RequestsAcceptedWhenComputed,
    ChainStates, SubStates, VGStates, PartitionStates, PartitionRunning, MMStates,
    PartitionIndex, MMIndex

(* Every step, of every agent, of the chain and of time, preserves it.     *)
LEMMA NextIInv == IInv /\ [Next]_vars => IInv'
<1> SUFFICES ASSUME IInv, [Next]_vars PROVE IInv'
  OBVIOUS
<1> USE DEF IInv, TypeOK, RoundBound, ChainConsistent, RequestsAcceptedWhenComputed
<1>1. ASSUME NEW a \in Agents, Tick(a) PROVE IInv'
  <2> DEFINE r == React(Snapshot(chain, a))
  <2>1. a \in Users
    BY GameAssumption
  <2>2. r.kind = "Tx" => r \in Requests /\ Accepts(chain, r)
    BY <2>1, ReactAccepted
  <2>3. \/ r.kind = "Tx" /\ \E k \in 1..MaxPending :
             pending' = pending \cup {[req |-> r, seen |-> chain, copy |-> k]}
        \/ r.kind # "Tx" /\ pending' = pending
    BY <1>1 DEF Tick
  <2>4. chain' = chain
    BY <1>1 DEF Tick
  <2>5. QED
    BY <2>2, <2>3, <2>4 DEF Entries
<1>2. ASSUME NEW p \in pending, Include(p) PROVE IInv'
  <2>1. pending' = pending \ {p}
    BY <1>2 DEF Include
  <2>2. CASE Accepts(chain, p.req)
    <3>1. chain' \in Effects(chain, p.req)
      BY <1>2, <2>2 DEF Include
    <3>2. p.req \in Requests
      BY DEF Entries
    <3>3. QED
      BY <2>1, <2>2, <3>1, <3>2, EffectsPreserve DEF Entries
  <2>3. CASE ~Accepts(chain, p.req)
    BY <1>2, <2>1, <2>3 DEF Include
  <2>4. QED
    BY <2>2, <2>3
<1>3. CASE Expire
  <2>1. chain' = [chain EXCEPT !.sub.expired = TRUE] /\ UNCHANGED pending
    BY <1>3 DEF Expire
  <2>2. QED
    BY <2>1 DEF ChainStates, SubStates
<1>4. CASE UNCHANGED vars
  BY <1>4 DEF vars
<1>5. QED
  BY <1>1, <1>2, <1>3, <1>4 DEF Next

-----------------------------------------------------------------------------
(* The variables always have their types: the chain state is a VG state    *)
(* with a Partition or MM sub-instance whose round stays within            *)
(* MaxRounds, and the pending copies are transaction requests.             *)
THEOREM TypeCorrect == Spec => []TypeOK
BY InitIInv, NextIInv, PTL DEF Spec, IInv

(* Whatever the number of rounds, of agents and of pending requests, every *)
(* request react hands to the transaction subsystem is accepted by the     *)
(* contracts in the state it was computed from (vg.rs dispatch, checked    *)
(* by the run game_safety on a small instance).                            *)
THEOREM RequestsAccepted == Spec => []RequestsAcceptedWhenComputed
BY InitIInv, NextIInv, PTL DEF Spec, IInv

(* In every reachable state, react gives the agents of both parties a      *)
(* reaction that is not a fatal error (the vg.rs dispatch covers every     *)
(* phase and sub-instance the contracts produce), for every number of      *)
(* rounds (checked by the run game_safety on a small instance).            *)
THEOREM NoFatalError == Spec => []NoFatalErrorForParties
<1>1. IInv => NoFatalErrorForParties
  BY ReactNoError DEF IInv, TypeOK, ChainConsistent, NoFatalErrorForParties
<1>2. QED
  BY <1>1, InitIInv, NextIInv, PTL DEF Spec

=============================================================================

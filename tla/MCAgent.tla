------------------------------- MODULE MCAgent -------------------------------
(* A funded recurring feed of two providers.  Either both are played by hand: *)
(* submissions that agree or not, misses, slashes, rewards and their payment, *)
(* departures, and a pool that runs dry and is refilled.  Or one is served by *)
(* an agent, which crashes, waits in vain and forgets, while the other        *)
(* submits or does not, others crank, and its operator leaves the feed and    *)
(* joins again.                                                               *)
EXTENDS MCCore, Agent

ServedSpec == [BaseSpec EXCEPT !.submitWindow = 1, !.subscriptionPrice = 20]
ServedParam == [BaseParam EXCEPT !.unbondPeriod = 2, !.providerEpoch = 5, !.missSlashCapPerEpochBps = 700,
                                 !.jailAfterMisses = 3]

AgentCfg ==
  [jitter |-> 0, margin |-> 0, finalizeDelay |-> 0, slotDelay |-> 0, claimEvery |-> 4, claimMin |-> 1,
   skipFinalize |-> FALSE, catchUpEmpty |-> TRUE, catchUpBatch |-> 2]

-----------------------------------------------------------------------------

\* The provider of slot 0 submits the smallest value, that of slot 1 any.
Played ==
  \E p \in Providers, id \in OpenedRounds, v \in Values :
    (providers[p].slot = 0 => v = Min(Values)) /\ Submit(p, id, v)

ByHandNext ==
  /\ \/ Tick
     \/ \E p \in Providers : RequestUnbond(p) \/ Withdraw(p) \/ ClaimRewards(p)
     \/ Played
     \/ CatchUp
     \/ Sponsor
  /\ UNCHANGED agentVars

-----------------------------------------------------------------------------

Others ==
  /\ \/ Tick
     \/ \E p \in Providers \ {me}, id \in OpenedRounds : id \notin DOMAIN rounds /\ Submit(p, id, Min(Values))
     \/ CatchUp
  /\ UNCHANGED agentVars

\* Leaving counts as a fault.
Operator ==
  /\ \/ ByHand(RequestUnbond(me)) /\ Fault
     \/ ByHand(Withdraw(me) \/ Register(me)) /\ UNCHANGED faults
  /\ tick' = IF tick = Idle \/ tick.pc = "provider" THEN tick ELSE [tick EXCEPT !.clean = FALSE]
  /\ UNCHANGED <<me, file, mem, run>>

-----------------------------------------------------------------------------

ServedInit == JoinedInit(2) /\ me \in {NoOne, slots[0]} /\ AgentInit

ServedNext ==
  \/ me = NoOne /\ ByHandNext
  \/ me # NoOne /\ (AgentSteps \/ Landings \/ Others \/ Operator)

SpecServed == ServedInit /\ [][ServedNext]_<<vars, agentVars>>

=============================================================================

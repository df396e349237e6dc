------------------------- MODULE BenchmpBarrierProof ------------------------
(***************************************************************************)
(* The barriers of benchmp() hold for any number of children, calls and    *)
(* faults: one reporter at a time, every read in its phase, and no time    *)
(* without every child's report.  All follow from BarrierInv.  Before it,  *)
(* the types.                                                              *)
(***************************************************************************)
EXTENDS BenchmpSafety, FiniteSetTheorems, TLAPS

LEMMA ParallelType == Parallel \in Nat /\ Parallel >= 1
  BY ParallelAssumption

-----------------------------------------------------------------------------
(* What the four kinds of step leave alone.                                *)

LEMMA ChildFrame ==
  ASSUME NEW c \in Children, Child(c)
  PROVE  UNCHANGED childRest
  BY DEF Child, Install, Orphan, WarmUp, EndWarmUp, ReadStart, Sample, Rescale,
         FinishTiming, CoolDown, ReadResult, Reply, ReadExit, Benchmark

LEMMA InitType == Init => TypeInv
<1> SUFFICES ASSUME Init PROVE TypeInv
  OBVIOUS
<1>1. ParentTypeOK /\ IndexOK
  BY BoundAssumption DEF Init, ParentTypeOK, IndexOK, ParentPCs
<1>2. FlagTypeOK /\ SignalTypeOK
  BY DEF Init, FlagTypeOK, SignalTypeOK
<1>3. PipeTypeOK
  BY DEF Init, PipeTypeOK
<1>4. KidTypeOK
  BY BoundAssumption DEF Init, KidTypeOK, KidPCs, KidStates
<1> QED BY <1>1, <1>2, <1>3, <1>4 DEF TypeInv, TypeOK

(* The parent's program counter, its counters and its loop index.          *)
LEMMA ParentTypeStep ==
  ASSUME ParentTypeOK, IndexOK, [Next]_vars
  PROVE  ParentTypeOK' /\ IndexOK'
<1> USE ParallelType, BoundAssumption DEF ParentTypeOK, IndexOK, ParentPCs
<1>1. CASE Parent
  BY <1>1 DEF Parent, Call, Prologue, ForkTest, Fork, KillForked, WaitForked,
     EnterParent, ParentNotices, CollectReady, SendStart, CollectDone, AskResult,
     CollectResult, SendExit, KillAll, WaitAll, WaitChild, AllWaited, Return,
     ErrorExit, Signal, ParentDies, parentVars, faultVars, Messages
<1>2. CASE Alarm
  BY <1>2 DEF Alarm, parentVars, faultVars
<1>3. ASSUME NEW c \in Children, Child(c) PROVE ParentTypeOK' /\ IndexOK'
  BY <1>3, ChildFrame DEF childRest, parentVars, faultVars
<1>4. CASE Environment
  BY <1>4 DEF Environment, PipeFails, PidsFail, ForkFails, BuffersFail, Sigterm, Kill,
     Crash, Fault, ParentDies, parentVars
<1>5. CASE UNCHANGED vars
  BY <1>5 DEF vars, parentVars, faultVars
<1> QED BY <1>1, <1>2, <1>3, <1>4, <1>5 DEF Next, Terminating

(* The flags and the dispositions of the parent's signals.                 *)
LEMMA SignalTypeStep ==
  ASSUME FlagTypeOK, SignalTypeOK, [Next]_vars
  PROVE  FlagTypeOK' /\ SignalTypeOK'
<1> USE DEF FlagTypeOK, SignalTypeOK, signalVars, chldVars, ChildExits
<1>1. CASE Parent
  BY <1>1 DEF Parent, Call, Prologue, ForkTest, Fork, KillForked, WaitForked,
     EnterParent, ParentNotices, CollectReady, SendStart, CollectDone, AskResult,
     CollectResult, SendExit, KillAll, WaitAll, WaitChild, AllWaited, Return,
     InstallHandlers, ErrorExit, Signal, ParentDies, Terminate, pipeVars, faultVars
<1>2. CASE Alarm
  BY <1>2 DEF Alarm, Terminate, pipeVars, faultVars
<1>3. ASSUME NEW c \in Children, Child(c) PROVE FlagTypeOK' /\ SignalTypeOK'
  <2>1. UNCHANGED chldVars \/ ChildExits(c)
    <3>1. CASE FinishTiming(c)
      BY <3>1 DEF FinishTiming, Send
    <3>2. CASE ~FinishTiming(c)
      BY <1>3, <3>2 DEF Child, Install, Orphan, WarmUp, EndWarmUp, ReadStart, Sample, Rescale,
         CoolDown, ReadResult, Reply, ReadExit, Benchmark, SayReady, Send, Goto
    <3> QED BY <3>1, <3>2
  <2> QED BY <1>3, <2>1, ChildFrame DEF childRest, faultVars
<1>4. CASE Environment
  BY <1>4 DEF Environment, PipeFails, PidsFail, ForkFails, BuffersFail, Sigterm, Kill,
     Crash, Fault, ParentDies, InstallHandlers, pipeVars
<1>5. CASE UNCHANGED vars
  BY <1>5 DEF vars, pipeVars, faultVars
<1> QED BY <1>1, <1>2, <1>3, <1>4, <1>5 DEF Next, Terminating

(* Nothing is taken from an empty pipe.                                    *)
LEMMA PipeTypeStep ==
  ASSUME ParentTypeOK, PipeTypeOK, [Next]_vars
  PROVE  PipeTypeOK'
<1> USE ParallelType DEF pipeVars
<1>1. CASE Prologue
  BY <1>1 DEF Prologue, PipeTypeOK
<1>2. CASE CollectReady \/ CollectDone \/ CollectResult
  BY <1>2 DEF CollectReady, CollectDone, CollectResult, Receive, PipeTypeOK
<1>3. CASE SendStart \/ AskResult \/ SendExit
  BY <1>3 DEF SendStart, AskResult, SendExit, Signal, PipeTypeOK, ParentTypeOK, Signals
<1>4. CASE \/ Call \/ ForkTest \/ Fork \/ KillForked \/ WaitForked \/ EnterParent
           \/ ParentNotices \/ KillAll \/ WaitAll \/ WaitChild \/ AllWaited \/ Return \/ Alarm
  BY <1>4 DEF Call, ForkTest, Fork, KillForked, WaitForked, EnterParent, ParentNotices,
     KillAll, WaitAll, WaitChild, AllWaited, Return, Alarm, PipeTypeOK
<1>5. ASSUME NEW c \in Children, Child(c) PROVE PipeTypeOK'
  <2>1. bytes' = bytes \/ \E s \in Signals : Take(s)
    BY <1>5 DEF Child, Install, Orphan, WarmUp, EndWarmUp, ReadStart, Sample, Rescale,
       FinishTiming, CoolDown, ReadResult, Reply, ReadExit, Benchmark, Signals
  <2>2. response' = response \/ \E k \in Kinds : response' = [response EXCEPT ![<<k, c>>] = @ + 1]
    BY <1>5 DEF Child, Install, Orphan, WarmUp, EndWarmUp, ReadStart, Sample, Rescale,
       FinishTiming, CoolDown, ReadResult, Reply, ReadExit, Benchmark, SayReady, Send, Kinds
  <2>3. bytes' \in [Signals -> Nat]
    BY <2>1 DEF Take, PipeTypeOK
  <2>4. response' \in [Messages -> Nat]
    <3> SUFFICES ASSUME NEW k \in Kinds, response' = [response EXCEPT ![<<k, c>>] = @ + 1]
                 PROVE  response' \in [Messages -> Nat]
      BY <2>2 DEF PipeTypeOK
    <3>1. <<k, c>> \in Messages
      BY DEF Messages
    <3>2. response[<<k, c>>] + 1 \in Nat
      BY <3>1 DEF PipeTypeOK
    <3> QED BY <3>1, <3>2 DEF PipeTypeOK
  <2> QED BY <2>3, <2>4 DEF PipeTypeOK
<1>6. CASE Environment
  BY <1>6 DEF Environment, PipeFails, PidsFail, ForkFails, BuffersFail, Sigterm, Kill, Crash,
     PipeTypeOK
<1>7. CASE UNCHANGED vars
  BY <1>7 DEF vars, PipeTypeOK
<1> QED BY <1>1, <1>2, <1>3, <1>4, <1>5, <1>6, <1>7 DEF Next, Terminating, Parent

(* A SIGTERM ends a child or sets its flag.                                *)
LEMMA TerminateType ==
  ASSUME KidTypeOK, NEW c \in Children, Terminate(c)
  PROVE  kid' \in [Children -> KidPCs] /\ ktermed' \in [Children -> BOOLEAN]
<1>1. CASE Live(c) /\ kterm[c] = "benchmp_child_sigterm"
  BY <1>1 DEF Terminate, ChildExits, KidTypeOK, KidPCs
<1>2. CASE ~(Live(c) /\ kterm[c] = "benchmp_child_sigterm")
  <2>1. Live(c) \in BOOLEAN
    BY DEF Live
  <2>2. kid' = kid /\ ktermed' = [ktermed EXCEPT ![c] = @ \/ Live(c)]
    BY <1>2 DEF Terminate
  <2> QED BY <2>1, <2>2 DEF KidTypeOK
<1> QED BY <1>1, <1>2

(* The indices with which the parent addresses its children.               *)
LEMMA IndexInChildren ==
  ASSUME ParentTypeOK, IndexOK
  PROVE  /\ pc \in {"forking", "killAll", "waitAll"} => i \in Children
         /\ pc = "waitForked" \/ i > 0 => i - 1 \in Children
  BY ParallelType DEF ParentTypeOK, IndexOK, Children

(* The children.                                                           *)
LEMMA KidTypeStep ==
  ASSUME ParentTypeOK, IndexOK, KidTypeOK, FlagTypeOK, [Next]_vars
  PROVE  KidTypeOK'
<1> USE IndexInChildren DEF kidVars, sampleVars, ktermVars
<1>1. CASE \/ Call \/ Prologue \/ ForkTest \/ Fork \/ WaitForked
           \/ EnterParent \/ ParentNotices \/ CollectReady \/ SendStart \/ CollectDone
           \/ AskResult \/ CollectResult \/ SendExit \/ WaitAll
           \/ WaitChild \/ AllWaited \/ Return
  <2>1. CASE Prologue
    BY <2>1, BoundAssumption DEF Prologue, KidTypeOK, KidPCs, KidStates
  <2>2. CASE Fork
    BY <2>2 DEF Fork, KidTypeOK, KidPCs, LivePCs, FlagTypeOK
  <2>3. CASE WaitForked \/ WaitAll \/ WaitChild
    BY <2>3 DEF WaitForked, WaitAll, WaitChild, Reap, KidTypeOK, KidPCs
  <2>4. CASE ~(Prologue \/ Fork \/ WaitForked \/ WaitAll \/ WaitChild)
    BY <1>1, <2>4 DEF Call, ForkTest, EnterParent, ParentNotices, CollectReady, SendStart,
       CollectDone, AskResult, CollectResult, SendExit, AllWaited, Return, KidTypeOK
  <2> QED BY <2>1, <2>2, <2>3, <2>4
<1>2. CASE KillForked \/ KillAll \/ Alarm
  <2>1. UNCHANGED <<st, need, sampleVars, kterm, ran>>
    BY <1>2 DEF KillForked, KillAll, Alarm
  <2>2. kid' \in [Children -> KidPCs] /\ ktermed' \in [Children -> BOOLEAN]
    <3>1. CASE KillForked
      BY <3>1, TerminateType DEF KillForked, KidTypeOK, ParentTypeOK
    <3>2. CASE KillAll \/ Alarm
      BY <3>2, TerminateType DEF KillAll, Alarm
    <3> QED BY <1>2, <3>1, <3>2
  <2> QED BY <2>1, <2>2 DEF KidTypeOK
<1>3. ASSUME NEW c \in Children, Child(c) PROVE KidTypeOK'
  <2> USE <1>3 DEF KidTypeOK, Child, Install, Orphan, WarmUp, EndWarmUp, ReadStart, Sample,
          Rescale, FinishTiming, CoolDown, ReadResult, Reply, ReadExit, Benchmark, SayReady
  <2>1. kid' \in [Children -> KidPCs] /\ st' \in [Children -> KidStates]
    BY DEF KidPCs, LivePCs, KidStates, Send, Goto, ChildExits
  <2>2. need' \in [Children -> {0, 1}] /\ ktermed' \in [Children -> BOOLEAN]
        /\ ran' \in [Children -> BOOLEAN]
    OBVIOUS
  <2>3. kterm' \in [Children -> {"benchmp_sigterm", "benchmp_child_sigterm"}]
    OBVIOUS
  <2>4. n' \in [Children -> Nat] /\ rescaled' \in [Children -> 0 .. MaxRescale]
    BY BoundAssumption
  <2> QED BY <2>1, <2>2, <2>3, <2>4
<1>4. CASE Environment
  BY <1>4 DEF Environment, PipeFails, PidsFail, ForkFails, BuffersFail, Sigterm, Kill,
     Crash, ChildExits, KidTypeOK, KidPCs
<1>5. CASE UNCHANGED vars
  BY <1>5 DEF vars, KidTypeOK
<1> QED BY <1>1, <1>2, <1>3, <1>4, <1>5 DEF Next, Terminating, Parent

LEMMA TypeStep == TypeInv /\ [Next]_vars => TypeInv'
  BY ParentTypeStep, SignalTypeStep, PipeTypeStep, KidTypeStep DEF TypeInv, TypeOK

(* Every variable keeps its type, and no loop of the parent runs past its  *)
(* children, whatever fails (lib_timing.c:228-319, 361-503).               *)
THEOREM TypeCorrect == Spec => []TypeInv
<1>1. Init => TypeInv
  BY InitType
<1>2. TypeInv /\ [Next]_vars => TypeInv'
  BY TypeStep
<1> QED BY <1>1, <1>2, PTL DEF Spec

-----------------------------------------------------------------------------
(* Counting the members of the group.                                      *)
LEMMA MembersType ==
  ASSUME ParentTypeOK
  PROVE  /\ Members \subseteq Children /\ IsFiniteSet(Members)
         /\ Cardinality(Members) = par
<1>1. par \in Nat /\ par >= 1 /\ par <= Parallel
  BY ParallelType DEF ParentTypeOK
<1>2. IsFiniteSet(0 .. par - 1) /\ Cardinality(0 .. par - 1) = par
  <2>1. 0 \in Int /\ par - 1 \in Int /\ ~(0 > par - 1) /\ (par - 1) - 0 + 1 = par
    BY <1>1
  <2> QED BY <2>1, FS_Interval
<1> QED BY <1>1, <1>2, ParallelType DEF Members, Children

(* The parent counts to par exactly when its set is complete.              *)
LEMMA CountOne ==
  ASSUME ParentTypeOK, NEW S \in SUBSET Members, NEW x \in Members, x \notin S,
         Cardinality(S) = i
  PROVE  /\ Cardinality(S \cup {x}) = i + 1
         /\ i + 1 = par => S \cup {x} = Members
<1>1. IsFiniteSet(S)
  BY MembersType, FS_Subset
<1>2. Cardinality(S \cup {x}) = i + 1
  BY <1>1, FS_AddElement
<1>3. S \cup {x} \in SUBSET Members
  OBVIOUS
<1> QED BY <1>2, <1>3, MembersType, FS_Subset

LEMMA InitBarrier == Init => BarrierInv
  BY DEF Init, BarrierInv, Running, Warming, Forking, Asking, SoleReporter, TimeIsComplete

-----------------------------------------------------------------------------
(* The children.                                                           *)

LEMMA ChildSole ==
  ASSUME TypeInv, SoleReporter, NEW c \in Children, Child(c)
  PROVE  SoleReporter'
<1> SUFFICES ASSUME open PROVE SoleReporter'
  BY ChildFrame DEF SoleReporter, childRest
<1> USE ChildFrame DEF TypeInv, TypeOK, KidTypeOK, PipeTypeOK, SoleReporter, Reporting,
        childRest, Messages, Kinds, Signals, ChildExits, Goto, Send
<1>1. CASE Install(c) \/ Orphan(c) \/ EndWarmUp(c) \/ Sample(c) \/ Rescale(c)
           \/ CoolDown(c) \/ Benchmark(c)
  BY <1>1 DEF Install, Orphan, EndWarmUp, Sample, Rescale, CoolDown, Benchmark
<1>2. CASE WarmUp(c) \/ ReadStart(c) \/ FinishTiming(c)
  BY <1>2 DEF WarmUp, ReadStart, FinishTiming, SayReady, Take, Interval
<1>3. CASE ReadResult(c)
  BY <1>3 DEF ReadResult, Take, Readable
<1>4. CASE Reply(c)
  BY <1>4 DEF Reply
<1>5. CASE ReadExit(c)
  BY <1>5 DEF ReadExit, Take
<1> QED BY <1>1, <1>2, <1>3, <1>4, <1>5 DEF Child

(* In every action of a child the received sets stay what they are, as     *)
(* only the parent receives.                                               *)
LEMMA ChildRunning ==
  ASSUME TypeInv, BarrierInv, pc \in Running, NEW c \in Children, Child(c)
  PROVE  open' /\ PhaseInv' /\ \A d \in Children : KidInv(d)'
<1> USE ChildFrame DEF childRest, parentVars
<1>1. open /\ open' /\ PhaseInv /\ (\A d \in Children : KidInv(d))
  BY DEF BarrierInv
<1>2. pc' = pc /\ par' = par /\ i' = i /\ merged' = merged /\ Members' = Members
  BY DEF Members
<1>3. pc # "dead" /\ ~Orphaned
  BY DEF Running, Warming, Forking, Asking, Orphaned
<1>4. /\ \A d \in Children \ {c} :
           /\ kid'[d] = kid[d] /\ st'[d] = st[d] /\ need'[d] = need[d]
           /\ response'[<<"ready", d>>] = response[<<"ready", d>>]
           /\ response'[<<"done", d>>] = response[<<"done", d>>]
           /\ response'[<<"results", d>>] = response[<<"results", d>>]
  <2> USE DEF TypeInv, TypeOK, KidTypeOK, PipeTypeOK, Messages, Child, Install, Orphan, WarmUp,
          EndWarmUp, ReadStart, Sample, Rescale, FinishTiming, CoolDown, ReadResult, Reply,
          ReadExit, Benchmark, SayReady, Send, Goto, ChildExits
  <2>1. \A d \in Children \ {c} : kid'[d] = kid[d] /\ st'[d] = st[d] /\ need'[d] = need[d]
    OBVIOUS
  <2>2. \A d \in Children \ {c} : \A k \in Kinds : response'[<<k, d>>] = response[<<k, d>>]
    OBVIOUS
  <2> QED BY <2>1, <2>2 DEF Kinds
<1>5. \A d \in Children \ {c} : KidInv(d)'
  <2> SUFFICES ASSUME NEW d \in Children \ {c} PROVE KidInv(d)'
    OBVIOUS
  <2>1. KidInv(d)
    BY <1>1
  <2> QED BY <2>1, <1>2, <1>4 DEF KidInv
<1>6. c \in Members /\ kid[c] # "none"
  BY <1>1 DEF KidInv, Child, Install, Orphan, WarmUp, EndWarmUp, ReadStart, Sample, Rescale,
     FinishTiming, CoolDown, ReadResult, Reply, ReadExit, Benchmark, Interval
<1>7. /\ \A d \in Children : <<"ready", d>> \in Messages /\ <<"done", d>> \in Messages
                             /\ <<"results", d>> \in Messages
      /\ response \in [Messages -> Nat]
  BY DEF Messages, Kinds, TypeInv, TypeOK, PipeTypeOK
<1>8. /\ response[<<"ready", c>>] \in Nat /\ response[<<"done", c>>] \in Nat
      /\ response[<<"results", c>>] \in Nat
  BY <1>7
<1>9. KidInv(c)' /\ PhaseInv'
  <2> USE <1>1, <1>2, <1>3, <1>4, <1>6, <1>7, <1>8 DEF TypeInv, TypeOK, KidTypeOK, PipeTypeOK,
          Signals, KidInv, ChildExits, Goto, Send, Interval
  <2>1. CASE Install(c) \/ Sample(c) \/ Rescale(c) \/ CoolDown(c) \/ Benchmark(c)
    <3>1. UNCHANGED <<response, bytes, st, need>>
      BY <2>1 DEF Install, Sample, Rescale, CoolDown, Benchmark, sampleVars, ktermVars
    <3>2. KidInv(c)'
      BY <2>1, <3>1 DEF Install, Sample, Rescale, CoolDown, Benchmark
    <3>3. GotReady' = GotReady /\ GotDone' = GotDone /\ GotResults' = GotResults
      BY <3>1 DEF GotReady, GotDone, GotResults
    <3>4. \A d \in Children : Reporting(d)' => Reporting(d)
      BY <2>1, <3>1 DEF Install, Sample, Rescale, CoolDown, Benchmark, Reporting
    <3> QED BY <3>1, <3>2, <3>3, <3>4 DEF PhaseInv
  <2>2. CASE WarmUp(c) \/ ReadStart(c)
    <3>1. UNCHANGED st /\ bytes'["result"] = bytes["result"]
          /\ (pc \in Warming => bytes'["start"] = bytes["start"])
      BY <2>2 DEF WarmUp, ReadStart, Take, Readable, PhaseInv
    <3>2. CASE need[c] = 1
      <4>1. /\ response' = [response EXCEPT ![<<"ready", c>>] = @ + 1]
            /\ need' = [need EXCEPT ![c] = 0] /\ kid'[c] = "benchmark"
        BY <2>2, <3>2 DEF WarmUp, ReadStart, SayReady
      <4>2. /\ response[<<"ready", c>>] = 0 /\ response'[<<"ready", c>>] = 1
            /\ response'[<<"done", c>>] = response[<<"done", c>>]
            /\ response'[<<"results", c>>] = response[<<"results", c>>]
        BY <3>2, <4>1
      <4>3. need'[c] = 0 /\ kid[c] \in {"interval", "readStart"} /\ st'[c] = st[c]
        BY <2>2, <3>1, <4>1 DEF WarmUp, ReadStart
      <4>4. KidInv(c)'
        BY <4>1, <4>2, <4>3
      <4>5. GotReady' = GotReady /\ GotDone' = GotDone /\ GotResults' = GotResults
        BY <3>1, <3>2, <4>1 DEF GotReady, GotDone, GotResults
      <4>6. \A d \in Children : Reporting(d)' => Reporting(d)
        BY <4>1 DEF Reporting
      <4> QED BY <3>1, <4>4, <4>5, <4>6 DEF PhaseInv
    <3>3. CASE need[c] # 1
      <4>1. UNCHANGED <<need, response>> /\ kid'[c] = "benchmark"
        BY <2>2, <3>3 DEF WarmUp, ReadStart, SayReady
      <4>2. KidInv(c)'
        BY <2>2, <3>1, <4>1 DEF WarmUp, ReadStart
      <4>3. GotReady' = GotReady /\ GotDone' = GotDone /\ GotResults' = GotResults
        BY <3>1, <4>1 DEF GotReady, GotDone, GotResults
      <4>4. \A d \in Children : Reporting(d)' => Reporting(d)
        BY <4>1 DEF Reporting
      <4> QED BY <3>1, <4>2, <4>3, <4>4 DEF PhaseInv
    <3> QED BY <3>2, <3>3
  <2>3. CASE EndWarmUp(c)
    <3>1. pc \notin Warming /\ need[c] = 0
      <4>1. bytes["start"] > 0
        BY <2>3 DEF EndWarmUp, Readable
      <4>2. pc \notin Warming
        BY <4>1 DEF PhaseInv
      <4>3. GotReady = Members
        BY <4>2 DEF PhaseInv, Warming
      <4> QED BY <4>2, <4>3 DEF GotReady
    <3>2. /\ UNCHANGED <<response, bytes, need>> /\ kid'[c] = "readStart"
          /\ st[c] = "warmup" /\ st'[c] = "timing_interval"
      BY <2>3 DEF EndWarmUp
    <3>3. KidInv(c)'
      BY <2>3, <3>1, <3>2 DEF EndWarmUp
    <3>4. \A d \in Members : st'[d] = "cooldown" <=> st[d] = "cooldown"
      BY <3>2, MembersType
    <3>5. GotReady' = GotReady /\ GotDone' = GotDone /\ GotResults' = GotResults
      BY <3>2, <3>4 DEF GotReady, GotDone, GotResults
    <3>6. \A d \in Children : Reporting(d)' => Reporting(d)
      BY <3>2 DEF Reporting
    <3> QED BY <3>1, <3>2, <3>3, <3>5, <3>6 DEF PhaseInv
  <2>4. CASE FinishTiming(c)
    <3>1. /\ response' = [response EXCEPT ![<<"done", c>>] = @ + 1]
          /\ UNCHANGED <<need, bytes>> /\ kid'[c] = "benchmark"
          /\ st[c] = "timing_interval" /\ st'[c] = "cooldown"
      BY <2>4 DEF FinishTiming
    <3>2. pc \notin Warming
      BY <3>1 DEF PhaseInv
    <3>3. KidInv(c)'
      BY <3>1, <2>4 DEF FinishTiming
    <3>4. /\ \A d \in Members : response'[<<"ready", d>>] = response[<<"ready", d>>]
          /\ \A d \in Members \ {c} : /\ response'[<<"done", d>>] = response[<<"done", d>>]
                                     /\ st'[d] = st[d]
          /\ response'[<<"done", c>>] = 1
      BY <3>1, MembersType
    <3>5. GotReady' = GotReady /\ GotDone' = GotDone /\ GotResults' = GotResults
      BY <3>1, <3>4 DEF GotReady, GotDone, GotResults
    <3>6. \A d \in Children : Reporting(d)' => Reporting(d)
      BY <3>1 DEF Reporting
    <3> QED BY <3>1, <3>2, <3>3, <3>5, <3>6 DEF PhaseInv
  <2>5. CASE ReadResult(c)
    <3>1. bytes["result"] > 0 /\ pc = "result"
      BY <2>5 DEF ReadResult, Take, Readable, PhaseInv
    <3>2. /\ UNCHANGED <<response, need, st>> /\ kid'[c] = "reply"
          /\ kid[c] = "readResult"
      BY <2>5 DEF ReadResult
    <3>3. KidInv(c)'
      BY <3>2
    <3>4. GotReady' = GotReady /\ GotDone' = GotDone /\ GotResults' = GotResults
      BY <3>2 DEF GotReady, GotDone, GotResults
    <3> QED BY <3>1, <3>3, <3>4 DEF PhaseInv, Warming, Forking
  <2>6. CASE Reply(c)
    <3>1. kid[c] = "reply" /\ pc = "result"
      BY <2>6 DEF Reply, PhaseInv, Reporting
    <3>2. /\ response' = [response EXCEPT ![<<"results", c>>] = @ + 1]
          /\ UNCHANGED <<need, st, bytes>> /\ kid'[c] = "readExit"
      BY <2>6 DEF Reply
    <3>3. response[<<"results", c>>] = 0 /\ merged[c] # 1
      <4>1. response[<<"results", c>>] \in Nat
        OBVIOUS
      <4> QED BY <3>1, <4>1
    <3>4. KidInv(c)'
      BY <3>1, <3>2, <3>3
    <3>5. GotReady' = GotReady /\ GotDone' = GotDone /\ GotResults' = GotResults
      BY <3>2 DEF GotReady, GotDone, GotResults
    <3> QED BY <3>1, <3>4, <3>5 DEF PhaseInv, Warming, Forking
  <2>7. CASE ReadExit(c) \/ Orphan(c)
    <3>1. /\ UNCHANGED <<response, need, st>> /\ kid'[c] = "exited"
          /\ kid[c] = "readExit"
      BY <2>7 DEF ReadExit, Orphan
    <3>2. bytes'["start"] = bytes["start"] /\ bytes'["result"] = bytes["result"]
      BY <2>7 DEF ReadExit, Orphan, Take
    <3>3. KidInv(c)'
      BY <3>1
    <3>4. GotReady' = GotReady /\ GotDone' = GotDone /\ GotResults' = GotResults
      BY <3>1 DEF GotReady, GotDone, GotResults
    <3>5. \A d \in Children : Reporting(d)' => Reporting(d)
      BY <3>1 DEF Reporting
    <3> QED BY <3>2, <3>1, <3>3, <3>4, <3>5 DEF PhaseInv
  <2> QED BY <1>4, <2>1, <2>2, <2>3, <2>4, <2>5, <2>6, <2>7, ChildFrame DEF Child
<1> QED BY <1>1, <1>5, <1>9
-----------------------------------------------------------------------------
(* The parent.                                                             *)

(* A step that takes children away and leaves the pipes alone cannot make  *)
(* a second reporter.                                                      *)
LEMMA SoleFewer ==
  ASSUME SoleReporter, TypeInv, UNCHANGED response, bytes'["result"] = bytes["result"],
         open' => open, \A c \in Children : kid'[c] = "reply" => kid[c] = "reply"
  PROVE  SoleReporter'
  BY DEF SoleReporter, Reporting

LEMMA SetsFrame ==
  ASSUME UNCHANGED <<response, need, st, merged, par>>
  PROVE  /\ GotReady' = GotReady /\ GotDone' = GotDone /\ GotResults' = GotResults
         /\ Members' = Members
  BY DEF GotReady, GotDone, GotResults, Members

(* SIGTERM for a child, and waiting for one.                               *)
LEMMA TerminateKid ==
  ASSUME KidTypeOK, NEW c \in Children, Terminate(c)
  PROVE  \A d \in Children : kid'[d] = "reply" => kid[d] = "reply"
  BY DEF KidTypeOK, Terminate, ChildExits, chldVars

LEMMA OutsideStep ==
  ASSUME TypeInv, BarrierInv,
         \/ Call \/ Return \/ KillForked \/ WaitForked \/ ParentNotices \/ KillAll
         \/ WaitAll \/ WaitChild \/ Alarm \/ AllWaited
  PROVE  BarrierInv'
<1> USE DEF parentVars, pipeVars, kidVars
<1>1. pc' \notin Running
  BY DEF Call, Return, KillForked, WaitForked, ParentNotices, KillAll, WaitAll, WaitChild,
     Alarm, AllWaited, ErrorExit, Running, Warming, Forking, Asking
<1>2. SoleReporter'
  <2>1. UNCHANGED response /\ bytes' = bytes /\ (open' => open)
    BY DEF Call, Return, KillForked, WaitForked, ParentNotices, KillAll, WaitAll, WaitChild,
       Alarm, AllWaited, TypeInv, TypeOK, FlagTypeOK
  <2>2. \A c \in Children : kid'[c] = "reply" => kid[c] = "reply"
    <3>1. CASE KillForked \/ KillAll \/ Alarm
      BY <3>1, IndexInChildren, TerminateKid
         DEF KillForked, KillAll, Alarm, TypeInv, TypeOK, ParentTypeOK
    <3>2. CASE WaitForked \/ WaitAll \/ WaitChild
      BY <3>2, IndexInChildren
         DEF WaitForked, WaitAll, WaitChild, Reap, TypeInv, TypeOK, KidTypeOK
    <3>3. CASE Call \/ Return \/ ParentNotices \/ AllWaited
      BY <3>3 DEF Call, Return, ParentNotices, AllWaited
    <3> QED BY <3>1, <3>2, <3>3
  <2> QED BY <2>1, <2>2, SoleFewer DEF BarrierInv
<1>3. (time = "measured" => pc \in {"reap", "return", "idle", "dead"})' /\ TimeIsComplete'
  <2>1. CASE Call \/ Return
    BY <2>1 DEF Call, Return, BarrierInv, TimeIsComplete, Members
  <2>2. CASE \/ KillForked \/ WaitForked \/ ParentNotices \/ KillAll
             \/ WaitAll \/ WaitChild \/ Alarm \/ AllWaited
    <3>1. UNCHANGED <<time, par, merged>>
      BY <2>2 DEF KillForked, WaitForked, ParentNotices, KillAll, WaitAll, WaitChild,
         Alarm, AllWaited
    <3>2. time = "measured" => pc = "reap"
      BY <2>2 DEF KillForked, WaitForked, ParentNotices, KillAll, WaitAll, WaitChild,
         Alarm, AllWaited, BarrierInv
    <3>3. time' = "measured" => pc' \in {"reap", "return"}
      BY <2>2, <3>1, <3>2 DEF KillForked, WaitForked, ParentNotices, KillAll, WaitAll,
         WaitChild, Alarm, AllWaited
    <3> QED BY <3>1, <3>3 DEF BarrierInv, TimeIsComplete, Members
  <2> QED BY <2>1, <2>2
<1> QED BY <1>1, <1>2, <1>3 DEF BarrierInv

LEMMA BeginStep ==
  ASSUME TypeInv, BarrierInv, Prologue \/ ForkTest \/ Fork \/ EnterParent
  PROVE  BarrierInv'
<1> USE DEF parentVars, pipeVars, kidVars
<1>1. CASE Prologue
  <2>1. time' # "measured"
    BY <1>1 DEF Prologue, BarrierInv
  <2>2. \A c \in Children : /\ <<"ready", c>> \in Messages /\ <<"done", c>> \in Messages
                           /\ <<"results", c>> \in Messages
    BY DEF Messages, Kinds
  <2>3. /\ \A c \in Children : /\ kid'[c] = "none" /\ need'[c] = 1 /\ st'[c] = "warmup"
                              /\ merged'[c] = 0 /\ response'[<<"ready", c>>] = 0
                              /\ response'[<<"done", c>>] = 0
                              /\ response'[<<"results", c>>] = 0
        /\ bytes'["start"] = 0 /\ bytes'["result"] = 0 /\ open' /\ pc' = "fork"
    BY <1>1, <2>2 DEF Prologue, Signals
  <2>8. \A c \in Children : ~Reporting(c)'
    <3> SUFFICES ASSUME NEW c \in Children PROVE ~Reporting(c)'
      OBVIOUS
    <3>1. kid'[c] = "none" /\ response'[<<"results", c>>] = 0
      BY <2>3
    <3> QED BY <3>1 DEF Reporting
  <2>4. \A c \in Children : KidInv(c)'
    <3> SUFFICES ASSUME NEW c \in Children PROVE KidInv(c)'
      OBVIOUS
    <3> QED BY <2>3 DEF KidInv
  <2>5. GotReady' = {}
    BY <2>3, TypeStep, MembersType, <1>1 DEF GotReady, Prologue, Members, TypeInv, TypeOK
  <2>6. PhaseInv'
    BY <2>3, <2>5, <2>8 DEF PhaseInv, Warming, Forking, Asking, Running
  <2>9. bytes'["result"] = 0 /\ \A c \in Children : kid'[c] # "reply"
    BY <2>3
  <2>7. SoleReporter'
    BY <2>8, <2>9 DEF SoleReporter
  <2> QED BY <2>1, <2>3, <2>4, <2>6, <2>7 DEF BarrierInv, TimeIsComplete
<1>2. CASE ForkTest \/ Fork \/ EnterParent
  <2>1. /\ pc \in Forking /\ UNCHANGED <<response, bytes, open, need, st, merged, par, time>>
        /\ pc' \in {"forking", "killForked", "fork", "ready", "killAll"}
    BY <1>2 DEF ForkTest, Fork, EnterParent, ErrorExit, Forking
  <2>2. open /\ PhaseInv /\ (\A c \in Children : KidInv(c)) /\ time # "measured"
    BY <2>1 DEF BarrierInv, Running, Warming, Forking
  <2>3. \A c \in Children : kid'[c] = kid[c] \/ (c = i /\ i < par /\ kid'[c] = "initialize")
    BY <1>2 DEF ForkTest, Fork, EnterParent, TypeInv, TypeOK, KidTypeOK, IndexOK
  <2>4. \A c \in Children : KidInv(c)'
    <3> SUFFICES ASSUME NEW c \in Children PROVE KidInv(c)'
      OBVIOUS
    <3>1. KidInv(c) /\ Members' = Members
      BY <2>1, <2>2 DEF Members
    <3>2. st[c] = "warmup" /\ merged[c] = 0 /\ bytes["result"] = 0 /\ ~Reporting(c)
      BY <2>1, <2>2 DEF PhaseInv, Running, Warming, Forking
    <3>3. kid'[c] = "initialize" => c \in Members \/ kid'[c] = kid[c]
      BY <2>3 DEF Members, TypeInv, TypeOK, ParentTypeOK
    <3>4. response[<<"results", c>>] = 0
      <4>1. response[<<"results", c>>] \in Nat
        BY DEF TypeInv, TypeOK, PipeTypeOK, Messages, Kinds
      <4> QED BY <3>2, <4>1 DEF Reporting
    <3> QED BY <2>1, <2>3, <3>1, <3>2, <3>3, <3>4 DEF KidInv
  <2>5. PhaseInv' \/ pc' \notin Running
    <3>1. \A c \in Children : Reporting(c)' => Reporting(c)
      BY <2>1, <2>3 DEF Reporting
    <3>2. GotReady' = {} /\ GotDone' = GotDone /\ GotResults' = GotResults
      BY <2>1, <2>2, SetsFrame DEF PhaseInv
    <3>3. pc' = "ready" => i' = 0
      BY <1>2 DEF ForkTest, Fork, EnterParent, ErrorExit
    <3> QED BY <2>1, <2>2, <3>1, <3>2, <3>3, FS_EmptySet
            DEF PhaseInv, Running, Warming, Forking, Asking
  <2>6. SoleReporter'
    BY <2>1, <2>3, SoleFewer DEF BarrierInv
  <2> QED BY <2>1, <2>2, <2>4, <2>5, <2>6 DEF BarrierInv, TimeIsComplete
<1> QED BY <1>1, <1>2

(* What a received message m is, while only kind k can be in the pipe.     *)
LEMMA ReceiveOne ==
  ASSUME TypeInv, NEW m \in Messages, Receive(m), NEW k \in Kinds,
         \A c \in Children : \A j \in Kinds \ {k} : response[<<j, c>>] = 0
  PROVE  \E c \in Children :
            /\ m = <<k, c>> /\ response[m] > 0
            /\ response' = [response EXCEPT ![<<k, c>>] = @ - 1]
<1>1. PICK j \in Kinds, c \in Children : m = <<j, c>>
  BY DEF Messages
<1>2. response[<<j, c>>] > 0
  BY <1>1 DEF Receive
<1>3. j = k
  BY <1>2
<1> QED BY <1>1, <1>2, <1>3 DEF Receive

LEMMA ReceiveEffect ==
  ASSUME TypeInv, NEW k \in Kinds, NEW c \in Children,
         response' = [response EXCEPT ![<<k, c>>] = @ - 1],
         NEW j \in Kinds, NEW d \in Children
  PROVE  response'[<<j, d>>] = IF j = k /\ d = c THEN response[<<k, c>>] - 1
                                               ELSE response[<<j, d>>]
<1>1. response \in [Messages -> Nat] /\ <<k, c>> \in Messages /\ <<j, d>> \in Messages
  BY DEF TypeInv, TypeOK, PipeTypeOK, Messages
<1> QED BY <1>1

LEMMA MessageType ==
  ASSUME TypeInv, NEW c \in Children
  PROVE  /\ <<"ready", c>> \in Messages /\ <<"done", c>> \in Messages
         /\ <<"results", c>> \in Messages
         /\ response[<<"ready", c>>] \in Nat /\ response[<<"done", c>>] \in Nat
         /\ response[<<"results", c>>] \in Nat /\ merged[c] \in Nat
<1>1. <<"ready", c>> \in Messages /\ <<"done", c>> \in Messages /\ <<"results", c>> \in Messages
  BY DEF Messages, Kinds
<1> QED BY <1>1 DEF TypeInv, TypeOK, PipeTypeOK, ParentTypeOK

LEMMA CollectReadyStep ==
  ASSUME TypeInv, BarrierInv, CollectReady
  PROVE  BarrierInv'
<1> USE DEF parentVars, kidVars
<1>1. /\ pc = "ready" /\ open /\ PhaseInv /\ (\A c \in Children : KidInv(c)) /\ time # "measured"
      /\ SoleReporter
  BY DEF CollectReady, BarrierInv, Running, Warming
<1>2. /\ UNCHANGED <<open, bytes, kid, need, st, merged, par, time>> /\ i' = i + 1
      /\ pc' = IF i + 1 = par THEN "start" ELSE "ready"
      /\ Members' = Members
  BY DEF CollectReady, Members
<1>3. \A c \in Children : st[c] = "warmup" /\ ~Reporting(c) /\ merged[c] = 0
  BY <1>1 DEF PhaseInv, Warming, Running
<1>4. PICK c \in Children : /\ response[<<"ready", c>>] > 0
                           /\ response' = [response EXCEPT ![<<"ready", c>>] = @ - 1]
  <2>1. \A d \in Children : \A j \in Kinds \ {"ready"} : response[<<j, d>>] = 0
    <3> SUFFICES ASSUME NEW d \in Children
                 PROVE  response[<<"done", d>>] = 0 /\ response[<<"results", d>>] = 0
      BY DEF Kinds
    <3>1. KidInv(d) /\ ~Reporting(d) /\ st[d] = "warmup"
      BY <1>1, <1>3
    <3> QED BY <3>1, MessageType DEF KidInv, Reporting
  <2>2. PICK m \in Messages : Receive(m)
    BY DEF CollectReady
  <2> QED BY <2>1, <2>2, ReceiveOne DEF Kinds
<1>5. need[c] = 0 /\ response[<<"ready", c>>] = 1 /\ c \in Members
  <2>1. KidInv(c) /\ response[<<"ready", c>>] \in Nat /\ need[c] \in {0, 1}
    BY <1>1, MessageType DEF TypeInv, TypeOK, KidTypeOK
  <2> QED BY <2>1, <1>4 DEF KidInv
<1>6. /\ response'[<<"ready", c>>] = 0
      /\ \A d \in Children : /\ d # c => response'[<<"ready", d>>] = response[<<"ready", d>>]
                            /\ response'[<<"done", d>>] = response[<<"done", d>>]
                            /\ response'[<<"results", d>>] = response[<<"results", d>>]
  <2>1. \A j \in Kinds, d \in Children :
           response'[<<j, d>>] = IF j = "ready" /\ d = c THEN response[<<"ready", c>>] - 1
                                                      ELSE response[<<j, d>>]
    BY <1>4, ReceiveEffect DEF Kinds
  <2> QED BY <2>1, <1>5 DEF Kinds
<1>7. \A d \in Children : KidInv(d)'
  <2> SUFFICES ASSUME NEW d \in Children PROVE KidInv(d)'
    OBVIOUS
  <2>1. KidInv(d)
    BY <1>1
  <2>2. response'[<<"ready", d>>] <= 1 /\ (need[d] = 1 => response'[<<"ready", d>>] = 0)
    BY <2>1, <1>5, <1>6 DEF KidInv
  <2> QED BY <2>1, <2>2, <1>2, <1>6 DEF KidInv
<1>8. /\ c \notin GotReady /\ GotReady \in SUBSET Members /\ Cardinality(GotReady) = i
      /\ GotReady' = GotReady \cup {c}
  <2>1. \A d \in Members \ {c} : response'[<<"ready", d>>] = response[<<"ready", d>>]
    BY <1>6, MembersType DEF TypeInv, TypeOK
  <2> QED BY <1>1, <1>2, <1>5, <1>6, <2>1 DEF GotReady, PhaseInv
<1>9. Cardinality(GotReady') = i' /\ (pc' = "start" => GotReady' = Members')
  BY <1>2, <1>5, <1>8, CountOne DEF TypeInv, TypeOK
<1>10. \A d \in Children : ~Reporting(d)'
  <2> SUFFICES ASSUME NEW d \in Children PROVE ~Reporting(d)'
    OBVIOUS
  <2>1. ~Reporting(d)
    BY <1>3
  <2> QED BY <2>1, <1>2, <1>6 DEF Reporting
<1>11. PhaseInv'
  BY <1>1, <1>2, <1>3, <1>9, <1>10 DEF PhaseInv, Running, Warming, Forking, Asking
<1>12. SoleReporter'
  <2>1. bytes'["result"] = 0 /\ \A d \in Children : kid'[d] # "reply"
    BY <1>1, <1>2, <1>3 DEF PhaseInv, Running, Warming, Reporting
  <2> QED BY <2>1, <1>10 DEF SoleReporter
<1> QED BY <1>1, <1>2, <1>7, <1>11, <1>12 DEF BarrierInv, TimeIsComplete

LEMMA CollectDoneStep ==
  ASSUME TypeInv, BarrierInv, CollectDone
  PROVE  BarrierInv'
<1> USE DEF parentVars, kidVars
<1>1. /\ pc = "done" /\ open /\ PhaseInv /\ (\A c \in Children : KidInv(c)) /\ time # "measured"
      /\ SoleReporter
  BY DEF CollectDone, BarrierInv, Running, Warming
<1>2. /\ UNCHANGED <<open, bytes, kid, need, st, merged, par, time>>
      /\ IF i + 1 = par THEN pc' = "askResult" /\ i' = 0 ELSE pc' = "done" /\ i' = i + 1
      /\ Members' = Members
  BY DEF CollectDone, Members
<1>3. /\ \A c \in Children : ~Reporting(c) /\ merged[c] = 0
      /\ GotReady = Members
  BY <1>1 DEF PhaseInv, Warming, Running, Forking
<1>4. PICK c \in Children : /\ response[<<"done", c>>] > 0
                           /\ response' = [response EXCEPT ![<<"done", c>>] = @ - 1]
  <2>1. \A d \in Children : \A j \in Kinds \ {"done"} : response[<<j, d>>] = 0
    <3> SUFFICES ASSUME NEW d \in Children
                 PROVE  response[<<"ready", d>>] = 0 /\ response[<<"results", d>>] = 0
      BY DEF Kinds
    <3>1. KidInv(d) /\ ~Reporting(d)
      BY <1>1, <1>3
    <3>2. response[<<"ready", d>>] = 0
      BY <3>1, <1>3 DEF KidInv, GotReady
    <3>3. response[<<"results", d>>] \in Nat
      BY MessageType
    <3> QED BY <3>1, <3>2, <3>3 DEF Reporting
  <2>2. PICK m \in Messages : Receive(m)
    BY DEF CollectDone
  <2> QED BY <2>1, <2>2, ReceiveOne DEF Kinds
<1>5. st[c] = "cooldown" /\ response[<<"done", c>>] = 1 /\ c \in Members
  <2>1. KidInv(c) /\ response[<<"done", c>>] \in Nat
    BY <1>1, MessageType
  <2> QED BY <2>1, <1>4 DEF KidInv
<1>6. /\ response'[<<"done", c>>] = 0
      /\ \A d \in Children : /\ d # c => response'[<<"done", d>>] = response[<<"done", d>>]
                            /\ response'[<<"ready", d>>] = response[<<"ready", d>>]
                            /\ response'[<<"results", d>>] = response[<<"results", d>>]
  <2>1. \A j \in Kinds, d \in Children :
           response'[<<j, d>>] = IF j = "done" /\ d = c THEN response[<<"done", c>>] - 1
                                                     ELSE response[<<j, d>>]
    BY <1>4, ReceiveEffect DEF Kinds
  <2> QED BY <2>1, <1>5 DEF Kinds
<1>7. \A d \in Children : KidInv(d)'
  <2> SUFFICES ASSUME NEW d \in Children PROVE KidInv(d)'
    OBVIOUS
  <2>1. KidInv(d)
    BY <1>1
  <2>2. response'[<<"done", d>>] <= 1 /\ (st[d] # "cooldown" => response'[<<"done", d>>] = 0)
    BY <2>1, <1>5, <1>6 DEF KidInv
  <2> QED BY <2>1, <2>2, <1>2, <1>6 DEF KidInv
<1>8. /\ c \notin GotDone /\ GotDone \in SUBSET Members /\ Cardinality(GotDone) = i
      /\ GotDone' = GotDone \cup {c} /\ GotReady' = GotReady
  <2>1. \A d \in Members : /\ d # c => response'[<<"done", d>>] = response[<<"done", d>>]
                           /\ response'[<<"ready", d>>] = response[<<"ready", d>>]
    BY <1>6, MembersType DEF TypeInv, TypeOK
  <2>2. GotReady' = GotReady
    BY <2>1, <1>2 DEF GotReady
  <2>3. c \notin GotDone
    BY <1>5 DEF GotDone
  <2>4. GotDone' = GotDone \cup {c}
    <3> DEFINE in(d) == st[d] = "cooldown" /\ response'[<<"done", d>>] = 0
    <3>1. GotDone' = {d \in Members : in(d)}
      BY <1>2 DEF GotDone
    <3>2. in(c)
      BY <1>5, <1>6
    <3>3. \A d \in Members \ {c} : in(d) <=> d \in GotDone
      BY <2>1 DEF GotDone
    <3> HIDE DEF in
    <3> QED BY <3>1, <3>2, <3>3, <1>5 DEF GotDone
  <2> QED BY <1>1, <2>2, <2>3, <2>4 DEF GotDone, PhaseInv
<1>9. /\ pc' = "done" => Cardinality(GotDone') = i'
      /\ pc' = "askResult" => GotDone' = Members'
  BY <1>2, <1>5, <1>8, CountOne DEF TypeInv, TypeOK
<1>10. \A d \in Children : ~Reporting(d)'
  <2> SUFFICES ASSUME NEW d \in Children PROVE ~Reporting(d)'
    OBVIOUS
  <2>1. ~Reporting(d)
    BY <1>3
  <2> QED BY <2>1, <1>2, <1>6 DEF Reporting
<1>11. GotResults' = {} /\ Cardinality(GotResults') = 0
  <2>1. \A d \in Members : merged[d] = 0
    BY <1>3, MembersType DEF TypeInv, TypeOK
  <2> QED BY <2>1, <1>2, FS_EmptySet DEF GotResults
<1>12. PhaseInv'
  BY <1>1, <1>2, <1>3, <1>8, <1>9, <1>10, <1>11 DEF PhaseInv, Running, Warming, Forking, Asking
<1>13. SoleReporter'
  <2>1. bytes'["result"] = 0 /\ \A d \in Children : kid'[d] # "reply"
    BY <1>1, <1>2, <1>3 DEF PhaseInv, Running, Warming, Reporting
  <2> QED BY <2>1, <1>10 DEF SoleReporter
<1> QED BY <1>1, <1>2, <1>7, <1>12, <1>13 DEF BarrierInv, TimeIsComplete

LEMMA CollectResultStep ==
  ASSUME TypeInv, BarrierInv, CollectResult
  PROVE  BarrierInv'
<1> USE DEF kidVars
<1>1. /\ pc = "result" /\ open /\ PhaseInv /\ (\A c \in Children : KidInv(c)) /\ time # "measured"
      /\ SoleReporter
  BY DEF CollectResult, BarrierInv, Running, Asking
<1>2. /\ UNCHANGED <<open, bytes, kid, need, st, par, time>> /\ i' = i + 1
      /\ pc' = IF i + 1 = par THEN "exit" ELSE "askResult"
      /\ Members' = Members
  BY DEF CollectResult, Members
<1>3. GotReady = Members /\ GotDone = Members /\ Cardinality(GotResults) = i
  BY <1>1 DEF PhaseInv, Asking, Running, Forking, Warming
<1>4. PICK c \in Children : /\ response[<<"results", c>>] > 0
                           /\ response' = [response EXCEPT ![<<"results", c>>] = @ - 1]
                           /\ merged' = [merged EXCEPT ![c] = @ + 1]
  <2>1. \A d \in Children : \A j \in Kinds \ {"results"} : response[<<j, d>>] = 0
    <3> SUFFICES ASSUME NEW d \in Children
                 PROVE  response[<<"ready", d>>] = 0 /\ response[<<"done", d>>] = 0
      BY DEF Kinds
    <3>1. KidInv(d)
      BY <1>1
    <3> QED BY <3>1, <1>3 DEF KidInv, GotReady, GotDone
  <2>2. PICK m \in Messages : Receive(m) /\ merged' = [merged EXCEPT ![m[2]] = @ + 1]
    BY DEF CollectResult
  <2>3. PICK c \in Children : /\ m = <<"results", c>> /\ response[m] > 0
                             /\ response' = [response EXCEPT ![<<"results", c>>] = @ - 1]
    BY <2>1, <2>2, ReceiveOne DEF Kinds
  <2>4. m[2] = c
    BY <2>3
  <2> QED BY <2>2, <2>3, <2>4
<1>5. /\ c \in Members /\ response[<<"results", c>>] = 1 /\ merged[c] = 0
      /\ kid[c] \in {"readExit", "exited", "reaped"}
  <2>1. KidInv(c) /\ response[<<"results", c>>] \in Nat /\ merged[c] \in Nat
    BY <1>1, MessageType
  <2> QED BY <2>1, <1>4 DEF KidInv
<1>6. /\ response'[<<"results", c>>] = 0
      /\ \A d \in Children : /\ d # c => response'[<<"results", d>>] = response[<<"results", d>>]
                            /\ response'[<<"ready", d>>] = response[<<"ready", d>>]
                            /\ response'[<<"done", d>>] = response[<<"done", d>>]
  <2>1. \A j \in Kinds, d \in Children :
           response'[<<j, d>>] = IF j = "results" /\ d = c THEN response[<<"results", c>>] - 1
                                                        ELSE response[<<j, d>>]
    BY <1>4, ReceiveEffect DEF Kinds
  <2> QED BY <2>1, <1>5 DEF Kinds
<1>7. merged'[c] = 1 /\ \A d \in Children \ {c} : merged'[d] = merged[d]
  BY <1>4, <1>5 DEF TypeInv, TypeOK, ParentTypeOK
<1>8. \A d \in Children : KidInv(d)'
  <2> SUFFICES ASSUME NEW d \in Children PROVE KidInv(d)'
    OBVIOUS
  <2>1. KidInv(d)
    BY <1>1
  <2>2. CASE d = c
    BY <2>1, <2>2, <1>2, <1>5, <1>6, <1>7 DEF KidInv
  <2>3. CASE d # c
    BY <2>1, <2>3, <1>2, <1>6, <1>7 DEF KidInv
  <2> QED BY <2>2, <2>3
<1>9. GotReady' = GotReady /\ GotDone' = GotDone
  <2>1. \A d \in Members : /\ response'[<<"ready", d>>] = response[<<"ready", d>>]
                           /\ response'[<<"done", d>>] = response[<<"done", d>>]
    BY <1>6, MembersType DEF TypeInv, TypeOK
  <2> QED BY <2>1, <1>2 DEF GotReady, GotDone
<1>10. c \notin GotResults /\ GotResults \in SUBSET Members /\ GotResults' = GotResults \cup {c}
  <2>1. \A d \in Members : d # c => merged'[d] = merged[d]
    BY <1>7, MembersType DEF TypeInv, TypeOK
  <2> QED BY <2>1, <1>2, <1>5, <1>7 DEF GotResults
<1>11. Cardinality(GotResults') = i' /\ (pc' = "exit" => GotResults' = Members')
  BY <1>2, <1>3, <1>5, <1>10, CountOne DEF TypeInv, TypeOK
<1>12. bytes'["result"] = 0 /\ \A d \in Children : ~Reporting(d)'
  <2>1. Reporting(c) /\ bytes["result"] \in Nat
    BY <1>4 DEF Reporting, TypeInv, TypeOK, PipeTypeOK, Signals
  <2>2. bytes["result"] = 0
    BY <2>1, <1>1 DEF SoleReporter
  <2> SUFFICES ASSUME NEW d \in Children PROVE ~Reporting(d)'
    BY <2>2, <1>2
  <2>3. CASE d = c
    BY <2>3, <1>2, <1>5, <1>6 DEF Reporting
  <2>4. CASE d # c
    <3>1. ~Reporting(d)
      BY <2>1, <2>4, <1>1 DEF SoleReporter
    <3> QED BY <3>1, <2>4, <1>2, <1>6 DEF Reporting
  <2> QED BY <2>3, <2>4
<1>13. PhaseInv'
  BY <1>2, <1>3, <1>9, <1>11, <1>12 DEF PhaseInv, Running, Warming, Forking, Asking
<1>14. SoleReporter'
  <2>1. \A d \in Children : kid'[d] # "reply"
    BY <1>12 DEF Reporting
  <2> QED BY <2>1, <1>12 DEF SoleReporter
<1> QED BY <1>1, <1>2, <1>8, <1>13, <1>14 DEF BarrierInv, TimeIsComplete

(* The steps that write to a barrier pipe, when somebody can read it.      *)
LEMMA SignalStep ==
  ASSUME TypeInv, BarrierInv, SendStart \/ AskResult
  PROVE  BarrierInv'
<1> USE DEF parentVars, kidVars
<1>1. /\ pc \in {"start", "askResult"} /\ open /\ PhaseInv /\ (\A c \in Children : KidInv(c))
      /\ time # "measured" /\ SoleReporter
  BY DEF SendStart, AskResult, BarrierInv, Running, Warming, Asking
<1>2. /\ UNCHANGED <<response, kid, need, st, merged, par, time>> /\ Members' = Members
      /\ GotReady' = GotReady /\ GotDone' = GotDone /\ GotResults' = GotResults
  BY SetsFrame DEF SendStart, AskResult
<1>3. \A c \in Children : ~Reporting(c) /\ ~Reporting(c)'
  BY <1>1, <1>2 DEF PhaseInv, Running, Warming, Asking, Reporting
<1>4. bytes["result"] = 0 /\ GotReady = Members
  BY <1>1 DEF PhaseInv, Running, Warming, Asking, Forking
<1>5. CASE Broken
  <2>1. pc' = "dead" /\ bytes' = bytes
    BY <1>5 DEF SendStart, AskResult, Signal, ParentDies
  <2>2. SoleReporter'
    <3>1. \A c \in Children : kid'[c] # "reply"
      BY <1>3 DEF Reporting
    <3> QED BY <2>1, <1>3, <1>4, <3>1 DEF SoleReporter
  <2> QED BY <2>1, <2>2, <1>1, <1>2
          DEF BarrierInv, TimeIsComplete, Running, Warming, Forking, Asking
<1>6. CASE ~Broken /\ SendStart
  <2>1. /\ pc = "start" /\ pc' = "done" /\ i' = 0 /\ UNCHANGED open
        /\ bytes'["result"] = bytes["result"]
    BY <1>6 DEF SendStart, Signal, TypeInv, TypeOK, PipeTypeOK, Signals
  <2>2. (\A c \in Children : st[c] = "warmup") /\ (\A c \in Children : merged[c] = 0)
    BY <2>1, <1>1 DEF PhaseInv, Warming
  <2>3. GotDone' = {} /\ Cardinality(GotDone') = 0
    <3>1. \A c \in Members : st'[c] = "warmup"
      BY <2>2, <1>2, MembersType DEF TypeInv, TypeOK
    <3> QED BY <3>1, <1>2, FS_EmptySet DEF GotDone
  <2>4. PhaseInv'
    BY <2>1, <2>2, <2>3, <1>2, <1>3, <1>4 DEF PhaseInv, Running, Warming, Forking, Asking
  <2>5. \A c \in Children : KidInv(c)'
    BY <1>1, <1>2 DEF KidInv
  <2>6. SoleReporter'
    BY <2>1, <1>1, <1>2, SoleFewer
  <2> QED BY <2>1, <2>4, <2>5, <2>6, <1>1, <1>2 DEF BarrierInv, TimeIsComplete
<1>7. CASE ~Broken /\ AskResult
  <2>1. /\ pc = "askResult" /\ pc' = "result" /\ i' = i /\ UNCHANGED open
        /\ bytes'["result"] = 1
    BY <1>4, <1>7 DEF AskResult, Signal, TypeInv, TypeOK, PipeTypeOK, Signals
  <2>2. GotDone = Members /\ Cardinality(GotResults) = i
    BY <2>1, <1>1 DEF PhaseInv, Asking
  <2>3. PhaseInv'
    BY <2>1, <2>2, <1>2, <1>4 DEF PhaseInv, Running, Warming, Forking, Asking
  <2>4. \A c \in Children : KidInv(c)'
    BY <1>1, <1>2 DEF KidInv
  <2>5. SoleReporter'
    <3>1. \A c \in Children : kid'[c] # "reply"
      BY <1>3 DEF Reporting
    <3> QED BY <2>1, <1>3, <3>1 DEF SoleReporter
  <2> QED BY <2>1, <2>3, <2>4, <2>5, <1>1, <1>2 DEF BarrierInv, TimeIsComplete
<1> QED BY <1>5, <1>6, <1>7

LEMMA SendExitStep ==
  ASSUME TypeInv, BarrierInv, SendExit
  PROVE  BarrierInv'
<1> USE DEF kidVars
<1>1. pc = "exit" /\ PhaseInv /\ time # "measured" /\ SoleReporter
  BY DEF SendExit, BarrierInv, Running
<1>2. /\ UNCHANGED <<response, kid, merged, par>> /\ pc' \in {"reap", "dead"}
      /\ open' = FALSE /\ (pc' = "dead" => time' = time)
  BY DEF SendExit, ParentDies
<1>3. \A c \in Members : merged[c] = 1
  BY <1>1 DEF PhaseInv, GotResults
<1>4. TimeIsComplete' /\ (time = "measured" => pc \in {"reap", "return", "idle", "dead"})'
  BY <1>2, <1>3 DEF TimeIsComplete, Members
<1>5. SoleReporter'
  BY <1>2 DEF SoleReporter
<1> QED BY <1>2, <1>4, <1>5 DEF BarrierInv, Running, Warming, Forking, Asking

-----------------------------------------------------------------------------
(* The environment.                                                        *)

LEMMA CrashStep ==
  ASSUME TypeInv, BarrierInv, NEW c \in Children, Crash(c)
  PROVE  BarrierInv'
<1> USE DEF parentVars, pipeVars
<1>1. /\ UNCHANGED <<pc, i, open, response, bytes, need, st, merged, par, time>>
      /\ kid[c] \in LivePCs /\ kid'[c] = "exited"
      /\ \A d \in Children \ {c} : kid'[d] = kid[d]
  BY DEF Crash, Live, ChildExits, TypeInv, TypeOK, KidTypeOK
<1>2. /\ GotReady' = GotReady /\ GotDone' = GotDone /\ GotResults' = GotResults
      /\ Members' = Members
  BY <1>1, SetsFrame
<1>3. \A d \in Children : Reporting(d)' => Reporting(d)
  BY <1>1 DEF Reporting
<1>4. SoleReporter'
  BY <1>1, SoleFewer DEF BarrierInv
<1>5. PhaseInv => PhaseInv'
  BY <1>1, <1>2, <1>3 DEF PhaseInv
<1>6. \A d \in Children : KidInv(d) => KidInv(d)'
  BY <1>1, <1>2 DEF KidInv, LivePCs
<1> QED BY <1>1, <1>2, <1>4, <1>5, <1>6 DEF BarrierInv, TimeIsComplete

LEMMA FaultStep ==
  ASSUME TypeInv, BarrierInv,
         \/ PipeFails \/ PidsFail \/ ForkFails \/ BuffersFail \/ Sigterm \/ Kill
  PROVE  BarrierInv'
<1> USE DEF parentVars, pipeVars, kidVars
<1>1. /\ UNCHANGED <<i, response, bytes, kid, need, st, merged, par, time>>
      /\ pc' \in {"return", "killForked", "reap", "dead", pc}
      /\ open' = open \/ (open' = FALSE /\ pc' = "dead")
  BY DEF PipeFails, PidsFail, ForkFails, BuffersFail, Sigterm, Kill, ParentDies
<1>2. SoleReporter'
  BY <1>1, SoleFewer DEF BarrierInv, TypeInv, TypeOK, FlagTypeOK
<1>3. pc' \in Running => pc' = pc /\ open' = open
  BY <1>1 DEF Running, Warming, Forking, Asking
<1>4. /\ GotReady' = GotReady /\ GotDone' = GotDone /\ GotResults' = GotResults
      /\ Members' = Members
  BY <1>1, SetsFrame
<1>5. pc' = pc => /\ PhaseInv => PhaseInv'
                  /\ \A c \in Children : KidInv(c) => KidInv(c)'
  BY <1>1, <1>4 DEF PhaseInv, KidInv, Reporting
<1>6. (time = "measured" => pc \in {"reap", "return", "idle", "dead"})'
  BY <1>1 DEF PipeFails, PidsFail, ForkFails, BuffersFail, Sigterm, Kill, ParentDies, BarrierInv
<1> QED BY <1>1, <1>2, <1>3, <1>4, <1>5, <1>6 DEF BarrierInv, TimeIsComplete

-----------------------------------------------------------------------------
LEMMA BarrierStep == TypeInv /\ BarrierInv /\ [Next]_vars => BarrierInv'
<1> SUFFICES ASSUME TypeInv, BarrierInv, [Next]_vars PROVE BarrierInv'
  OBVIOUS
<1>1. CASE Parent \/ Alarm
  BY <1>1, OutsideStep, BeginStep, CollectReadyStep, CollectDoneStep, CollectResultStep,
     SignalStep, SendExitStep DEF Parent
<1>2. ASSUME NEW c \in Children, Child(c) PROVE BarrierInv'
  <2>1. SoleReporter'
    BY <1>2, ChildSole DEF BarrierInv
  <2>2. UNCHANGED <<pc, par, time, merged>>
    BY <1>2, ChildFrame DEF childRest, parentVars
  <2>3. pc \in Running => open' /\ PhaseInv' /\ \A d \in Children : KidInv(d)'
    BY <1>2, ChildRunning
  <2> QED BY <2>1, <2>2, <2>3 DEF BarrierInv, TimeIsComplete, Members
<1>3. CASE Environment
  BY <1>3, CrashStep, FaultStep DEF Environment
<1>4. CASE UNCHANGED vars
  BY <1>4 DEF vars, parentVars, pipeVars, kidVars, BarrierInv, SoleReporter, TimeIsComplete,
     Members, Reporting, PhaseInv, KidInv, GotReady, GotDone, GotResults
<1> QED BY <1>1, <1>2, <1>3, <1>4 DEF Next, Terminating

(* The barrier invariant holds for every number of children, calls, faults *)
(* and samples (lib_timing.c:152-514, 659-772).                            *)
THEOREM BarrierCorrect == Spec => []BarrierInv
<1>1. Init => BarrierInv
  BY InitBarrier
<1>2. TypeInv /\ BarrierInv /\ [Next]_vars => BarrierInv'
  BY BarrierStep
<1> QED BY <1>1, <1>2, TypeCorrect, PTL DEF Spec

(* The response pipe belongs to one child at a time, whatever fails        *)
(* (lib_timing.c:449, 755-756).                                            *)
THEOREM SoleReporterCorrect == Spec => []SoleReporter
<1>1. BarrierInv => SoleReporter
  BY DEF BarrierInv
<1> QED BY <1>1, BarrierCorrect, PTL

(* A published time rests on exactly one report of every child             *)
(* (lib_timing.c:479-493).                                                 *)
THEOREM TimeIsCompleteCorrect == Spec => []TimeIsComplete
<1>1. BarrierInv => TimeIsComplete
  BY DEF BarrierInv
<1> QED BY <1>1, BarrierCorrect, PTL

(* What the parent may find of one child, phase by phase.                  *)
LEMMA MessagesInPhase ==
  ASSUME TypeInv, BarrierInv, NEW c \in Children
  PROVE  /\ response[<<"ready", c>>] > 0 => pc \notin {"done", "askResult", "result"}
         /\ response[<<"done", c>>] > 0 => pc \notin {"ready", "start", "askResult", "result"}
         /\ response[<<"results", c>>] > 0 => pc \notin {"ready", "start", "done"}
<1> SUFFICES ASSUME pc \in {"ready", "start", "done", "askResult", "result"}
             PROVE  /\ response[<<"ready", c>>] > 0 => pc \notin {"done", "askResult", "result"}
                    /\ response[<<"done", c>>] > 0 =>
                           pc \notin {"ready", "start", "askResult", "result"}
                    /\ response[<<"results", c>>] > 0 => pc \notin {"ready", "start", "done"}
  OBVIOUS
<1>1. PhaseInv /\ KidInv(c)
  BY DEF BarrierInv, Running, Warming, Asking
<1>2. c \notin Members => response[<<"ready", c>>] = 0 /\ response[<<"done", c>>] = 0
  BY <1>1 DEF KidInv
<1>3. pc \in {"done", "askResult", "result"} => response[<<"ready", c>>] = 0
  <2>1. pc \in {"done", "askResult", "result"} => GotReady = Members
    BY <1>1 DEF PhaseInv, Running, Warming, Asking, Forking
  <2>2. c \in GotReady => response[<<"ready", c>>] = 0
    BY DEF GotReady
  <2> QED BY <1>2, <2>1, <2>2
<1>4. pc \in {"ready", "start"} => response[<<"done", c>>] = 0
  <2>1. pc \in {"ready", "start"} => st[c] = "warmup"
    BY <1>1 DEF PhaseInv, Warming
  <2> QED BY <1>1, <2>1 DEF KidInv
<1>5. pc \in {"askResult", "result"} => response[<<"done", c>>] = 0
  <2>1. pc \in {"askResult", "result"} => GotDone = Members
    BY <1>1 DEF PhaseInv, Asking
  <2>2. c \in GotDone => response[<<"done", c>>] = 0
    BY DEF GotDone
  <2> QED BY <1>2, <2>1, <2>2
<1>6. pc \in {"ready", "start", "done"} => ~Reporting(c)
  BY <1>1 DEF PhaseInv, Running, Warming
<1> QED BY <1>3, <1>4, <1>5, <1>6 DEF Reporting

(* Every read of the response pipe finds only its own phase's messages     *)
(* (lib_timing.c:361-479).                                                 *)
THEOREM ResponseInPhaseCorrect == Spec => []ResponseInPhase
<1>1. TypeInv /\ BarrierInv => ResponseInPhase
  <2> SUFFICES ASSUME TypeInv, BarrierInv, NEW k \in Kinds, NEW c \in Children,
                      response[<<k, c>>] > 0
               PROVE  /\ pc \in {"ready", "start"} => k = "ready"
                      /\ pc = "done" => k = "done"
                      /\ pc \in {"askResult", "result"} => k = "results"
    BY DEF ResponseInPhase, Messages
  <2>1. k \in {"ready", "done", "results"}
    BY DEF Kinds
  <2> QED BY <2>1, MessagesInPhase
<1> QED BY <1>1, TypeCorrect, BarrierCorrect, PTL
=============================================================================

-------------------------- MODULE BenchmpGroupProof --------------------------
(***************************************************************************)
(* What the children of benchmp() owe one another, for any number of       *)
(* children, calls and faults: nobody is left behind, nobody is taken for  *)
(* a failure without one, siblings are under load while one measures, and  *)
(* no sibling takes the byte another one waits for.  They follow from      *)
(* GroupInv, which is inductive beside TypeInv and BarrierInv.             *)
(***************************************************************************)
EXTENDS BenchmpBarrierProof

Gone(c) == kid[c] \in {"none", "reaped"}

(* Which children there may be: the loop index tells the parent.           *)
StrayInv ==
    /\ pc \in {"idle", "prologue", "return"} => \A c \in Children : Gone(c)
    /\ pc \in Forking => \A c \in Children : kid[c] = "none" <=> c >= i
    /\ pc \in {"killForked", "waitForked", "reap"} =>
           \A c \in Children : c >= i => Gone(c)
    /\ pc \in {"killAll", "waitAll"} =>
           \A c \in Children : c >= par \/ c < i => Gone(c)
    /\ pc \in Running \ Forking => \A c \in Members : kid[c] # "none"
    /\ pc = "dead" /\ ~faulted => Broken

(* A child that is gone has been noticed, and only a fault takes one away  *)
(* before the exit signals are written.                                    *)
QuietInv ==
    /\ pc \in Running =>
           /\ termed \/ chlded => faulted
           /\ \A c \in Children : ktermed[c] => faulted
           /\ \A c \in Children : kid[c] \in {"exited", "reaped"} => chlded
           /\ chlded \/ sigchld = "benchmp_sigchld"
    /\ NoSpuriousError

(* How far a child can be while the parent still holds the pipes: no       *)
(* further than the bytes that have been written let it.                   *)
OrderOf(c) ==
    /\ kid[c] = "initialize" => need[c] = 1
    /\ need[c] = 1 => st[c] = "warmup"
    /\ kid[c] = "readStart" => st[c] = "timing_interval"
    /\ kid[c] \in {"readResult", "reply", "readExit"} => st[c] = "cooldown"
    /\ response[<<"results", c>>] > 0 => kid[c] \in {"readExit", "exited", "reaped"}
    /\ bytes["start"] > 0 /\ Live(c) => need[c] = 0
    /\ bytes["result"] > 0 /\ Live(c) => st[c] = "cooldown"
    /\ pc \in Warming \cup {"done"} => kid[c] \notin {"readResult", "reply", "readExit"}

OrderInv ==
    /\ pc \in Running \cup ErrorPCs => open
    /\ pc = "dead" => ~open
    /\ open => bytes["exit"] = 0 /\ \A c \in Children : OrderOf(c)

(* Once the parent has closed the pipes only children on their way out are *)
(* left; it waits with open pipes only after a fault.                      *)
LeavingInv ==
    /\ pc = "reap" /\ open => faulted
    /\ pc = "reap" /\ ~open => \A c \in Children :
           Live(c) => kid[c] = "readExit" /\ st[c] = "cooldown" /\ ~Reporting(c)

GroupInv == StrayInv /\ QuietInv /\ OrderInv /\ LeavingInv

LEMMA InitGroup == Init => GroupInv
  BY DEF Init, GroupInv, StrayInv, QuietInv, OrderInv, LeavingInv, NoSpuriousError, Gone,
     Running, Warming, Forking, Asking, ErrorPCs

-----------------------------------------------------------------------------
(* What the kinds of step do to the children.                              *)

LEMMA ChildLive ==
  ASSUME NEW c \in Children, Child(c)
  PROVE  Live(c)
  BY DEF Child, Install, Orphan, WarmUp, EndWarmUp, ReadStart, Sample, Rescale,
     FinishTiming, CoolDown, ReadResult, Reply, ReadExit, Benchmark, Interval, Live, LivePCs

LEMMA ChildAlone ==
  ASSUME TypeInv, NEW c \in Children, Child(c)
  PROVE  /\ kid'[c] \in LivePCs \cup {"exited"} /\ kid'[c] # "initialize"
         /\ \A d \in Children \ {c} :
               /\ kid'[d] = kid[d] /\ st'[d] = st[d] /\ need'[d] = need[d]
               /\ \A k \in Kinds : response'[<<k, d>>] = response[<<k, d>>]
         /\ UNCHANGED ktermed
<1> USE DEF TypeInv, TypeOK, KidTypeOK, PipeTypeOK, Messages, Child, Install, Orphan, WarmUp,
        EndWarmUp, ReadStart, Sample, Rescale, FinishTiming, CoolDown, ReadResult, Reply,
        ReadExit, Benchmark, SayReady, Send, Goto, ChildExits
<1>1. \A d \in Children \ {c} : kid'[d] = kid[d] /\ st'[d] = st[d] /\ need'[d] = need[d]
  OBVIOUS
<1>2. \A d \in Children \ {c} : \A k \in Kinds : response'[<<k, d>>] = response[<<k, d>>]
  OBVIOUS
<1>3. kid'[c] \in LivePCs \cup {"exited"} /\ kid'[c] # "initialize"
  BY DEF LivePCs
<1>4. UNCHANGED ktermed
  BY DEF ktermVars
<1> QED BY <1>1, <1>2, <1>3, <1>4

(* SIGTERM from the parent ends one running child or none.                 *)
LEMMA TerminateEffect ==
  ASSUME TypeInv, NEW c \in Children, Terminate(c)
  PROVE  \A d \in Children : \/ kid'[d] = kid[d]
                             \/ d = c /\ Live(c) /\ kid'[c] = "exited"
  BY DEF TypeInv, TypeOK, KidTypeOK, Terminate, ChildExits

LEMMA ReapEffect ==
  ASSUME TypeInv, NEW c \in Children, Reap(c)
  PROVE  /\ kid[c] \in {"exited", "reaped"} /\ kid'[c] = "reaped"
         /\ \A d \in Children \ {c} : kid'[d] = kid[d]
  BY DEF TypeInv, TypeOK, KidTypeOK, Reap

(* The parent's steps that leave the children alone.                       *)
KidsStay ==
    \/ Call \/ ForkTest \/ EnterParent \/ ParentNotices \/ CollectReady \/ SendStart
    \/ CollectDone \/ AskResult \/ CollectResult \/ SendExit \/ AllWaited \/ Return
    \/ PipeFails \/ PidsFail \/ ForkFails \/ BuffersFail \/ Sigterm \/ Kill

LEMMA StayFrame ==
  ASSUME KidsStay
  PROVE  UNCHANGED <<kid, st, need, ktermed>>
  BY DEF KidsStay, Call, ForkTest, EnterParent, ParentNotices, CollectReady, SendStart,
     CollectDone, AskResult, CollectResult, SendExit, AllWaited, Return, PipeFails, PidsFail,
     ForkFails, BuffersFail, Sigterm, Kill, kidVars, ktermVars

-----------------------------------------------------------------------------
(* Nobody is left behind.                                                  *)

LEMMA StayStray ==
  ASSUME TypeInv, BarrierInv, StrayInv, KidsStay
  PROVE  StrayInv'
<1> USE StayFrame, ParallelType
        DEF StrayInv, Gone, Running, Warming, Forking, Asking, parentVars, faultVars, Members
<1>1. CASE Call \/ ForkTest \/ AllWaited \/ Return
  BY <1>1 DEF Call, ForkTest, AllWaited, Return, TypeInv, TypeOK, IndexOK, ParentTypeOK, Children
<1>2. ASSUME pc \in Running, NEW c \in Children, c >= par PROVE kid[c] = "none"
  <2>1. par \in Nat /\ c \in Int /\ c \notin Members /\ KidInv(c)
    BY <1>2 DEF Children, TypeInv, TypeOK, ParentTypeOK, BarrierInv
  <2> QED BY <2>1 DEF KidInv
<1>3. CASE EnterParent
  BY <1>2, <1>3 DEF EnterParent, ErrorExit, Children, TypeInv, TypeOK, ParentTypeOK
<1>4. CASE ParentNotices
  BY <1>2, <1>4 DEF ParentNotices, ErrorExit, Children
<1>5. CASE CollectReady \/ CollectDone \/ CollectResult
  BY <1>5 DEF CollectReady, CollectDone, CollectResult
<1>6. CASE SendStart \/ AskResult \/ SendExit
  BY <1>2, <1>6 DEF SendStart, AskResult, SendExit, Signal, ParentDies, Broken, Live
<1>7. CASE PipeFails \/ PidsFail \/ ForkFails \/ BuffersFail \/ Sigterm \/ Kill
  BY <1>7 DEF PipeFails, PidsFail, ForkFails, BuffersFail, Sigterm, Kill, Fault, ParentDies
<1> QED BY <1>1, <1>3, <1>4, <1>5, <1>6, <1>7 DEF KidsStay

LEMMA StrayStep ==
  ASSUME TypeInv, BarrierInv, StrayInv, [Next]_vars
  PROVE  StrayInv'
<1> USE DEF StrayInv, Gone, Running, Warming, Forking, Asking
<1>1. CASE KidsStay
  BY <1>1, StayStray
<1>2. CASE Prologue
  <2>1. pc' = "fork" /\ i' = 0 /\ \A c \in Children : kid'[c] = "none" /\ c >= 0
    BY <1>2, ParallelType DEF Prologue, Children
  <2> QED BY <2>1 DEF Children
<1>3. CASE Fork
  <2>1. /\ pc = "forking" /\ pc' = "fork" /\ i \in Nat /\ i \in Children /\ i' = i + 1
        /\ kid' = [kid EXCEPT ![i] = "initialize"]
    BY <1>3, IndexInChildren, ParallelType DEF Fork, Children, TypeInv, TypeOK
  <2>2. \A c \in Children : /\ c # i => kid'[c] = kid[c]
                            /\ kid'[i] = "initialize"
                            /\ c >= i + 1 => c # i /\ c >= i
                            /\ c < i + 1 => c = i \/ c < i
    BY <2>1 DEF TypeInv, TypeOK, KidTypeOK, Children
  <2> QED BY <2>1, <2>2
<1>4. CASE KillForked \/ KillAll \/ Alarm
  <2>1. \A d \in Children : Gone(d) => Gone(d)'
    <3>1. CASE KillForked
      BY <3>1, IndexInChildren, TerminateEffect DEF KillForked, TypeInv, TypeOK, ParentTypeOK,
         Live, LivePCs
    <3>2. CASE KillAll
      BY <3>2, IndexInChildren, TerminateEffect DEF KillAll, TypeInv, TypeOK, Live, LivePCs
    <3>3. CASE Alarm
      BY <3>3, IndexInChildren, TerminateEffect DEF Alarm, TypeInv, TypeOK, Live, LivePCs
    <3> QED BY <1>4, <3>1, <3>2, <3>3
  <2>2. /\ UNCHANGED <<i, par>>
        /\ \/ pc = "killForked" /\ i = 0 /\ pc' = "return"
           \/ pc = "killForked" /\ pc' = "waitForked"
           \/ pc = "killAll" /\ pc' = "waitAll"
           \/ pc = "reap" /\ pc' = "reap"
    BY <1>4 DEF KillForked, KillAll, Alarm, parentVars
  <2>3. \A c \in Children : c >= 0
    BY DEF Children
  <2> QED BY <2>1, <2>2, <2>3
<1>5. CASE WaitForked \/ WaitAll \/ WaitChild
  <2>1. CASE WaitForked \/ WaitChild
    <3>1. /\ i - 1 \in Children /\ Reap(i - 1) /\ i' = i - 1 /\ i \in Nat
          /\ pc \in {"waitForked", "reap"} /\ pc' \in {"killForked", "reap"}
      BY <2>1, IndexInChildren DEF WaitForked, WaitChild, TypeInv, TypeOK, ParentTypeOK
    <3>2. \A c \in Children : c >= i - 1 => c = i - 1 \/ c >= i
      BY <3>1 DEF Children
    <3> QED BY <3>1, <3>2, ReapEffect
  <2>2. CASE WaitAll
    <3>1. /\ i \in Children /\ Reap(i) /\ i \in Nat /\ par \in Nat /\ pc = "waitAll" /\ par' = par
          /\ \/ i + 1 = par /\ pc' = "reap" /\ i' = par
             \/ i + 1 # par /\ pc' = "killAll" /\ i' = i + 1
      BY <2>2, IndexInChildren DEF WaitAll, TypeInv, TypeOK, ParentTypeOK, parentVars
    <3>2. \A c \in Children : c < i + 1 => c = i \/ c < i
      BY <3>1 DEF Children
    <3> QED BY <3>1, <3>2, ReapEffect
  <2> QED BY <1>5, <2>1, <2>2
<1>6. ASSUME NEW c \in Children, Child(c) PROVE StrayInv'
  <2>1. UNCHANGED <<pc, i, par, faulted>> /\ Members' = Members /\ Members \subseteq Children
    BY <1>6, ChildFrame, MembersType
       DEF childRest, parentVars, faultVars, Members, TypeInv, TypeOK
  <2>2. \A d \in Children : /\ Gone(d) => Gone(d)'
                            /\ kid'[d] = "none" <=> kid[d] = "none"
    BY <1>6, ChildLive, ChildAlone DEF Live, LivePCs
  <2>3. ~Broken
    BY <1>6, ChildLive DEF Broken
  <2> QED BY <2>1, <2>2, <2>3
<1>7. ASSUME NEW c \in Children, Crash(c) PROVE StrayInv'
  <2>1. UNCHANGED <<pc, i, par>> /\ faulted' /\ Members' = Members /\ Members \subseteq Children
    BY <1>7, MembersType DEF Crash, Fault, parentVars, Members, TypeInv, TypeOK
  <2>2. \A d \in Children : /\ Gone(d) => Gone(d)'
                            /\ kid'[d] = "none" <=> kid[d] = "none"
    BY <1>7 DEF Crash, ChildExits, Live, LivePCs, TypeInv, TypeOK, KidTypeOK
  <2> QED BY <2>1, <2>2
<1>8. CASE UNCHANGED vars
  BY <1>8 DEF vars, parentVars, kidVars, faultVars, Broken, Live, Members
<1> QED BY <1>1, <1>2, <1>3, <1>4, <1>5, <1>6, <1>7, <1>8
        DEF Next, Parent, Environment, Terminating, KidsStay

-----------------------------------------------------------------------------
(* Nobody is taken for a failure without one.                              *)

(* While the measurement runs, a child leaves of its own accord only when  *)
(* it was forked with a SIGTERM pending, and the parent notices.           *)
LEMMA ChildLeaves ==
  ASSUME TypeInv, OrderInv, pc \in Running, NEW c \in Children, Child(c)
  PROVE  \/ UNCHANGED chldVars /\ kid'[c] # "exited"
         \/ ChildExits(c) /\ ktermed[c]
<1>1. open /\ bytes["exit"] = 0 /\ ~Orphaned
  BY DEF OrderInv, Orphaned, Running, Warming, Forking, Asking
<1>2. CASE Install(c)
  BY <1>2 DEF Install, Goto, TypeInv, TypeOK, KidTypeOK
<1>3. CASE WarmUp(c) \/ ReadStart(c)
  BY <1>1, <1>3 DEF WarmUp, ReadStart, SayReady, Send, Goto, TypeInv, TypeOK, KidTypeOK
<1>4. CASE EndWarmUp(c) \/ Sample(c) \/ Rescale(c) \/ CoolDown(c) \/ ReadResult(c) \/ Benchmark(c)
  BY <1>4 DEF EndWarmUp, Sample, Rescale, CoolDown, ReadResult, Benchmark, Goto,
     TypeInv, TypeOK, KidTypeOK
<1>5. CASE FinishTiming(c) \/ Reply(c)
  BY <1>1, <1>5 DEF FinishTiming, Reply, Send, TypeInv, TypeOK, KidTypeOK
<1>6. ~Orphan(c) /\ ~ReadExit(c)
  BY <1>1 DEF Orphan, ReadExit, Take, Readable
<1> QED BY <1>2, <1>3, <1>4, <1>5, <1>6 DEF Child

LEMMA QuietStep ==
  ASSUME TypeInv, QuietInv, OrderInv, [Next]_vars
  PROVE  QuietInv'
<1> USE DEF QuietInv, NoSpuriousError, Running, Warming, Forking, Asking, ErrorPCs
<1>1. CASE KidsStay
  <2> USE <1>1, StayFrame DEF Alert, ErrorExit, signalVars, chldVars, faultVars
  <2>1. CASE Call \/ AllWaited \/ Return
    BY <2>1 DEF Call, AllWaited, Return
  <2>2. CASE ForkTest \/ EnterParent \/ ParentNotices
    BY <2>2 DEF ForkTest, EnterParent, ParentNotices
  <2>3. CASE CollectReady \/ CollectDone \/ CollectResult
    BY <2>3 DEF CollectReady, CollectDone, CollectResult
  <2>4. CASE SendStart \/ AskResult \/ SendExit
    BY <2>4 DEF SendStart, AskResult, SendExit, Signal, ParentDies
  <2>5. CASE PipeFails \/ PidsFail \/ ForkFails \/ BuffersFail
    BY <2>5 DEF PipeFails, PidsFail, ForkFails, BuffersFail, Fault
  <2>6. CASE Sigterm \/ Kill
    BY <2>6 DEF Sigterm, Kill, Fault, ParentDies
  <2> QED BY <2>1, <2>2, <2>3, <2>4, <2>5, <2>6 DEF KidsStay
<1>2. CASE Prologue
  BY <1>2 DEF Prologue, InstallHandlers
<1>3. CASE Fork
  <2>1. /\ pc = "forking" /\ pc' = "fork" /\ i \in Children
        /\ UNCHANGED <<termed, chlded, sigchld, faulted>>
        /\ kid' = [kid EXCEPT ![i] = "initialize"] /\ ktermed' = [ktermed EXCEPT ![i] = termed]
    BY <1>3, IndexInChildren DEF Fork, TypeInv, TypeOK, signalVars, chldVars, faultVars
  <2>2. \A c \in Children : /\ c # i => kid'[c] = kid[c] /\ ktermed'[c] = ktermed[c]
                            /\ kid'[i] = "initialize" /\ ktermed'[i] = termed
    BY <2>1 DEF TypeInv, TypeOK, KidTypeOK
  <2> QED BY <2>1, <2>2
<1>4. CASE \/ KillForked \/ KillAll \/ Alarm \/ WaitForked \/ WaitAll \/ WaitChild
  <2>1. UNCHANGED faulted /\ pc' \notin Running /\ (pc' \in ErrorPCs => pc \in ErrorPCs)
    BY <1>4 DEF KillForked, KillAll, Alarm, WaitForked, WaitAll, WaitChild, faultVars
  <2> QED BY <2>1
<1>5. ASSUME NEW c \in Children, Child(c) PROVE QuietInv'
  <2>1. UNCHANGED <<pc, termed, faulted>>
    BY <1>5, ChildFrame DEF childRest, signalVars, faultVars
  <2> SUFFICES ASSUME pc \in Running PROVE QuietInv'
    BY <2>1
  <2>2. CASE UNCHANGED chldVars /\ kid'[c] # "exited"
    <3>1. \A d \in Children : kid'[d] \in {"exited", "reaped"} => kid[d] \in {"exited", "reaped"}
      BY <1>5, <2>2, ChildAlone DEF LivePCs
    <3>2. UNCHANGED ktermed
      BY <1>5, ChildAlone
    <3> QED BY <2>1, <2>2, <3>1, <3>2 DEF chldVars
  <2>3. CASE ChildExits(c) /\ ktermed[c]
    BY <1>5, <2>1, <2>3, ChildAlone DEF ChildExits, TypeInv, TypeOK, FlagTypeOK
  <2> QED BY <1>5, <2>2, <2>3, ChildLeaves
<1>6. ASSUME NEW c \in Children, Crash(c) PROVE QuietInv'
  BY <1>6 DEF Crash, Fault, ChildExits, ktermVars
<1>7. CASE UNCHANGED vars
  BY <1>7 DEF vars, kidVars, ktermVars, signalVars, chldVars, faultVars
<1> QED BY <1>1, <1>2, <1>3, <1>4, <1>5, <1>6, <1>7
        DEF Next, Parent, Environment, Terminating, KidsStay

-----------------------------------------------------------------------------
(* Nobody is further than the bytes let it.                                *)

(* A child's own step.                                                     *)
LEMMA ChildOrder ==
  ASSUME TypeInv, BarrierInv, OrderInv, open, NEW c \in Children, Child(c)
  PROVE  bytes'["exit"] = 0 /\ OrderOf(c)'
<1>1. /\ UNCHANGED <<pc, open>> /\ bytes["exit"] = 0 /\ OrderOf(c) /\ ~Orphaned
      /\ \A s \in Signals : bytes[s] \in Nat
      /\ response[<<"results", c>>] \in Nat
      /\ <<"results", c>> \in Messages /\ <<"ready", c>> \in Messages /\ <<"done", c>> \in Messages
  BY ChildFrame DEF childRest, OrderInv, Orphaned, TypeInv, TypeOK, PipeTypeOK, Messages, Kinds
<1> USE <1>1 DEF TypeInv, TypeOK, KidTypeOK, PipeTypeOK, OrderOf, Live, LivePCs, Goto, Send,
        ChildExits, Interval, Signals
<1>2. CASE Install(c) \/ Sample(c) \/ Rescale(c) \/ Benchmark(c)
  <2>1. UNCHANGED <<response, bytes, st, need>>
    BY <1>2 DEF Install, Sample, Rescale, Benchmark, sampleVars, ktermVars
  <2>2. kid[c] \in LivePCs /\ kid'[c] \in {"interval", "benchmark", "exited"}
    BY <1>2 DEF Install, Sample, Rescale, Benchmark
  <2>3. kid[c] \notin {"readExit", "exited", "reaped"}
    BY <1>2 DEF Install, Sample, Rescale, Benchmark
  <2> QED BY <2>1, <2>2, <2>3
<1>3. CASE WarmUp(c) \/ ReadStart(c)
  <2>1. UNCHANGED st /\ bytes'["result"] = bytes["result"] /\ bytes'["exit"] = bytes["exit"]
        /\ (bytes'["start"] > 0 => bytes["start"] > 0)
    BY <1>3 DEF WarmUp, ReadStart, Take, Readable
  <2>2. kid'[c] = "benchmark" /\ need'[c] = 0 /\ kid[c] \in {"interval", "readStart"}
    BY <1>3 DEF WarmUp, ReadStart, SayReady
  <2>3. response'[<<"results", c>>] = response[<<"results", c>>]
    BY <1>3 DEF WarmUp, ReadStart, SayReady
  <2> QED BY <2>1, <2>2, <2>3
<1>4. CASE EndWarmUp(c)
  <2>1. bytes["start"] > 0
    BY <1>4 DEF EndWarmUp, Readable
  <2>2. bytes["result"] = 0
    <3>1. st[c] # "cooldown" /\ kid[c] \in LivePCs
      BY <1>4 DEF EndWarmUp
    <3> QED BY <3>1
  <2>3. UNCHANGED <<response, bytes, need>> /\ kid'[c] = "readStart" /\ st'[c] = "timing_interval"
        /\ kid[c] = "interval"
    BY <1>4 DEF EndWarmUp
  <2> QED BY <2>1, <2>2, <2>3
<1>5. CASE FinishTiming(c)
  <2>1. UNCHANGED <<bytes, need>> /\ kid'[c] = "benchmark" /\ st'[c] = "cooldown"
        /\ kid[c] = "interval" /\ st[c] = "timing_interval"
    BY <1>5 DEF FinishTiming
  <2>2. response'[<<"results", c>>] = response[<<"results", c>>]
    BY <1>5 DEF FinishTiming
  <2> QED BY <2>1, <2>2
<1>6. CASE CoolDown(c)
  <2>1. UNCHANGED <<response, bytes, need, st>> /\ kid[c] = "interval" /\ st[c] = "cooldown"
        /\ kid'[c] \in {"readResult", "benchmark"}
        /\ (kid'[c] = "readResult" => bytes["result"] > 0)
    BY <1>6 DEF CoolDown, Readable
  <2>2. bytes["result"] > 0 => pc \notin Warming \cup {"done"}
    BY DEF BarrierInv, PhaseInv, Running, Warming, Forking
  <2> QED BY <2>1, <2>2
<1>7. CASE ReadResult(c)
  <2>1. UNCHANGED <<response, need, st>> /\ kid[c] = "readResult" /\ kid'[c] = "reply"
        /\ bytes'["start"] = bytes["start"] /\ bytes'["exit"] = bytes["exit"]
    BY <1>7 DEF ReadResult, Take
  <2> QED BY <2>1
<1>8. CASE Reply(c)
  <2>1. UNCHANGED <<bytes, need, st>> /\ kid[c] = "reply" /\ kid'[c] = "readExit"
    BY <1>8 DEF Reply
  <2> QED BY <2>1
<1>9. ~ReadExit(c) /\ ~Orphan(c)
  BY DEF ReadExit, Orphan, Take, Readable
<1> QED BY <1>2, <1>3, <1>4, <1>5, <1>6, <1>7, <1>8, <1>9 DEF Child


(* Steps that only take children away, or that the parent makes without    *)
(* writing, leave every other child where it was.                          *)
LEMMA OrderFewer ==
  ASSUME TypeInv, OrderInv, UNCHANGED <<bytes, st, need>>,
         \A m \in Messages : response'[m] > 0 => response[m] > 0,
         \A c \in Children : kid'[c] = kid[c] \/ kid'[c] \in {"exited", "reaped"},
         open' => open, pc' = "dead" => ~open', pc' \in Running \cup ErrorPCs => open',
         pc' \in Warming \cup {"done"} => pc \in Warming \cup {"done"}
  PROVE  OrderInv'
<1> SUFFICES ASSUME open', open, NEW c \in Children PROVE bytes'["exit"] = 0 /\ OrderOf(c)'
  BY DEF OrderInv
<1>1. bytes["exit"] = 0 /\ OrderOf(c)
  BY DEF OrderInv
<1>2. response'[<<"results", c>>] > 0 => response[<<"results", c>>] > 0
  BY DEF Messages, Kinds
<1>3. (pc \in Warming \cup {"done"})' => pc \in Warming \cup {"done"}
  BY DEF Warming, Forking
<1> QED BY <1>1, <1>2, <1>3 DEF OrderOf, Live, LivePCs

LEMMA ReceiveLess ==
  ASSUME TypeInv, NEW k \in Messages, Receive(k)
  PROVE  \A m \in Messages : response'[m] > 0 => response[m] > 0
  BY DEF Receive, TypeInv, TypeOK, PipeTypeOK

(* The three barriers are opened with every child before them.             *)
LEMMA SignalOrder ==
  ASSUME TypeInv, BarrierInv, OrderInv, SendStart \/ AskResult \/ SendExit
  PROVE  OrderInv'
<1> USE DEF OrderInv, Running, Warming, Forking, Asking, ErrorPCs
<1>1. /\ pc \in {"start", "askResult", "exit"} /\ open /\ PhaseInv
      /\ UNCHANGED <<response, kid, st, need>> /\ Members' = Members
  BY DEF SendStart, AskResult, SendExit, BarrierInv, kidVars, Members, parentVars
<1>2. CASE Broken \/ SendExit
  <2>1. open' = FALSE /\ pc' \in {"dead", "reap"}
    BY <1>2 DEF SendStart, AskResult, SendExit, Signal, ParentDies
  <2> QED BY <2>1
<1>3. CASE ~Broken /\ SendStart
  <2>1. /\ pc = "start" /\ pc' = "done" /\ open'
        /\ bytes' = [bytes EXCEPT !["start"] = @ + par]
    BY <1>1, <1>3 DEF SendStart, Signal
  <2>2. bytes'["result"] = bytes["result"] /\ bytes'["exit"] = bytes["exit"]
    BY <2>1 DEF TypeInv, TypeOK, PipeTypeOK, Signals
  <2>3. \A c \in Children : OrderOf(c) /\ (Live(c) => need[c] = 0)
    <3>1. GotReady = Members
      BY <1>1, <2>1 DEF PhaseInv
    <3>2. \A c \in Children : Live(c) => c \in Members
      BY <1>1 DEF BarrierInv, KidInv, Live, LivePCs
    <3> QED BY <1>1, <3>1, <3>2 DEF GotReady
  <2> QED BY <1>1, <2>1, <2>2, <2>3 DEF OrderOf, Live
<1>4. CASE ~Broken /\ AskResult
  <2>1. /\ pc = "askResult" /\ pc' = "result" /\ open'
        /\ bytes' = [bytes EXCEPT !["result"] = @ + 1]
    BY <1>1, <1>4 DEF AskResult, Signal
  <2>2. bytes'["start"] = bytes["start"] /\ bytes'["exit"] = bytes["exit"]
    BY <2>1 DEF TypeInv, TypeOK, PipeTypeOK, Signals
  <2>3. \A c \in Children : OrderOf(c) /\ (Live(c) => st[c] = "cooldown")
    <3>1. GotDone = Members
      BY <1>1, <2>1 DEF PhaseInv
    <3>2. \A c \in Children : Live(c) => c \in Members
      BY <1>1 DEF BarrierInv, KidInv, Live, LivePCs
    <3> QED BY <1>1, <3>1, <3>2 DEF GotDone
  <2> QED BY <1>1, <2>1, <2>2, <2>3 DEF OrderOf, Live
<1> QED BY <1>2, <1>3, <1>4

LEMMA OrderStep ==
  ASSUME TypeInv, BarrierInv, StrayInv, OrderInv, [Next]_vars
  PROVE  OrderInv'
<1>1. CASE KidsStay /\ ~(SendStart \/ AskResult \/ SendExit)
  <2> USE <1>1, StayFrame DEF KidsStay
  <2>1. UNCHANGED bytes /\ \A m \in Messages : response'[m] > 0 => response[m] > 0
    <3>1. CASE CollectReady \/ CollectDone \/ CollectResult
      BY <3>1, ReceiveLess DEF CollectReady, CollectDone, CollectResult
    <3>2. CASE ~(CollectReady \/ CollectDone \/ CollectResult)
      BY <3>2 DEF Call, ForkTest, EnterParent, ParentNotices, AllWaited, Return, PipeFails,
         PidsFail, ForkFails, BuffersFail, Sigterm, Kill, pipeVars
    <3> QED BY <3>1, <3>2
  <2>2. /\ open' => open
        /\ pc' = "dead" => ~open'
        /\ pc' \in Running \cup ErrorPCs => open'
        /\ pc' \in Warming \cup {"done"} => pc \in Warming \cup {"done"}
    <3> USE DEF OrderInv, Running, Warming, Forking, Asking, ErrorPCs, pipeVars
    <3>1. CASE Call \/ ForkTest \/ EnterParent \/ ParentNotices \/ AllWaited \/ Return
      BY <3>1 DEF Call, ForkTest, EnterParent, ParentNotices, AllWaited, Return, ErrorExit
    <3>2. CASE CollectReady \/ CollectDone \/ CollectResult
      BY <3>2 DEF CollectReady, CollectDone, CollectResult
    <3>3. CASE PipeFails \/ PidsFail \/ ForkFails \/ BuffersFail \/ Sigterm \/ Kill
      BY <3>3 DEF PipeFails, PidsFail, ForkFails, BuffersFail, Sigterm, Kill, ParentDies,
         TypeInv, TypeOK, FlagTypeOK
    <3> QED BY <3>1, <3>2, <3>3
  <2> QED BY <2>1, <2>2, OrderFewer
<1>2. CASE SendStart \/ AskResult \/ SendExit
  BY <1>2, SignalOrder
<1>3. CASE Prologue
  <2>1. /\ pc' = "fork" /\ open' /\ \A s \in Signals : bytes'[s] = 0
        /\ \A m \in Messages : response'[m] = 0
        /\ \A c \in Children : kid'[c] = "none" /\ st'[c] = "warmup"
    BY <1>3 DEF Prologue
  <2> QED BY <2>1 DEF OrderInv, OrderOf, Signals, Messages, Kinds, Live, LivePCs
<1>4. CASE Fork
  <2>1. /\ pc = "forking" /\ pc' = "fork" /\ i \in Children /\ open
        /\ UNCHANGED <<open, response, bytes, st, need>>
        /\ kid' = [kid EXCEPT ![i] = "initialize"]
    BY <1>4, IndexInChildren DEF Fork, TypeInv, TypeOK, pipeVars, OrderInv, Running, Warming, Forking
  <2>2. bytes["start"] = 0 /\ bytes["result"] = 0 /\ KidInv(i) /\ ~Reporting(i)
    BY <2>1 DEF BarrierInv, PhaseInv, Running, Warming, Forking
  <2>3. kid[i] = "none" /\ i >= i
    BY <2>1 DEF StrayInv, Forking, Children
  <2>4. need[i] = 1 /\ st[i] = "warmup" /\ response[<<"results", i>>] \in Nat
    BY <2>1, <2>2, <2>3 DEF KidInv, TypeInv, TypeOK, PipeTypeOK, Messages, Kinds
  <2> QED BY <2>1, <2>2, <2>4
          DEF OrderInv, OrderOf, Live, LivePCs, Reporting, TypeInv, TypeOK, KidTypeOK,
              Running, Warming, Forking, ErrorPCs
<1>5. CASE KillForked \/ KillAll \/ Alarm \/ WaitForked \/ WaitAll \/ WaitChild
  <2>1. \A c \in Children : kid'[c] = kid[c] \/ kid'[c] \in {"exited", "reaped"}
    <3>1. CASE KillForked
      BY <3>1, IndexInChildren, TerminateEffect DEF KillForked, TypeInv, TypeOK, ParentTypeOK
    <3>2. CASE KillAll \/ Alarm
      BY <3>2, IndexInChildren, TerminateEffect DEF KillAll, Alarm, TypeInv, TypeOK
    <3>3. CASE WaitForked \/ WaitAll \/ WaitChild
      BY <3>3, IndexInChildren, ReapEffect DEF WaitForked, WaitAll, WaitChild, TypeInv, TypeOK
    <3> QED BY <1>5, <3>1, <3>2, <3>3
  <2>2. /\ UNCHANGED <<bytes, st, need, response>> /\ pc' \notin Running /\ pc' # "dead"
        /\ (open' => open) /\ (pc' \in ErrorPCs => open')
    BY <1>5 DEF KillForked, KillAll, Alarm, WaitForked, WaitAll, WaitChild, pipeVars,
       OrderInv, Running, Warming, Forking, Asking, ErrorPCs, TypeInv, TypeOK, FlagTypeOK
  <2> QED BY <2>1, <2>2, OrderFewer DEF Running
<1>6. ASSUME NEW c \in Children, Child(c) PROVE OrderInv'
  <2>1. UNCHANGED <<pc, open>>
    BY <1>6, ChildFrame DEF childRest
  <2> SUFFICES ASSUME open PROVE bytes'["exit"] = 0 /\ \A d \in Children : OrderOf(d)'
    BY <2>1 DEF OrderInv
  <2>2. bytes'["exit"] = 0 /\ OrderOf(c)'
    BY <1>6, ChildOrder
  <2>3. \A s \in Signals : bytes'[s] > 0 => bytes[s] > 0
    <3>1. bytes' = bytes \/ \E s \in Signals : Take(s)
      BY <1>6 DEF Child, Install, Orphan, WarmUp, EndWarmUp, ReadStart, Sample, Rescale,
         FinishTiming, CoolDown, ReadResult, Reply, ReadExit, Benchmark, Signals
    <3> QED BY <3>1 DEF Take, TypeInv, TypeOK, PipeTypeOK
  <2>4. ASSUME NEW d \in Children \ {c} PROVE OrderOf(d)'
    <3>1. OrderOf(d) /\ kid'[d] = kid[d] /\ st'[d] = st[d] /\ need'[d] = need[d]
          /\ response'[<<"results", d>>] = response[<<"results", d>>]
      BY <1>6, ChildAlone DEF OrderInv, Kinds
    <3> QED BY <2>1, <2>3, <3>1 DEF OrderOf, Live, Signals, Warming, Forking
  <2> QED BY <2>2, <2>4
<1>7. ASSUME NEW c \in Children, Crash(c) PROVE OrderInv'
  <2>1. /\ UNCHANGED <<pc, open, bytes, response, st, need>>
        /\ \A d \in Children : kid'[d] = kid[d] \/ kid'[d] = "exited"
    BY <1>7 DEF Crash, ChildExits, pipeVars, TypeInv, TypeOK, KidTypeOK
  <2> QED BY <2>1, OrderFewer DEF OrderInv
<1>8. CASE UNCHANGED vars
  <2>1. UNCHANGED <<pc, open, bytes, response, st, need, kid>>
    BY <1>8 DEF vars, kidVars, pipeVars
  <2> QED BY <2>1, OrderFewer DEF OrderInv
<1> QED BY <1>1, <1>2, <1>3, <1>4, <1>5, <1>6, <1>7, <1>8
        DEF Next, Parent, Environment, Terminating, KidsStay

-----------------------------------------------------------------------------
(* Who is still there when the pipes are closed.                           *)

(* The parent has every report when it writes the exit signals.            *)
LEMMA ExitLeaving ==
  ASSUME TypeInv, BarrierInv, OrderInv, SendExit
  PROVE  LeavingInv'
<1> USE DEF Running, Warming, Forking, Asking
<1>1. /\ pc = "exit" /\ open /\ PhaseInv /\ open' = FALSE
      /\ UNCHANGED <<kid, st, response>>
  BY DEF SendExit, ParentDies, BarrierInv, kidVars
<1>2. GotResults = Members /\ \A c \in Children : ~Reporting(c) /\ OrderOf(c) /\ KidInv(c)
  BY <1>1 DEF PhaseInv, OrderInv, BarrierInv
<1>3. ASSUME NEW c \in Children, Live(c) PROVE kid[c] = "readExit" /\ st[c] = "cooldown"
  <2>1. c \in Members
    BY <1>2, <1>3 DEF KidInv, Live, LivePCs
  <2>2. merged[c] = 1
    BY <1>2, <2>1 DEF GotResults
  <2> QED BY <1>2, <1>3, <2>2 DEF KidInv, OrderOf, Live, LivePCs
<1> QED BY <1>1, <1>2, <1>3 DEF LeavingInv, Live, Reporting

LEMMA LeavingStep ==
  ASSUME TypeInv, BarrierInv, GroupInv, [Next]_vars
  PROVE  LeavingInv'
<1> USE DEF GroupInv
<1>1. CASE SendExit
  BY <1>1, ExitLeaving
<1>2. CASE KidsStay /\ ~SendExit
  <2>1. pc' = "reap" => faulted' /\ open' = open
    BY <1>2 DEF KidsStay, Call, ForkTest, EnterParent, ParentNotices, CollectReady, SendStart,
       CollectDone, AskResult, CollectResult, AllWaited, Return, PipeFails, PidsFail,
       ForkFails, BuffersFail, Sigterm, Kill, Fault, ErrorExit, Signal, ParentDies, pipeVars
  <2>2. pc' = "reap" /\ ~open => pc = "reap" /\ UNCHANGED response
    BY <1>2 DEF KidsStay, Call, ForkTest, EnterParent, ParentNotices, CollectReady, SendStart,
       CollectDone, AskResult, CollectResult, AllWaited, Return, PipeFails, PidsFail,
       ForkFails, BuffersFail, Sigterm, Kill, ErrorExit, Signal, ParentDies, pipeVars,
       OrderInv, Running, Warming, Forking
  <2> QED BY <1>2, <2>1, <2>2, StayFrame DEF LeavingInv, Live, Reporting
<1>3. CASE Prologue \/ Fork \/ KillForked \/ WaitForked \/ KillAll
  BY <1>3 DEF Prologue, Fork, KillForked, WaitForked, KillAll, LeavingInv
<1>4. CASE WaitAll
  <2>1. /\ pc = "waitAll" /\ i \in Children /\ Reap(i) /\ i \in Nat /\ par \in Nat
        /\ pc' = "reap" => open' = FALSE /\ i + 1 = par
    BY <1>4, IndexInChildren DEF WaitAll, TypeInv, TypeOK, ParentTypeOK
  <2>2. \A c \in Children : i + 1 = par => c = i \/ c < i \/ c >= par
    BY <2>1 DEF Children
  <2>3. pc' = "reap" => \A c \in Children : Gone(c)'
    BY <2>1, <2>2, ReapEffect DEF StrayInv, Gone
  <2> QED BY <2>1, <2>3 DEF LeavingInv, Gone, Live, LivePCs
<1>5. CASE Alarm \/ WaitChild
  <2>1. pc = "reap" /\ UNCHANGED <<open, faulted, st, response>>
    BY <1>5 DEF Alarm, WaitChild, pipeVars, faultVars
  <2>2. \A c \in Children : kid'[c] = kid[c] \/ kid'[c] \in {"exited", "reaped"}
    BY <1>5, IndexInChildren, TerminateEffect, ReapEffect DEF Alarm, WaitChild, TypeInv, TypeOK
  <2> QED BY <2>1, <2>2 DEF LeavingInv, Live, LivePCs, Reporting
<1>6. ASSUME NEW c \in Children, Child(c) PROVE LeavingInv'
  <2>1. UNCHANGED <<pc, open, faulted>>
    BY <1>6, ChildFrame DEF childRest, faultVars
  <2> SUFFICES ASSUME pc = "reap", ~open, NEW d \in Children, Live(d)'
               PROVE  (kid[d] = "readExit" /\ st[d] = "cooldown" /\ ~Reporting(d))'
    BY <2>1 DEF LeavingInv
  <2>2. kid[c] = "readExit"
    BY <1>6, ChildLive DEF LeavingInv
  <2>3. kid'[c] = "exited"
    BY <1>6, <2>2 DEF Child, Install, Orphan, WarmUp, EndWarmUp, ReadStart, Sample, Rescale,
       FinishTiming, CoolDown, ReadResult, Reply, ReadExit, Benchmark, Interval, ChildExits,
       TypeInv, TypeOK, KidTypeOK
  <2>4. d # c
    BY <2>3 DEF Live, LivePCs
  <2>5. kid'[d] = kid[d] /\ st'[d] = st[d] /\ response'[<<"results", d>>] = response[<<"results", d>>]
    BY <1>6, <2>4, ChildAlone DEF Kinds
  <2> QED BY <2>5 DEF LeavingInv, Live, Reporting
<1>7. ASSUME NEW c \in Children, Crash(c) PROVE LeavingInv'
  <2>1. /\ UNCHANGED <<pc, open, response, st>> /\ faulted'
        /\ \A d \in Children : kid'[d] = kid[d] \/ kid'[d] = "exited"
    BY <1>7 DEF Crash, Fault, ChildExits, pipeVars, TypeInv, TypeOK, KidTypeOK
  <2> QED BY <2>1 DEF LeavingInv, Live, LivePCs, Reporting
<1>8. CASE UNCHANGED vars
  BY <1>8 DEF vars, kidVars, pipeVars, faultVars, LeavingInv, Live, Reporting
<1> QED BY <1>1, <1>2, <1>3, <1>4, <1>5, <1>6, <1>7, <1>8
        DEF Next, Parent, Environment, Terminating, KidsStay

(* Where the children of benchmp() can be, for every number of children,   *)
(* calls and faults (lib_timing.c:152-514, 659-772).                       *)
THEOREM GroupCorrect == Spec => []GroupInv
<1>1. Init => GroupInv
  BY InitGroup
<1>2. TypeInv /\ BarrierInv /\ GroupInv /\ [Next]_vars => GroupInv'
  BY StrayStep, QuietStep, OrderStep, LeavingStep DEF GroupInv
<1> QED BY <1>1, <1>2, TypeCorrect, BarrierCorrect, PTL DEF Spec

(* benchmp() leaves no child behind, neither running nor a zombie          *)
(* (lib_timing.c:286-289, 309-319, 500-503).                               *)
THEOREM NoStrayChildrenCorrect == Spec => []NoStrayChildren
<1>1. GroupInv => NoStrayChildren
  BY DEF GroupInv, StrayInv, NoStrayChildren, Gone
<1> QED BY <1>1, GroupCorrect, PTL

(* The parent gives up only after a fault of this measurement              *)
(* (lib_timing.c:220-223, 349, 376, 421, 460, 487).                        *)
THEOREM NoSpuriousErrorCorrect == Spec => []NoSpuriousError
<1>1. GroupInv => NoSpuriousError
  BY DEF GroupInv, QuietInv
<1> QED BY <1>1, GroupCorrect, PTL

-----------------------------------------------------------------------------
(* Siblings are under load while one measures.                             *)

LEMMA LoadOfGroup ==
  ASSUME TypeInv, BarrierInv, GroupInv
  PROVE  LoadWhileTiming
<1> USE DEF Running, Warming, Forking, Asking, ErrorPCs
<1> SUFFICES ASSUME ~faulted, NEW c \in Members, NEW d \in Members, Live(c),
                    st[c] = "timing_interval"
             PROVE  need[d] = 0 /\ kid[d] \in {"benchmark", "interval", "readStart"}
  BY DEF LoadWhileTiming
<1>1. c \in Children /\ d \in Children
  BY MembersType DEF TypeInv, TypeOK
<1>2. pc \notin {"idle", "prologue", "return"}
  BY <1>1 DEF GroupInv, StrayInv, Gone, Live, LivePCs
<1>3. pc \notin ErrorPCs
  BY DEF GroupInv, QuietInv, NoSpuriousError
<1>4. pc # "dead"
  BY <1>1 DEF GroupInv, StrayInv, Broken
<1>5. pc # "reap"
  BY <1>1 DEF GroupInv, LeavingInv
<1>6. pc \in Running /\ open
  BY <1>2, <1>3, <1>4, <1>5 DEF TypeInv, TypeOK, ParentTypeOK, ParentPCs, GroupInv, OrderInv
<1>7. PhaseInv
  BY <1>6 DEF BarrierInv
<1>8. pc = "done" /\ GotReady = Members
  BY <1>1, <1>6, <1>7 DEF PhaseInv, GotDone
<1>9. need[d] = 0 /\ OrderOf(d)
  BY <1>1, <1>6, <1>8 DEF GotReady, GroupInv, OrderInv
<1>10. kid[d] \notin {"exited", "reaped", "none"}
  BY <1>1, <1>8 DEF GroupInv, QuietInv, StrayInv
<1>11. kid[d] \in KidPCs
  BY <1>1 DEF TypeInv, TypeOK, KidTypeOK
<1> QED BY <1>8, <1>9, <1>10, <1>11 DEF OrderOf, KidPCs, LivePCs

(* While a child measures, every sibling has said `ready' and none has     *)
(* begun to report, unless a fault took it away (lmbench3.ms:577-580).     *)
THEOREM LoadWhileTimingCorrect == Spec => []LoadWhileTiming
  BY LoadOfGroup, TypeCorrect, BarrierCorrect, GroupCorrect, PTL

-----------------------------------------------------------------------------
(* No child waits for a byte that a sibling took.                          *)

Started == {"done", "askResult", "result", "exit"}

OwedSmall ==
    \A s \in {"start", "exit"} :
        /\ Owed(s) \subseteq Members /\ IsFiniteSet(Owed(s))
        /\ Cardinality(Owed(s)) \in Nat /\ Cardinality(Owed(s)) <= par

LEMMA OwedFinite == TypeInv => OwedSmall
<1> SUFFICES ASSUME TypeInv, NEW s \in {"start", "exit"}
             PROVE  /\ Owed(s) \subseteq Members /\ IsFiniteSet(Owed(s))
                    /\ Cardinality(Owed(s)) \in Nat /\ Cardinality(Owed(s)) <= par
  BY DEF OwedSmall
<1>1. Owed(s) \subseteq Members
  BY DEF Owed
<1>2. IsFiniteSet(Members) /\ Cardinality(Members) = par
  BY MembersType DEF TypeInv, TypeOK
<1> QED BY <1>1, <1>2, FS_Subset, FS_CardinalityType

(* A step that leaves a pipe alone and adds nobody who must read it.       *)
LEMMA OwedFewer ==
  ASSUME TypeInv, NEW s \in {"start", "exit"}, Owed(s)' \subseteq Owed(s),
         bytes'[s] = bytes[s], bytes[s] >= Cardinality(Owed(s))
  PROVE  bytes'[s] >= Cardinality(Owed(s)')
<1>1. IsFiniteSet(Owed(s)) /\ Cardinality(Owed(s)) \in Nat
  BY OwedFinite DEF OwedSmall
<1>2. Cardinality(Owed(s)') <= Cardinality(Owed(s)) /\ Cardinality(Owed(s)') \in Nat
  BY <1>1, FS_Subset, FS_CardinalityType
<1>3. bytes[s] \in Nat
  BY DEF TypeInv, TypeOK, PipeTypeOK, Signals
<1> QED BY <1>1, <1>2, <1>3

(* A child that takes the byte it was owed.                                *)
LEMMA OwedTaken ==
  ASSUME TypeInv, NEW s \in {"start", "exit"}, NEW c \in Owed(s), Take(s),
         Owed(s)' \subseteq Owed(s) \ {c}, bytes[s] >= Cardinality(Owed(s))
  PROVE  bytes'[s] >= Cardinality(Owed(s)')
<1>1. IsFiniteSet(Owed(s)) /\ Cardinality(Owed(s)) \in Nat
  BY OwedFinite DEF OwedSmall
<1>2. /\ IsFiniteSet(Owed(s) \ {c}) /\ Cardinality(Owed(s) \ {c}) = Cardinality(Owed(s)) - 1
      /\ Cardinality(Owed(s) \ {c}) \in Nat
  BY <1>1, FS_RemoveElement, FS_CardinalityType
<1>3. Cardinality(Owed(s)') <= Cardinality(Owed(s)) - 1 /\ Cardinality(Owed(s)') \in Nat
  BY <1>2, FS_Subset, FS_CardinalityType
<1>4. bytes[s] \in Nat /\ bytes[s] > 0
  BY <1>1, <1>2 DEF TypeInv, TypeOK, PipeTypeOK, Signals
<1>5. bytes'[s] = bytes[s] - 1
  BY <1>4 DEF Take, TypeInv, TypeOK, PipeTypeOK, Signals
<1> QED BY <1>1, <1>3, <1>4, <1>5

(* Losing children and collecting messages owes nobody anything.           *)
LEMMA OwedKept ==
  ASSUME TypeInv, UNCHANGED <<st, par>>,
         \A c \in Children : kid'[c] = kid[c] \/ kid'[c] \in {"exited", "reaped"}
  PROVE  \A s \in {"start", "exit"} : Owed(s)' \subseteq Owed(s)
  BY MembersType DEF Owed, Live, LivePCs, Members, TypeInv, TypeOK

LEMMA ParentBytes ==
  ASSUME TypeInv, TypeInv', BarrierInv, GroupInv, GroupInv', BarrierBytes, Parent \/ Alarm
  PROVE  BarrierBytes'
<1> USE DEF BarrierBytes
<1>0. OwedSmall'
  BY OwedFinite, PTL
<1>1. CASE SendStart \/ SendExit
  <2>1. CASE SendStart
    <3>1. Cardinality(Owed("start")') \in Nat /\ Cardinality(Owed("start")') <= par' /\ par' = par
      BY <1>0, <2>1 DEF OwedSmall, SendStart, parentVars
    <3>2. pc' = "done" => bytes'["start"] = bytes["start"] + par
      BY <2>1 DEF SendStart, Signal, ParentDies, TypeInv, TypeOK, PipeTypeOK, Signals
    <3>3. pc' \in {"done", "dead"} /\ bytes["start"] \in Nat /\ par \in Nat
      BY <2>1 DEF SendStart, Signal, ParentDies, TypeInv, TypeOK, PipeTypeOK, Signals, ParentTypeOK
    <3> QED BY <3>1, <3>2, <3>3
  <2>2. CASE SendExit
    <3>1. Cardinality(Owed("exit")') \in Nat /\ Cardinality(Owed("exit")') <= par' /\ par' = par
      BY <1>0, <2>2 DEF OwedSmall, SendExit
    <3>2. pc' = "reap" => bytes'["exit"] = bytes["exit"] + par
      BY <2>2 DEF SendExit, ParentDies, TypeInv, TypeOK, PipeTypeOK, Signals
    <3>3. pc' \in {"reap", "dead"} /\ bytes["exit"] \in Nat /\ par \in Nat
      BY <2>2 DEF SendExit, ParentDies, TypeInv, TypeOK, PipeTypeOK, Signals, ParentTypeOK
    <3> QED BY <3>1, <3>2, <3>3
  <2> QED BY <1>1, <2>1, <2>2
<1>2. CASE CollectReady \/ CollectDone \/ AskResult \/ CollectResult
  <2>1. /\ UNCHANGED <<kid, st, par>> /\ bytes'["start"] = bytes["start"]
        /\ pc' \in Started => pc \in Started
        /\ pc' # "reap"
    BY <1>2 DEF CollectReady, CollectDone, AskResult, CollectResult, Signal, ParentDies,
       parentVars, kidVars, Started, TypeInv, TypeOK, PipeTypeOK, Signals
  <2> QED BY <2>1, OwedKept, OwedFewer DEF Started
<1>3. CASE WaitChild \/ Alarm
  <2>1. /\ UNCHANGED <<st, par, faulted, bytes>> /\ pc = "reap" /\ pc' = "reap"
        /\ \A c \in Children : kid'[c] = kid[c] \/ kid'[c] \in {"exited", "reaped"}
    BY <1>3, IndexInChildren, TerminateEffect, ReapEffect
       DEF Alarm, WaitChild, TypeInv, TypeOK, pipeVars, faultVars, parentVars
  <2> QED BY <2>1, OwedKept, OwedFewer
<1>4. CASE \/ Call \/ Prologue \/ ForkTest \/ Fork \/ KillForked \/ WaitForked
           \/ EnterParent \/ ParentNotices \/ KillAll \/ WaitAll \/ AllWaited \/ Return
  <2>1. pc' \notin Started /\ (pc' = "reap" => pc = "waitAll" /\ faulted' = faulted)
    BY <1>4 DEF Call, Prologue, ForkTest, Fork, KillForked, WaitForked, EnterParent,
       ParentNotices, KillAll, WaitAll, AllWaited, Return, ErrorExit, Started, faultVars
  <2>2. pc = "waitAll" => faulted
    BY DEF GroupInv, QuietInv, NoSpuriousError, ErrorPCs
  <2> QED BY <2>1, <2>2 DEF Started
<1> QED BY <1>1, <1>2, <1>3, <1>4 DEF Parent

LEMMA ChildBytes ==
  ASSUME TypeInv, BarrierInv, GroupInv, BarrierBytes, NEW c \in Children, Child(c)
  PROVE  BarrierBytes'
<1>1. UNCHANGED <<pc, par, faulted>> /\ Members' = Members /\ Members \subseteq Children
  BY ChildFrame, MembersType DEF childRest, parentVars, faultVars, Members, TypeInv, TypeOK
<1>2. \A d \in Children \ {c} : kid'[d] = kid[d] /\ st'[d] = st[d]
  BY ChildAlone
<1>3. Live(c)
  BY ChildLive
<1>4. Owed("exit")' \subseteq Owed("exit")
  BY <1>1, <1>2, <1>3 DEF Owed, Live
<1>5. ASSUME pc = "reap", ~faulted PROVE bytes'["exit"] >= Cardinality(Owed("exit")')
  <2>1. bytes["exit"] >= Cardinality(Owed("exit"))
    BY <1>5 DEF BarrierBytes
  <2>2. CASE ReadExit(c)
    <3>1. Take("exit") /\ kid'[c] = "exited"
      BY <2>2 DEF ReadExit, ChildExits, TypeInv, TypeOK, KidTypeOK
    <3>2. Owed("exit")' \subseteq Owed("exit") \ {c}
      BY <1>4, <3>1 DEF Owed, Live, LivePCs
    <3>3. CASE c \in Owed("exit")
      BY <2>1, <3>1, <3>2, <3>3, OwedTaken
    <3>4. CASE c \notin Owed("exit")
      <4>1. c \notin Members
        BY <1>3, <3>4 DEF Owed
      <4>2. c >= i \/ c < par
        BY <1>5 DEF TypeInv, TypeOK, ParentTypeOK, Children
      <4>3. c \in Int /\ c >= 0 /\ par \in Nat /\ i \in 0 .. par
        BY ParallelType DEF TypeInv, TypeOK, ParentTypeOK, Children
      <4>4. c >= i
        BY <4>1, <4>3 DEF Members
      <4> QED BY <1>3, <1>5, <4>4 DEF GroupInv, StrayInv, Gone, Live, LivePCs
    <3> QED BY <3>3, <3>4
  <2>3. CASE ~ReadExit(c)
    <3>1. bytes'["exit"] = bytes["exit"]
      BY <2>3 DEF Child, Install, Orphan, WarmUp, EndWarmUp, ReadStart, Sample, Rescale,
         FinishTiming, CoolDown, ReadResult, Reply, Benchmark, Take, TypeInv, TypeOK,
         PipeTypeOK, Signals
    <3> QED BY <1>4, <2>1, <3>1, OwedFewer
  <2> QED BY <2>2, <2>3
<1>6. ASSUME pc \in Started PROVE bytes'["start"] >= Cardinality(Owed("start")')
  <2>1. bytes["start"] >= Cardinality(Owed("start")) /\ OrderOf(c) /\ KidInv(c)
    BY <1>6 DEF BarrierBytes, Started, GroupInv, OrderInv, BarrierInv, Running, Asking
  <2>2. c \in Members
    BY <1>3, <2>1 DEF KidInv, Live, LivePCs
  <2>3. CASE ReadStart(c)
    <3>1. /\ Take("start") /\ kid[c] = "readStart" /\ st'[c] = "timing_interval"
          /\ kid'[c] # "readStart"
      BY <2>1, <2>3 DEF ReadStart, SayReady, Send, Goto, ChildExits, OrderOf, TypeInv, TypeOK,
         KidTypeOK
    <3>2. Owed("start")' \subseteq Owed("start") \ {c}
      BY <1>1, <1>2, <3>1 DEF Owed, Live
    <3>3. c \in Owed("start")
      BY <1>3, <2>2, <3>1 DEF Owed
    <3> QED BY <2>1, <3>1, <3>2, <3>3, OwedTaken
  <2>4. CASE ~ReadStart(c)
    <3>1. bytes'["start"] = bytes["start"]
      BY <2>4 DEF Child, Install, Orphan, WarmUp, EndWarmUp, Sample, Rescale,
         FinishTiming, CoolDown, ReadResult, Reply, ReadExit, Benchmark, Take, TypeInv, TypeOK,
         PipeTypeOK, Signals
    <3>2. \/ st[c] = "warmup"
          \/ st'[c] # "warmup" /\ kid'[c] # "readStart"
      BY <2>4 DEF Child, Install, Orphan, WarmUp, EndWarmUp, Sample, Rescale,
         FinishTiming, CoolDown, ReadResult, Reply, ReadExit, Benchmark, Interval,
         SayReady, Send, Goto, ChildExits, TypeInv, TypeOK, KidTypeOK
    <3>3. Owed("start")' \subseteq Owed("start")
      BY <1>1, <1>2, <1>3, <2>2, <3>2 DEF Owed, Live
    <3> QED BY <2>1, <3>1, <3>3, OwedFewer
  <2> QED BY <2>3, <2>4
<1> QED BY <1>1, <1>5, <1>6 DEF BarrierBytes, Started

LEMMA BytesStep ==
  ASSUME TypeInv, TypeInv', BarrierInv, GroupInv, GroupInv', BarrierBytes, [Next]_vars
  PROVE  BarrierBytes'
<1>1. CASE Parent \/ Alarm
  BY <1>1, ParentBytes
<1>2. ASSUME NEW c \in Children, Child(c) PROVE BarrierBytes'
  BY <1>2, ChildBytes
<1>3. CASE Environment
  <2>1. CASE \E c \in Children : Crash(c)
    <3>1. /\ UNCHANGED <<pc, bytes, st, par>> /\ faulted'
          /\ \A d \in Children : kid'[d] = kid[d] \/ kid'[d] = "exited"
      BY <2>1 DEF Crash, Fault, ChildExits, pipeVars, parentVars, TypeInv, TypeOK, KidTypeOK
    <3> QED BY <3>1, OwedKept, OwedFewer DEF BarrierBytes
  <2>2. CASE PipeFails \/ PidsFail \/ ForkFails \/ BuffersFail \/ Sigterm \/ Kill
    <3>1. /\ UNCHANGED <<kid, bytes, st, par>> /\ faulted'
          /\ pc' \in Started => pc \in Started
      BY <2>2 DEF PipeFails, PidsFail, ForkFails, BuffersFail, Sigterm, Kill, Fault, ParentDies,
         pipeVars, parentVars, kidVars, Started
    <3> QED BY <3>1, OwedKept, OwedFewer DEF BarrierBytes, Started
  <2> QED BY <1>3, <2>1, <2>2 DEF Environment
<1>4. CASE UNCHANGED vars
  BY <1>4 DEF vars, parentVars, pipeVars, kidVars, faultVars, BarrierBytes, Owed, Live, Members
<1> QED BY <1>1, <1>2, <1>3, <1>4 DEF Next, Terminating

(* Children race for the bytes of a barrier pipe, but each of them that    *)
(* still has to read one finds one (lib_timing.c:404, 490, 698-704, 765).  *)
THEOREM BarrierBytesCorrect == Spec => []BarrierBytes
<1>1. Init => BarrierBytes
  BY DEF Init, BarrierBytes
<1>2. /\ TypeInv /\ TypeInv' /\ BarrierInv /\ GroupInv /\ GroupInv' /\ BarrierBytes
      /\ [Next]_vars
      => BarrierBytes'
  BY BytesStep
<1> QED BY <1>1, <1>2, TypeCorrect, BarrierCorrect, GroupCorrect, PTL DEF Spec
=============================================================================

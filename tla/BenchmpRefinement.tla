-------------------------- MODULE BenchmpRefinement --------------------------
(***************************************************************************)
(* benchmp() implements the abstract measurement of module Harness, for    *)
(* any number of children, calls and faults: every step of the parent, of  *)
(* a child or of the environment is a step of Harness or leaves what it    *)
(* speaks of alone.                                                        *)
(***************************************************************************)
EXTENDS BenchmpGroupProof

(* The abstract variables.                                                 *)
Group == IF pc \in {"idle", "prologue", "return", "dead"} THEN {} ELSE Members
Mood  == IF pc = "dead" THEN "lost" ELSE IF faulted THEN "failing" ELSE "well"

(* The stage of a child, case by case.                                     *)
StageCases ==
    \A c \in Children :
        /\ ~Live(c) => StageOf(c) = IF pc \in Forking /\ c \in Members /\ kid[c] = "none"
                                    THEN "warmup" ELSE "out"
        /\ Live(c) /\ st[c] = "warmup" =>
               StageOf(c) = IF need[c] = 1 THEN "warmup" ELSE "ready"
        /\ Live(c) /\ st[c] = "timing_interval" => StageOf(c) = "timing"
        /\ Live(c) /\ st[c] = "cooldown" =>
               StageOf(c) = IF Reporting(c) THEN "reporting"
                            ELSE IF kid[c] = "readExit" THEN "reported" ELSE "done"

LEMMA StageType == TypeInv => StageCases
<1> SUFFICES ASSUME TypeInv, NEW c \in Children
    PROVE /\ ~Live(c) => StageOf(c) = IF pc \in Forking /\ c \in Members /\ kid[c] = "none"
                                      THEN "warmup" ELSE "out"
          /\ Live(c) /\ st[c] = "warmup" =>
                 StageOf(c) = IF need[c] = 1 THEN "warmup" ELSE "ready"
          /\ Live(c) /\ st[c] = "timing_interval" => StageOf(c) = "timing"
          /\ Live(c) /\ st[c] = "cooldown" =>
                 StageOf(c) = IF Reporting(c) THEN "reporting"
                              ELSE IF kid[c] = "readExit" THEN "reported" ELSE "done"
  BY DEF StageCases
<1>1. ~Live(c) => StageOf(c) = IF pc \in Forking /\ c \in Members /\ kid[c] = "none"
                               THEN "warmup" ELSE "out"
  BY DEF StageOf, Forking, Forked
<1>2. Live(c) /\ st[c] = "warmup" => StageOf(c) = IF need[c] = 1 THEN "warmup" ELSE "ready"
  BY DEF StageOf
<1>3. Live(c) /\ st[c] = "timing_interval" => StageOf(c) = "timing"
  BY DEF StageOf
<1>4. Live(c) /\ st[c] = "cooldown" =>
         StageOf(c) = IF Reporting(c) THEN "reporting"
                      ELSE IF kid[c] = "readExit" THEN "reported" ELSE "done"
  BY DEF StageOf, Reporting
<1> QED BY <1>1, <1>2, <1>3, <1>4

-----------------------------------------------------------------------------
(* What has to be shown of a step for each kind of abstract step.          *)

LEMMA Stutters ==
  ASSUME UNCHANGED <<Group, Mood, merged, time>>,
         \A c \in Children : StageOf(c)' = StageOf(c)
  PROVE  UNCHANGED HarnessOf!hvars
  BY DEF HarnessOf!hvars, Group, Mood

LEMMA Fails ==
  ASSUME UNCHANGED <<Group, merged, time>>, pc # "dead", pc' # "dead", faulted' = TRUE,
         \A c \in Children : StageOf(c)' = StageOf(c) \/ StageOf(c)' = "out"
  PROVE  HarnessOf!Fail
<1> DEFINE S == {c \in Children : StageOf(c)' = "out"}
<1>1. S \in SUBSET Children
  OBVIOUS
<1>2. [c \in Children |-> StageOf(c)]'
          = [c \in Children |-> IF c \in S THEN "out" ELSE [d \in Children |-> StageOf(d)][c]]
  OBVIOUS
<1> QED BY <1>1, <1>2 DEF HarnessOf!Fail, HarnessOf!Vanishing, Group

LEMMA Loses ==
  ASSUME UNCHANGED <<merged, time>>, pc' = "dead",
         \A c \in Children : StageOf(c)' = StageOf(c) \/ StageOf(c)' = "out"
  PROVE  HarnessOf!Lose
<1> DEFINE S == {c \in Children : StageOf(c)' = "out"}
<1>1. S \in SUBSET Children
  OBVIOUS
<1>2. [c \in Children |-> StageOf(c)]'
          = [c \in Children |-> IF c \in S THEN "out" ELSE [d \in Children |-> StageOf(d)][c]]
  OBVIOUS
<1> QED BY <1>1, <1>2 DEF HarnessOf!Lose, HarnessOf!Vanishing

LEMMA Moves ==
  ASSUME NEW c \in Children, NEW s, UNCHANGED <<Group, Mood, time>>, StageOf(c)' = s,
         \A d \in Children \ {c} : StageOf(d)' = StageOf(d)
  PROVE  HarnessOf!To(c, s)
  BY DEF HarnessOf!To, Group, Mood

(* Without forking, the stage of a child depends on the child alone.       *)
LEMMA StageStays ==
  ASSUME TypeInv, TypeInv', StageCases, StageCases', NEW c \in Children,
         pc \notin Forking, pc' \notin Forking,
         kid'[c] = kid[c], st'[c] = st[c], need'[c] = need[c], Reporting(c)' = Reporting(c)
  PROVE  StageOf(c)' = StageOf(c)
<1>1. CASE ~Live(c)
  BY <1>1 DEF StageCases, Live
<1>2. CASE Live(c)
  <2>1. st[c] \in {"warmup", "timing_interval", "cooldown"}
    BY DEF TypeInv, TypeOK, KidTypeOK, KidStates
  <2> QED BY <1>2, <2>1 DEF StageCases, Live
<1> QED BY <1>1, <1>2

-----------------------------------------------------------------------------
(* The parent between two measurements, and while it forks.                *)

(* Nobody is there.                                                        *)
LEMMA NobodyOut ==
  ASSUME StageCases, pc \notin Forking, NEW c \in Children, ~Live(c)
  PROVE  StageOf(c) = "out"
  BY DEF StageCases

LEMMA CallRefines ==
  ASSUME GroupInv, GroupInv', StageCases, StageCases', Call \/ Return
  PROVE  HarnessOf!HNext \/ UNCHANGED HarnessOf!hvars
<1> USE DEF Call, Return, parentVars, kidVars, faultVars
<1>1. /\ pc \in {"idle", "return"} /\ pc' \in {"idle", "prologue"}
      /\ UNCHANGED <<merged, faulted>>
  OBVIOUS
<1>2. \A c \in Children : ~Live(c) /\ ~Live(c)'
  BY <1>1 DEF GroupInv, StrayInv, Gone, Live, LivePCs
<1>3. \A c \in Children : StageOf(c) = "out" /\ StageOf(c)' = "out"
  BY <1>1, <1>2 DEF StageCases, Forking
<1>4. time' = time \/ time' = "zero"
  OBVIOUS
<1>5. CASE time' = time
  BY <1>1, <1>3, <1>5, Stutters DEF Group, Mood
<1>6. CASE time' = "zero"
  BY <1>1, <1>3, <1>6 DEF HarnessOf!HNext, HarnessOf!Forget
<1> QED BY <1>4, <1>5, <1>6

LEMMA PrologueRefines ==
  ASSUME TypeInv, TypeInv', GroupInv, StageCases, StageCases', Prologue
  PROVE  HarnessOf!Begin
<1>1. /\ pc = "prologue" /\ pc' = "fork" /\ faulted' = FALSE /\ UNCHANGED <<par, time>>
      /\ \A c \in Children : kid'[c] = "none" /\ merged'[c] = 0
  BY DEF Prologue
<1>2. \A c \in Children : StageOf(c) = "out"
  <2>1. \A c \in Children : ~Live(c)
    BY <1>1 DEF GroupInv, StrayInv, Gone, Live, LivePCs
  <2> QED BY <1>1, <2>1 DEF StageCases, Forking
<1>3. Members' \in SUBSET Children /\ Members' # {}
  <2>1. Members' = Members /\ Members \subseteq Children /\ 0 \in Members
    BY <1>1, MembersType, ParallelType DEF Members, TypeInv, TypeOK, ParentTypeOK
  <2> QED BY <2>1
<1>4. \A c \in Children : StageOf(c)' = IF c \in Members' THEN "warmup" ELSE "out"
  <2>1. \A c \in Children : ~Live(c)'
    BY <1>1 DEF Live, LivePCs
  <2> QED BY <1>1, <2>1 DEF StageCases, Forking
<1> QED BY <1>1, <1>2, <1>3, <1>4 DEF HarnessOf!Begin

LEMMA ForkRefines ==
  ASSUME TypeInv, TypeInv', BarrierInv, GroupInv, StageCases, StageCases',
         \/ ForkTest \/ Fork \/ EnterParent \/ ForkFails \/ BuffersFail
  PROVE  HarnessOf!HNext \/ UNCHANGED HarnessOf!hvars
<1> USE DEF parentVars, kidVars, faultVars, Forking
<1>1. /\ pc \in Forking /\ UNCHANGED <<par, time, merged, st, need, response>>
      /\ pc' \in {"fork", "forking", "killForked", "ready", "killAll", "reap"}
      /\ Members' = Members
  BY DEF ForkTest, Fork, EnterParent, ForkFails, BuffersFail, ErrorExit, pipeVars, Members
<1>2. UNCHANGED Group
  BY <1>1 DEF Group
<1>3. CASE Fork
  <2>1. PICK k \in Children :
           /\ k = i /\ pc = "forking" /\ pc' = "fork" /\ UNCHANGED faulted
           /\ kid'[k] = "initialize" /\ \A d \in Children \ {k} : kid'[d] = kid[d]
    BY <1>3, IndexInChildren DEF Fork, TypeInv, TypeOK, KidTypeOK
  <2>2. kid[k] = "none" /\ need[k] = 1 /\ st[k] = "warmup" /\ k \in Members
    <3>1. k >= i /\ k \in Members
      BY <2>1 DEF TypeInv, IndexOK, Children, Members, TypeOK, ParentTypeOK
    <3>2. kid[k] = "none" /\ KidInv(k)
      BY <2>1, <3>1 DEF GroupInv, StrayInv, BarrierInv, Running, Warming
    <3> QED BY <3>1, <3>2 DEF KidInv
  <2>3. StageOf(k)' = StageOf(k)
    <3>1. ~Live(k) /\ Live(k)' /\ need'[k] = 1 /\ st'[k] = "warmup"
      BY <1>1, <2>1, <2>2 DEF Live, LivePCs
    <3> QED BY <2>1, <2>2, <3>1 DEF StageCases
  <2>4. ASSUME NEW d \in Children \ {k} PROVE StageOf(d)' = StageOf(d)
    <3>1. /\ kid'[d] = kid[d] /\ st'[d] = st[d] /\ need'[d] = need[d]
          /\ Reporting(d)' = Reporting(d) /\ Live(d)' = Live(d)
          /\ st[d] \in {"warmup", "timing_interval", "cooldown"}
      BY <1>1, <2>1 DEF Reporting, Live, TypeInv, TypeOK, KidTypeOK, KidStates
    <3> QED BY <1>1, <2>1, <3>1 DEF StageCases
  <2>5. \A c \in Children : StageOf(c)' = StageOf(c)
    BY <2>3, <2>4
  <2> QED BY <1>1, <1>2, <2>1, <2>5, Stutters DEF Mood
<1>4. CASE ~Fork
  <2>1. UNCHANGED kid
    BY <1>4 DEF ForkTest, EnterParent, ForkFails, BuffersFail
  <2>2. \A c \in Children : /\ Live(c)' = Live(c) /\ Reporting(c)' = Reporting(c)
                            /\ st[c] \in {"warmup", "timing_interval", "cooldown"}
    BY <1>1, <2>1 DEF Live, Reporting, TypeInv, TypeOK, KidTypeOK, KidStates
  <2>3. \A c \in Children : StageOf(c)' = StageOf(c) \/ StageOf(c)' = "out"
    BY <1>1, <2>1, <2>2 DEF StageCases
  <2>4. CASE faulted' = TRUE
    BY <1>1, <1>2, <2>3, <2>4, Fails DEF HarnessOf!HNext
  <2>5. CASE faulted' # TRUE
    <3>1. ForkTest \/ EnterParent
      BY <1>4, <2>5 DEF ForkFails, BuffersFail, Fault
    <3>2. faulted' = faulted /\ ~termed
      <4>1. faulted' = faulted /\ faulted \in BOOLEAN
        BY <3>1 DEF ForkTest, EnterParent, TypeInv, TypeOK, FlagTypeOK
      <4> QED BY <1>1, <2>5, <4>1 DEF GroupInv, QuietInv, Running, Warming
    <3>3. \A c \in Children : StageOf(c)' = StageOf(c)
      <4>1. CASE ForkTest
        <5>1. pc' = "forking"
          BY <3>2, <4>1 DEF ForkTest
        <5> QED BY <1>1, <2>1, <2>2, <5>1 DEF StageCases
      <4>2. CASE EnterParent
        <5>1. i = par /\ i \in Int
          BY <4>2 DEF EnterParent, TypeInv, TypeOK, ParentTypeOK
        <5>2. \A c \in Members : ~(c >= i)
          BY <5>1 DEF Members
        <5>3. \A c \in Children : c \in Members => kid[c] # "none"
          BY <1>1, <5>2 DEF GroupInv, StrayInv
        <5> QED BY <1>1, <2>1, <2>2, <5>3 DEF StageCases
      <4> QED BY <3>1, <4>1, <4>2
    <3> QED BY <1>1, <1>2, <3>2, <3>3, Stutters DEF Mood
  <2> QED BY <2>4, <2>5
<1> QED BY <1>3, <1>4

-----------------------------------------------------------------------------
(* The parent at the barriers.                                             *)

LEMMA SignalRefines ==
  ASSUME TypeInv, TypeInv', StageCases, StageCases', SendStart \/ AskResult \/ ParentNotices
  PROVE  HarnessOf!Lose \/ UNCHANGED HarnessOf!hvars
<1>1. /\ UNCHANGED <<kid, st, need, response, merged, time, par, faulted>>
      /\ pc \in {"start", "askResult", "ready", "done", "result"}
      /\ pc' \in {"done", "result", "killAll", "dead"}
  BY DEF SendStart, AskResult, ParentNotices, Signal, ParentDies, ErrorExit, kidVars,
     parentVars, pipeVars, faultVars
<1>2. \A c \in Children : StageOf(c)' = StageOf(c)
  BY <1>1, StageStays DEF Reporting, Forking
<1>3. CASE pc' = "dead"
  BY <1>1, <1>2, <1>3, Loses
<1>4. CASE pc' # "dead"
  BY <1>1, <1>2, <1>4, Stutters DEF Group, Mood, Members
<1> QED BY <1>3, <1>4

(* The `ready' and `done' bytes say nothing of a report.                   *)
LEMMA CollectRefines ==
  ASSUME TypeInv, TypeInv', BarrierInv, StageCases, StageCases', CollectReady \/ CollectDone
  PROVE  UNCHANGED HarnessOf!hvars
<1>1. /\ UNCHANGED <<kid, st, need, merged, time, par, faulted>>
      /\ pc \in {"ready", "done"} /\ pc' \in {"ready", "start", "done", "askResult"}
  BY DEF CollectReady, CollectDone, kidVars, parentVars, faultVars
<1>2. PICK m \in Messages : Receive(m)
  BY DEF CollectReady, CollectDone
<1>3. \A c \in Children : response[<<"results", c>>] = 0
  <2> SUFFICES ASSUME NEW c \in Children PROVE response[<<"results", c>>] = 0
    OBVIOUS
  <2>1. ~(response[<<"results", c>>] > 0)
    BY <1>1, MessagesInPhase
  <2>2. response[<<"results", c>>] \in Nat
    BY DEF TypeInv, TypeOK, PipeTypeOK, Messages, Kinds
  <2> QED BY <2>1, <2>2
<1>4. \A c \in Children : response'[<<"results", c>>] = response[<<"results", c>>]
  <2> SUFFICES ASSUME NEW c \in Children
               PROVE  response'[<<"results", c>>] = response[<<"results", c>>]
    OBVIOUS
  <2>1. <<"results", c>> \in Messages /\ response[<<"results", c>>] = 0
    BY <1>3 DEF Messages, Kinds
  <2>2. m # <<"results", c>>
    <3> SUFFICES ASSUME m = <<"results", c>> PROVE FALSE
      OBVIOUS
    <3>1. response[<<"results", c>>] > 0
      BY <1>2 DEF Receive
    <3> QED BY <2>1, <3>1
  <2> QED BY <1>2, <2>1, <2>2 DEF Receive, TypeInv, TypeOK, PipeTypeOK
<1>5. \A c \in Children : StageOf(c)' = StageOf(c)
  BY <1>1, <1>4, StageStays DEF Reporting, Forking
<1> QED BY <1>1, <1>5, Stutters DEF Group, Mood, Members


(* A report is read while its child waits for the exit signal: had the     *)
(* child died, the parent would have noticed before it read.               *)
LEMMA ReportRefines ==
  ASSUME TypeInv, TypeInv', BarrierInv, GroupInv, StageCases, StageCases', CollectResult
  PROVE  HarnessOf!HNext
<1>1. /\ UNCHANGED <<kid, st, need, time, par, faulted>> /\ open
      /\ pc = "result" /\ pc' \in {"exit", "askResult"} /\ Members' = Members
  BY DEF CollectResult, kidVars, faultVars, BarrierInv, Running, Asking, Members
<1>2. PICK m \in Messages : Receive(m) /\ merged' = [merged EXCEPT ![m[2]] = @ + 1]
  BY DEF CollectResult
<1>3. PICK k \in Kinds, c \in Children : m = <<k, c>> /\ m[2] = c
  BY DEF Messages
<1>4. k = "results"
  <2>1. response[<<k, c>>] > 0
    BY <1>2, <1>3 DEF Receive
  <2>2. k \in {"ready", "done", "results"}
    BY DEF Kinds
  <2> QED BY <1>1, <2>1, <2>2, MessagesInPhase
<1>5. /\ response[<<"results", c>>] > 0 /\ response' = [response EXCEPT ![<<"results", c>>] = @ - 1]
      /\ merged' = [merged EXCEPT ![c] = @ + 1] /\ ~chlded
  BY <1>2, <1>3, <1>4 DEF Receive, Alert
<1>6. KidInv(c) /\ OrderOf(c)
  BY <1>1 DEF BarrierInv, Running, Asking, GroupInv, OrderInv
<1>7. response[<<"results", c>>] \in Nat /\ merged[c] \in Nat /\ merged \in [Children -> Nat]
  BY DEF TypeInv, TypeOK, PipeTypeOK, ParentTypeOK, Messages, Kinds
<1>8. response[<<"results", c>>] = 1 /\ merged[c] = 0
  BY <1>5, <1>6, <1>7 DEF KidInv
<1>9. kid[c] = "readExit" /\ st[c] = "cooldown"
  <2>1. kid[c] \notin {"exited", "reaped"}
    BY <1>1, <1>5 DEF GroupInv, QuietInv, Running, Asking
  <2> QED BY <1>5, <1>6, <2>1 DEF OrderOf
<1>10. /\ response'[<<"results", c>>] = 0
       /\ \A d \in Children \ {c} : response'[<<"results", d>>] = response[<<"results", d>>]
  <2>1. \A d \in Children : <<"results", d>> \in Messages
    BY DEF Messages, Kinds
  <2> QED BY <1>5, <1>8, <2>1 DEF TypeInv, TypeOK, PipeTypeOK
<1>11. StageOf(c) = "reporting" /\ StageOf(c)' = "reported"
  <2>1. Live(c) /\ Live(c)' /\ Reporting(c) /\ ~Reporting(c)' /\ st'[c] = "cooldown"
    BY <1>1, <1>5, <1>9, <1>10 DEF Live, LivePCs, Reporting
  <2> QED BY <1>1, <1>9, <2>1 DEF StageCases
<1>12. \A d \in Children \ {c} : StageOf(d)' = StageOf(d)
  BY <1>1, <1>10, StageStays DEF Reporting, Forking
<1>13. HarnessOf!To(c, "reported")
  BY <1>1, <1>11, <1>12, Moves DEF Group, Mood
<1>14. {d \in Children : merged[d] > 0}' = {d \in Children : merged[d] > 0} \cup {c}
  <2>1. merged'[c] = 1 /\ \A d \in Children \ {c} : merged'[d] = merged[d]
    BY <1>5, <1>7, <1>8
  <2> QED BY <2>1
<1>15. HarnessOf!FinishReport(c)
  BY <1>8, <1>11, <1>13, <1>14 DEF HarnessOf!FinishReport
<1> QED BY <1>15 DEF HarnessOf!HNext

LEMMA ExitRefines ==
  ASSUME TypeInv, TypeInv', BarrierInv, StageCases, StageCases', SendExit
  PROVE  HarnessOf!HNext \/ UNCHANGED HarnessOf!hvars
<1>1. /\ UNCHANGED <<kid, st, need, response, merged, par, faulted>> /\ Members' = Members
      /\ pc = "exit" /\ pc' \in {"reap", "dead"} /\ (pc' = "dead" => time' = time)
      /\ time' \in {"zero", "measured", time}
  BY DEF SendExit, ParentDies, kidVars, faultVars, Members
<1>2. \A c \in Children : StageOf(c)' = StageOf(c)
  BY <1>1, StageStays DEF Reporting, Forking
<1>3. CASE pc' = "dead"
  BY <1>1, <1>2, <1>3, Loses DEF HarnessOf!HNext
<1>4. CASE pc' = "reap" /\ time' = time
  BY <1>1, <1>2, <1>4, Stutters DEF Group, Mood
<1>5. CASE pc' = "reap" /\ time' # time
  <2>1. time' = "measured"
    <3>1. time = "zero"
      BY <1>1 DEF BarrierInv, TypeInv, TypeOK, ParentTypeOK
    <3> QED BY <1>1, <1>5, <3>1
  <2>2. {c \in Children : merged[c] > 0} = Members
    <3>1. \A c \in Members : c \in Children /\ merged[c] = 1
      BY <1>1, MembersType DEF BarrierInv, Running, PhaseInv, GotResults, TypeInv, TypeOK
    <3>2. \A c \in Children \ Members : ~(merged[c] > 0)
      <4> SUFFICES ASSUME NEW c \in Children \ Members PROVE ~(merged[c] > 0)
        OBVIOUS
      <4>1. KidInv(c) /\ merged[c] \in Nat
        BY <1>1 DEF BarrierInv, Running, TypeInv, TypeOK, ParentTypeOK
      <4> QED BY <4>1 DEF KidInv
    <3> QED BY <3>1, <3>2
  <2>3. Members # {}
    <3>1. 0 \in Members
      BY ParallelType DEF Members, TypeInv, TypeOK, ParentTypeOK
    <3> QED BY <3>1
  <2>4. UNCHANGED <<Group, Mood>> /\ Group = Members /\ Mood # "lost"
    BY <1>1, <1>5 DEF Group, Mood
  <2>5. [c \in Children |-> StageOf(c)]' = [c \in Children |-> StageOf(c)]
    BY <1>2
  <2> QED BY <1>1, <2>1, <2>2, <2>3, <2>4, <2>5
          DEF HarnessOf!HNext, HarnessOf!Publish, Group, Mood
<1> QED BY <1>1, <1>3, <1>4, <1>5

-----------------------------------------------------------------------------
(* The parent gives up, or waits.                                          *)

LEMMA KillRefines ==
  ASSUME TypeInv, TypeInv', GroupInv, GroupInv', StageCases, StageCases',
         KillForked \/ KillAll \/ Alarm
  PROVE  HarnessOf!HNext \/ UNCHANGED HarnessOf!hvars
<1> USE DEF parentVars, faultVars, pipeVars
<1>1. /\ UNCHANGED <<st, need, response, merged, time, par, faulted>> /\ Members' = Members
      /\ pc \in {"killForked", "killAll", "reap"}
      /\ pc' \in {"return", "waitForked", "waitAll", "reap"}
  BY DEF KillForked, KillAll, Alarm, Members
<1>2. CASE pc' = "return"
  <2>1. UNCHANGED kid /\ i = 0 /\ pc = "killForked"
    BY <1>2 DEF KillForked, KillAll, Alarm
  <2>2. \A c \in Children : ~Live(c) /\ ~Live(c)'
    BY <2>1 DEF GroupInv, StrayInv, Gone, Live, LivePCs, Children
  <2>3. \A c \in Children : StageOf(c) = "out" /\ StageOf(c)' = "out"
    BY <1>2, <2>1, <2>2 DEF StageCases, Forking
  <2> QED BY <1>1, <1>2, <2>1, <2>3 DEF HarnessOf!HNext, HarnessOf!End
<1>3. CASE pc' # "return"
  <2>1. PICK c \in Children : \A d \in Children : \/ kid'[d] = kid[d]
                                                  \/ d = c /\ Live(c) /\ kid'[c] = "exited"
    <3>1. CASE KillForked
      BY <1>3, <3>1, IndexInChildren, TerminateEffect DEF KillForked, TypeInv, TypeOK, ParentTypeOK
    <3>2. CASE KillAll \/ Alarm
      BY <3>2, IndexInChildren, TerminateEffect DEF KillAll, Alarm, TypeInv, TypeOK
    <3> QED BY <3>1, <3>2
  <2>2. \A d \in Children : kid'[d] = kid[d] => StageOf(d)' = StageOf(d)
    BY <1>1, StageStays DEF Reporting, Forking
  <2>3. UNCHANGED <<Group, Mood>>
    BY <1>1, <1>3 DEF Group, Mood
  <2>4. CASE kid'[c] = kid[c]
    BY <1>1, <2>1, <2>2, <2>3, <2>4, Stutters
  <2>5. CASE kid'[c] # kid[c]
    <3>1. Live(c) /\ ~Live(c)' /\ \A d \in Children \ {c} : StageOf(d)' = StageOf(d)
      BY <2>1, <2>2, <2>5 DEF Live, LivePCs
    <3>2. StageOf(c)' = "out"
      BY <1>1, <3>1 DEF StageCases, Forking
    <3>3. CASE faulted
      <4>1. faulted' = TRUE
        BY <1>1, <3>3 DEF TypeInv, TypeOK, FlagTypeOK
      <4> QED BY <1>1, <2>3, <3>1, <3>2, <4>1, Fails DEF HarnessOf!HNext
    <3>4. CASE ~faulted
      <4>1. pc = "reap" /\ ~open
        BY <1>1, <3>4 DEF GroupInv, QuietInv, NoSpuriousError, ErrorPCs, LeavingInv
      <4>2. \A d \in Children : StageOf(d) \in {"reported", "out"}
        BY <4>1 DEF GroupInv, LeavingInv, StageCases, Forking
      <4>3. StageOf(c) = "reported"
        BY <3>1, <4>1 DEF GroupInv, LeavingInv, StageCases, Forking
      <4>4. HarnessOf!To(c, "out")
        BY <1>1, <2>3, <3>1, <3>2, Moves
      <4>5. HarnessOf!Together("reported")
        <5>1. Members \subseteq Children
          BY MembersType DEF TypeInv, TypeOK
        <5> QED BY <4>2, <5>1 DEF HarnessOf!Together, HarnessOf!NotBefore
      <4>6. HarnessOf!Leave(c)
        BY <1>1, <4>3, <4>4, <4>5 DEF HarnessOf!Leave
      <4> QED BY <4>6 DEF HarnessOf!HNext
    <3> QED BY <3>3, <3>4
  <2> QED BY <2>4, <2>5
<1> QED BY <1>2, <1>3

LEMMA WaitRefines ==
  ASSUME TypeInv, TypeInv', StageCases, StageCases', WaitForked \/ WaitAll \/ WaitChild
  PROVE  UNCHANGED HarnessOf!hvars
<1>1. /\ UNCHANGED <<st, need, response, merged, time, par, faulted>>
      /\ pc \in {"waitForked", "waitAll", "reap"} /\ pc' \in {"killForked", "killAll", "reap"}
  BY DEF WaitForked, WaitAll, WaitChild, parentVars, faultVars, pipeVars
<1>2. PICK c \in Children : Reap(c)
  BY IndexInChildren DEF WaitForked, WaitAll, WaitChild, TypeInv, TypeOK
<1>3. StageOf(c)' = "out" /\ StageOf(c) = "out"
  <2>1. ~Live(c) /\ ~Live(c)'
    BY <1>2, ReapEffect DEF Live, LivePCs
  <2> QED BY <1>1, <2>1 DEF StageCases, Forking
<1>4. \A d \in Children \ {c} : StageOf(d)' = StageOf(d)
  BY <1>1, <1>2, ReapEffect, StageStays DEF Reporting, Forking
<1>5. UNCHANGED <<Group, Mood>>
  BY <1>1 DEF Group, Mood, Members
<1> QED BY <1>1, <1>3, <1>4, <1>5, Stutters

LEMMA WaitedRefines ==
  ASSUME GroupInv, GroupInv', StageCases, StageCases', AllWaited
  PROVE  HarnessOf!End
<1>1. /\ UNCHANGED <<kid, st, need, response, merged, time, par, faulted>>
      /\ pc = "reap" /\ i = 0 /\ pc' = "return"
  BY DEF AllWaited, kidVars, parentVars, faultVars, pipeVars
<1>2. \A c \in Children : ~Live(c) /\ ~Live(c)'
  BY <1>1 DEF GroupInv, StrayInv, Gone, Live, LivePCs, Children
<1>3. \A c \in Children : StageOf(c) = "out" /\ StageOf(c)' = "out"
  BY <1>1, <1>2 DEF StageCases, Forking
<1> QED BY <1>1, <1>3 DEF HarnessOf!End


-----------------------------------------------------------------------------
(* The children.                                                           *)

(* Who is not running is out, once the parent has stopped forking.         *)
LEMMA OutOrRunning ==
  ASSUME TypeInv, StageCases, pc \notin Forking, NEW d \in Members
  PROVE  /\ d \in Children
         /\ Live(d) /\ need[d] = 0 => StageOf(d) # "warmup"
         /\ Live(d) /\ st[d] = "cooldown" => StageOf(d) \in {"done", "reporting", "reported"}
         /\ ~Live(d) => StageOf(d) = "out"
         /\ StageOf(d) \in HarnessOf!Stages
<1>1. d \in Children /\ st[d] \in {"warmup", "timing_interval", "cooldown"}
  BY MembersType DEF TypeInv, TypeOK, KidTypeOK, KidStates
<1> QED BY <1>1 DEF StageCases, HarnessOf!Stages

LEMMA StagesOnly ==
  ASSUME TypeInv, StageCases, NEW d \in Children
  PROVE  StageOf(d) \in HarnessOf!Stages
<1>1. st[d] \in {"warmup", "timing_interval", "cooldown"}
  BY DEF TypeInv, TypeOK, KidTypeOK, KidStates
<1> QED BY <1>1 DEF StageCases, HarnessOf!Stages

(* A child of a parent that is still there, before the pipes are closed.   *)
LEMMA OpenRefines ==
  ASSUME TypeInv, TypeInv', BarrierInv, GroupInv, StageCases, StageCases', open,
         NEW c \in Children, Child(c), UNCHANGED <<Group, Mood, merged, time, pc, par, faulted>>,
         \A d \in Children \ {c} : StageOf(d)' = StageOf(d)
  PROVE  HarnessOf!HNext \/ UNCHANGED HarnessOf!hvars
<1>1. /\ OrderOf(c) /\ bytes["exit"] = 0 /\ pc # "dead" /\ ~Orphaned /\ Live(c)
      /\ \A s \in Signals : bytes[s] \in Nat
      /\ kid[c] \in LivePCs /\ st[c] \in KidStates /\ need[c] \in {0, 1}
      /\ \A k \in Kinds : <<k, c>> \in Messages /\ response[<<k, c>>] \in Nat
  BY ChildLive DEF GroupInv, OrderInv, Orphaned, TypeInv, TypeOK, PipeTypeOK, KidTypeOK, Messages,
     Live
<1>2. pc \notin {"idle", "prologue", "return"} /\ Group = Members
  BY <1>1 DEF GroupInv, StrayInv, Gone, Live, LivePCs, Group
<1> USE <1>1 DEF TypeInv, TypeOK, KidTypeOK, PipeTypeOK, Goto, Send, ChildExits, Interval, Signals
<1>3. StageOf(c)' = StageOf(c) => UNCHANGED HarnessOf!hvars
  BY Stutters
<1>4. CASE Install(c)
  <2>1. UNCHANGED <<response, st, need>> /\ kid[c] = "initialize"
        /\ kid'[c] = IF ktermed[c] THEN "exited" ELSE "interval"
    BY <1>4 DEF Install
  <2>2. CASE ktermed[c]
    <3>1. StageOf(c)' = "out"
      <4>1. ~Live(c)' /\ kid'[c] # "none"
        BY <2>1, <2>2 DEF Live, LivePCs
      <4> QED BY <4>1 DEF StageCases
    <3>2. faulted' = TRUE
      <4>1. pc \in Running => faulted
        BY <2>2 DEF GroupInv, QuietInv
      <4>2. pc \in ErrorPCs \cup {"reap"} => faulted
        BY DEF GroupInv, QuietInv, NoSpuriousError, LeavingInv
      <4> QED BY <1>2, <4>1, <4>2 DEF ParentTypeOK, ParentPCs, Running, Warming, Forking, Asking,
                 ErrorPCs, FlagTypeOK
    <3> QED BY <3>1, <3>2, Fails DEF HarnessOf!HNext
  <2>3. CASE ~ktermed[c]
    <3>1. Live(c)' /\ kid[c] # "readExit" /\ kid'[c] # "readExit" /\ Reporting(c)' = Reporting(c)
      BY <2>1, <2>3 DEF Live, LivePCs, Reporting
    <3>2. StageOf(c)' = StageOf(c)
      BY <2>1, <3>1 DEF StageCases, KidStates
    <3> QED BY <1>3, <3>2
  <2> QED BY <2>2, <2>3
<1>5. CASE Sample(c) \/ Rescale(c) \/ CoolDown(c) \/ Benchmark(c)
  <2>1. UNCHANGED <<response, st, need>> /\ kid[c] \in {"interval", "benchmark"}
        /\ kid'[c] \in {"interval", "benchmark", "readResult"}
    BY <1>5 DEF Sample, Rescale, CoolDown, Benchmark, sampleVars, ktermVars
  <2>2. Live(c)' /\ kid[c] # "readExit" /\ kid'[c] # "readExit" /\ Reporting(c)' = Reporting(c)
    BY <2>1 DEF Live, LivePCs, Reporting
  <2>3. StageOf(c)' = StageOf(c)
    BY <2>1, <2>2 DEF StageCases, KidStates
  <2> QED BY <1>3, <2>3
<1>6. CASE WarmUp(c) \/ ReadStart(c)
  <2>1. /\ UNCHANGED st /\ kid[c] \in {"interval", "readStart"} /\ kid'[c] = "benchmark"
        /\ need'[c] = 0 /\ st[c] \in {"warmup", "timing_interval"}
    BY <1>6 DEF WarmUp, ReadStart, SayReady, OrderOf
  <2>2. Live(c)'
    BY <2>1 DEF Live, LivePCs
  <2>3. CASE need[c] = 1
    <3>1. st[c] = "warmup" /\ st'[c] = "warmup"
      BY <2>1, <2>3 DEF OrderOf
    <3>2. StageOf(c) = "warmup" /\ StageOf(c)' = "ready"
      BY <2>1, <2>2, <2>3, <3>1 DEF StageCases
    <3>3. HarnessOf!BecomeReady(c)
      BY <3>2, Moves DEF HarnessOf!BecomeReady
    <3> QED BY <3>3 DEF HarnessOf!HNext
  <2>4. CASE need[c] = 0
    <3>1. StageOf(c)' = StageOf(c)
      BY <2>1, <2>2, <2>4 DEF StageCases
    <3> QED BY <1>3, <3>1
  <2> QED BY <2>3, <2>4
<1>7. CASE EndWarmUp(c)
  <2>1. /\ bytes["start"] > 0 /\ st[c] = "warmup" /\ st'[c] = "timing_interval"
        /\ kid'[c] = "readStart"
    BY <1>7 DEF EndWarmUp, Readable
  <2>2. pc \notin Forking
    BY <2>1 DEF BarrierInv, PhaseInv, Running, Warming
  <2>3. \A d \in Members : StageOf(d) # "warmup" /\ StageOf(d) \in HarnessOf!Stages
    <3> SUFFICES ASSUME NEW d \in Members
                 PROVE  StageOf(d) # "warmup" /\ StageOf(d) \in HarnessOf!Stages
      OBVIOUS
    <3>1. d \in Children /\ (Live(d) => need[d] = 0)
      BY <2>1, <2>2, OutOrRunning DEF GroupInv, OrderInv, OrderOf
    <3> QED BY <2>2, <3>1, OutOrRunning
  <2>4. StageOf(c) = "ready" /\ StageOf(c)' = "timing"
    <3>1. need[c] = 0 /\ Live(c)'
      BY <2>1 DEF OrderOf, Live, LivePCs
    <3> QED BY <2>1, <3>1 DEF StageCases
  <2>5. HarnessOf!Together("ready")
    BY <1>2, <2>3, MembersType DEF HarnessOf!Together, HarnessOf!NotBefore, Group
  <2>6. HarnessOf!StartTiming(c)
    BY <2>4, <2>5, Moves DEF HarnessOf!StartTiming
  <2> QED BY <2>6 DEF HarnessOf!HNext
<1>8. CASE FinishTiming(c)
  <2>1. /\ st[c] = "timing_interval" /\ st'[c] = "cooldown" /\ kid'[c] = "benchmark"
        /\ response'[<<"results", c>>] = response[<<"results", c>>]
    BY <1>8 DEF FinishTiming, Kinds
  <2>2. ~Reporting(c)' /\ Live(c)'
    BY <2>1 DEF OrderOf, Reporting, Live, LivePCs, Kinds
  <2>3. StageOf(c) = "timing" /\ StageOf(c)' = "done"
    BY <2>1, <2>2 DEF StageCases
  <2>4. HarnessOf!FinishTiming(c)
    BY <2>3, Moves DEF HarnessOf!FinishTiming
  <2> QED BY <2>4 DEF HarnessOf!HNext
<1>9. CASE ReadResult(c)
  <2>1. /\ bytes["result"] > 0 /\ kid[c] = "readResult" /\ kid'[c] = "reply" /\ UNCHANGED st
    BY <1>9 DEF ReadResult, Take, Readable
  <2>2. bytes["result"] = 1 /\ \A d \in Children : ~Reporting(d)
    BY <2>1 DEF BarrierInv, SoleReporter
  <2>3. pc \notin Forking
    BY <2>1 DEF BarrierInv, PhaseInv, Running, Warming, Forking
  <2>4. \A d \in Members : StageOf(d) \in {"done", "reported", "out"} /\ d \in Children
    <3> SUFFICES ASSUME NEW d \in Members
                 PROVE  StageOf(d) \in {"done", "reported", "out"} /\ d \in Children
      OBVIOUS
    <3>1. d \in Children
      BY <2>3, OutOrRunning
    <3>2. Live(d) => st[d] = "cooldown"
      BY <2>1, <3>1 DEF GroupInv, OrderInv, OrderOf
    <3> QED BY <2>2, <2>3, <3>1, <3>2 DEF StageCases
  <2>5. StageOf(c) = "done" /\ StageOf(c)' = "reporting"
    <3>1. st[c] = "cooldown" /\ Live(c)' /\ Reporting(c)'
      BY <2>1 DEF OrderOf, Live, LivePCs, Reporting
    <3> QED BY <2>1, <2>2, <3>1 DEF StageCases
  <2>6. HarnessOf!Together("done")
    BY <1>2, <2>4 DEF HarnessOf!Together, HarnessOf!NotBefore, HarnessOf!Stages, Group
  <2>7. HarnessOf!StartReport(c)
    BY <1>2, <2>4, <2>5, <2>6, Moves DEF HarnessOf!StartReport, Group
  <2> QED BY <2>7 DEF HarnessOf!HNext
<1>10. CASE Reply(c)
  <2>1. /\ kid[c] = "reply" /\ kid'[c] = "readExit" /\ UNCHANGED st /\ st[c] = "cooldown"
        /\ response'[<<"results", c>>] = response[<<"results", c>>] + 1
    BY <1>10 DEF Reply, OrderOf, Kinds
  <2>2. Reporting(c) /\ Reporting(c)' /\ Live(c)'
    BY <2>1 DEF Reporting, Live, LivePCs, Kinds
  <2>3. StageOf(c)' = StageOf(c)
    BY <2>1, <2>2 DEF StageCases
  <2> QED BY <1>3, <2>3
<1>11. ~Orphan(c) /\ ~ReadExit(c)
  BY DEF Orphan, ReadExit, Take, Readable
<1> QED BY <1>4, <1>5, <1>6, <1>7, <1>8, <1>9, <1>10, <1>11 DEF Child

LEMMA ChildRefines ==
  ASSUME TypeInv, TypeInv', BarrierInv, GroupInv, GroupInv', StageCases, StageCases',
         NEW c \in Children, Child(c)
  PROVE  HarnessOf!HNext \/ UNCHANGED HarnessOf!hvars
<1>1. UNCHANGED <<pc, i, par, merged, time, open, faulted>> /\ Members' = Members
  BY ChildFrame DEF childRest, parentVars, faultVars, Members
<1>2. UNCHANGED <<Group, Mood>>
  BY <1>1 DEF Group, Mood
<1>3. ASSUME NEW d \in Children \ {c} PROVE StageOf(d)' = StageOf(d)
  <2>1. /\ kid'[d] = kid[d] /\ st'[d] = st[d] /\ need'[d] = need[d]
        /\ response'[<<"results", d>>] = response[<<"results", d>>]
    BY ChildAlone DEF Kinds
  <2>2. /\ Live(d)' = Live(d) /\ Reporting(d)' = Reporting(d)
        /\ st[d] \in {"warmup", "timing_interval", "cooldown"}
    BY <2>1 DEF Live, Reporting, TypeInv, TypeOK, KidTypeOK, KidStates
  <2> QED BY <1>1, <2>1, <2>2 DEF StageCases, Forking
<1>4. CASE pc = "dead"
  <2>1. \A d \in Children : StageOf(d)' \in HarnessOf!Stages
    <3>1. \A d \in Children : st'[d] \in {"warmup", "timing_interval", "cooldown"}
      BY DEF TypeInv, TypeOK, KidTypeOK, KidStates
    <3> QED BY <3>1 DEF StageCases, HarnessOf!Stages
  <2>2. [d \in Children |-> StageOf(d)]' \in [Children -> HarnessOf!Stages]
    BY <2>1
  <2>3. HarnessOf!Wander
    BY <1>1, <1>4, <2>2 DEF HarnessOf!Wander
  <2> QED BY <2>3 DEF HarnessOf!HNext
<1>5. CASE open
  BY <1>1, <1>2, <1>3, <1>5, OpenRefines
<1>6. CASE pc # "dead" /\ ~open
  <2>1. pc = "reap"
    <3>1. pc \notin {"idle", "prologue", "return"}
      BY ChildLive DEF GroupInv, StrayInv, Gone, Live, LivePCs
    <3> QED BY <1>6, <3>1 DEF GroupInv, OrderInv, TypeInv, TypeOK, ParentTypeOK, ParentPCs,
               Running, Warming, Forking, Asking, ErrorPCs
  <2>2. kid[c] = "readExit" /\ StageOf(c) = "reported"
    BY <1>6, <2>1, ChildLive DEF GroupInv, LeavingInv, StageCases, Forking
  <2>3. kid'[c] = "exited"
    BY <2>2 DEF Child, Install, Orphan, WarmUp, EndWarmUp, ReadStart, Sample, Rescale,
       FinishTiming, CoolDown, ReadResult, Reply, ReadExit, Benchmark, Interval, ChildExits,
       TypeInv, TypeOK, KidTypeOK
  <2>4. StageOf(c)' = "out"
    <3>1. ~Live(c)' /\ kid'[c] # "none"
      BY <2>3 DEF Live, LivePCs
    <3> QED BY <3>1 DEF StageCases
  <2>5. \A d \in Members : d \in Children /\ StageOf(d) \in {"reported", "out"}
    BY <1>6, <2>1, MembersType DEF GroupInv, LeavingInv, StageCases, Forking, TypeInv, TypeOK
  <2>6. HarnessOf!Together("reported")
    BY <2>1, <2>5 DEF HarnessOf!Together, HarnessOf!NotBefore
  <2>7. HarnessOf!Leave(c)
    BY <1>1, <1>2, <1>3, <2>2, <2>4, <2>6, Moves DEF HarnessOf!Leave
  <2> QED BY <2>7 DEF HarnessOf!HNext
<1> QED BY <1>4, <1>5, <1>6

-----------------------------------------------------------------------------
(* The environment.                                                        *)

LEMMA FaultRefines ==
  ASSUME TypeInv, TypeInv', GroupInv, GroupInv', StageCases, StageCases',
         PipeFails \/ PidsFail \/ Sigterm \/ Kill
  PROVE  HarnessOf!HNext
<1>1. /\ UNCHANGED <<kid, st, need, response, merged, time, par>> /\ Members' = Members
      /\ pc # "dead" /\ faulted' = TRUE
      /\ pc' \in {"dead", pc} \/ (pc = "prologue" /\ pc' = "return")
  <2> USE DEF Fault, kidVars, parentVars, pipeVars, Members
  <2>1. CASE PipeFails \/ PidsFail
    <3>1. UNCHANGED <<kid, st, need, response, merged, time, par>>
      BY <2>1 DEF PipeFails, PidsFail
    <3>2. pc = "prologue" /\ pc' = "return" /\ faulted' = TRUE
      BY <2>1 DEF PipeFails, PidsFail
    <3> QED BY <3>1, <3>2
  <2>2. CASE Sigterm \/ Kill
    BY <2>2 DEF Sigterm, Kill, ParentDies
  <2> QED BY <2>1, <2>2
<1>2. \A c \in Children : StageOf(c)' = StageOf(c) \/ StageOf(c)' = "out"
  <2> SUFFICES ASSUME NEW c \in Children PROVE StageOf(c)' = StageOf(c) \/ StageOf(c)' = "out"
    OBVIOUS
  <2>1. /\ Live(c)' = Live(c) /\ Reporting(c)' = Reporting(c)
        /\ st[c] \in {"warmup", "timing_interval", "cooldown"}
    BY <1>1 DEF Live, Reporting, TypeInv, TypeOK, KidTypeOK, KidStates
  <2> QED BY <1>1, <2>1 DEF StageCases, Forking
<1>3. CASE pc' = "dead"
  BY <1>1, <1>2, <1>3, Loses DEF HarnessOf!HNext
<1>4. CASE pc' # "dead"
  BY <1>1, <1>2, <1>4, Fails DEF HarnessOf!HNext, Group
<1> QED BY <1>3, <1>4

LEMMA CrashRefines ==
  ASSUME TypeInv, TypeInv', GroupInv, GroupInv', StageCases, StageCases',
         NEW c \in Children, Crash(c)
  PROVE  HarnessOf!HNext
<1>1. /\ UNCHANGED <<pc, st, need, response, merged, time, par>> /\ Members' = Members
      /\ faulted' = TRUE /\ Live(c) /\ kid'[c] = "exited"
      /\ \A d \in Children \ {c} : kid'[d] = kid[d]
  BY DEF Crash, Fault, ChildExits, parentVars, pipeVars, Members, TypeInv, TypeOK, KidTypeOK
<1>2. StageOf(c)' = "out"
  <2>1. ~Live(c)' /\ kid'[c] # "none"
    BY <1>1 DEF Live, LivePCs
  <2> QED BY <2>1 DEF StageCases
<1>3. ASSUME NEW d \in Children \ {c} PROVE StageOf(d)' = StageOf(d)
  <2>1. /\ Live(d)' = Live(d) /\ Reporting(d)' = Reporting(d)
        /\ st[d] \in {"warmup", "timing_interval", "cooldown"}
    BY <1>1 DEF Live, Reporting, TypeInv, TypeOK, KidTypeOK, KidStates
  <2> QED BY <1>1, <2>1 DEF StageCases, Forking
<1>4. CASE pc = "dead"
  <2>1. \A d \in Children : StageOf(d)' \in HarnessOf!Stages
    <3>1. \A d \in Children : st'[d] \in {"warmup", "timing_interval", "cooldown"}
      BY DEF TypeInv, TypeOK, KidTypeOK, KidStates
    <3> QED BY <3>1 DEF StageCases, HarnessOf!Stages
  <2>2. HarnessOf!Wander
    BY <1>1, <1>4, <2>1 DEF HarnessOf!Wander
  <2> QED BY <2>2 DEF HarnessOf!HNext
<1>5. CASE pc # "dead"
  BY <1>1, <1>2, <1>3, <1>5, Fails DEF HarnessOf!HNext, Group
<1> QED BY <1>4, <1>5

-----------------------------------------------------------------------------
LEMMA InitRefines == TypeInv /\ StageCases /\ Init => HarnessOf!HInit
<1> SUFFICES ASSUME TypeInv, StageCases, Init PROVE HarnessOf!HInit
  OBVIOUS
<1>1. \A c \in Children : StageOf(c) = "out" /\ ~(merged[c] > 0)
  BY DEF Init, StageCases, Forking, Live, LivePCs
<1> QED BY <1>1 DEF Init, HarnessOf!HInit

LEMMA StepRefines ==
  ASSUME TypeInv, TypeInv', BarrierInv, GroupInv, GroupInv', StageCases, StageCases', [Next]_vars
  PROVE  [HarnessOf!HNext]_(HarnessOf!hvars)
<1>1. CASE Parent \/ Alarm
  <2>1. CASE Call \/ Return
    BY <2>1, CallRefines
  <2>2. CASE Prologue
    BY <2>2, PrologueRefines DEF HarnessOf!HNext
  <2>3. CASE ForkTest \/ Fork \/ EnterParent
    BY <2>3, ForkRefines
  <2>4. CASE SendStart \/ AskResult \/ ParentNotices
    BY <2>4, SignalRefines DEF HarnessOf!HNext
  <2>5. CASE CollectReady \/ CollectDone
    BY <2>5, CollectRefines
  <2>6. CASE CollectResult \/ SendExit
    BY <2>6, ReportRefines, ExitRefines
  <2>7. CASE KillForked \/ KillAll \/ Alarm
    BY <2>7, KillRefines
  <2>8. CASE WaitForked \/ WaitAll \/ WaitChild
    BY <2>8, WaitRefines
  <2>9. CASE AllWaited
    BY <2>9, WaitedRefines DEF HarnessOf!HNext
  <2> QED BY <1>1, <2>1, <2>2, <2>3, <2>4, <2>5, <2>6, <2>7, <2>8, <2>9 DEF Parent
<1>2. ASSUME NEW c \in Children, Child(c) PROVE [HarnessOf!HNext]_(HarnessOf!hvars)
  BY <1>2, ChildRefines
<1>3. CASE Environment
  BY <1>3, ForkRefines, FaultRefines, CrashRefines DEF Environment
<1>4. CASE UNCHANGED vars
  <2>1. UNCHANGED <<pc, par, merged, time, faulted, kid, st, need, response>>
    BY <1>4 DEF vars, parentVars, pipeVars, kidVars, faultVars
  <2>2. \A c \in Children : StageOf(c)' = StageOf(c)
    BY <2>1 DEF StageOf, Live, Members, Forked, Reporting
  <2> QED BY <2>1, <2>2, Stutters DEF Group, Mood, Members
<1> QED BY <1>1, <1>2, <1>3, <1>4 DEF Next, Terminating

(* Every behaviour of benchmp(), with any number of children, calls and    *)
(* faults, is one the document allows (lib_timing.c:152-514, 659-772).     *)
THEOREM ImplementsCorrect == Spec => Implements
<1>1. TypeInv /\ StageCases /\ Init => HarnessOf!HInit
  BY InitRefines
<1>2. /\ TypeInv /\ TypeInv' /\ BarrierInv /\ GroupInv /\ GroupInv' /\ StageCases /\ StageCases'
      /\ [Next]_vars
      => [HarnessOf!HNext]_(HarnessOf!hvars)
  BY StepRefines
<1>3. TypeInv => StageCases
  BY StageType
<1>4. Spec => HarnessOf!HSpec
  BY <1>1, <1>2, <1>3, TypeCorrect, BarrierCorrect, GroupCorrect, PTL DEF Spec, HarnessOf!HSpec
<1> QED BY <1>4 DEF Implements
=============================================================================

------------------------------ MODULE Harness ------------------------------
(***************************************************************************)
(* What lmbench3/doc/lmbench3.ms promises of benchmp(): the children of a  *)
(* measurement pass three barriers together.  Nobody measures before every *)
(* child is ready, nobody reports before every child has measured, nobody  *)
(* leaves before every child has reported, the response pipe belongs to    *)
(* one reporting child at a time, and a time is published only if every    *)
(* child's report is in it.  When something fails children may vanish, but *)
(* none passes a barrier early; only without a parent do they run free.    *)
(***************************************************************************)
CONSTANT Children

VARIABLES
    group,     \* the children of the current measurement
    stage,     \* how far each child is
    mood,      \* "well", "failing" (children are lost) or "lost" (no parent)
    reports,   \* the children whose report has been received
    published  \* has the measurement produced a time?

hvars == <<group, stage, mood, reports, published>>

Stages == {"out", "warmup", "ready", "timing", "done", "reporting", "reported"}

(* The children that are not before stage s; one that vanished is not.     *)
NotBefore(s) ==
    CASE s = "ready"    -> Stages \ {"warmup"}
      [] s = "done"     -> Stages \ {"warmup", "ready", "timing"}
      [] s = "reported" -> {"reported", "out"}

Together(s) == \A c \in group : stage[c] \in NotBefore(s)

HInit == /\ group = {} /\ stage = [c \in Children |-> "out"]
         /\ mood = "well" /\ reports = {} /\ published = FALSE

(* A measurement begins when nobody of the last one is left ...            *)
Begin == /\ group = {} /\ mood # "lost"
         /\ \A c \in Children : stage[c] = "out"
         /\ group' \in SUBSET Children /\ group' # {}
         /\ stage' = [c \in Children |-> IF c \in group' THEN "warmup" ELSE "out"]
         /\ mood' = "well" /\ reports' = {} /\ UNCHANGED published

(* ... and ends likewise.                                                  *)
End == /\ \A c \in Children : stage[c] = "out"
       /\ group' = {} /\ UNCHANGED <<stage, mood, reports, published>>

Forget == /\ group = {} /\ published' = FALSE
          /\ UNCHANGED <<group, stage, mood, reports>>

To(c, s) == stage' = [stage EXCEPT ![c] = s] /\ UNCHANGED <<group, mood, published>>

BecomeReady(c) == stage[c] = "warmup" /\ To(c, "ready") /\ UNCHANGED reports
StartTiming(c) == stage[c] = "ready" /\ Together("ready") /\ To(c, "timing") /\ UNCHANGED reports
FinishTiming(c) == stage[c] = "timing" /\ To(c, "done") /\ UNCHANGED reports
StartReport(c) == /\ stage[c] = "done" /\ Together("done")
                  /\ \A d \in group : stage[d] # "reporting"
                  /\ To(c, "reporting") /\ UNCHANGED reports
FinishReport(c) == /\ stage[c] = "reporting" /\ To(c, "reported")
                   /\ c \notin reports /\ reports' = reports \cup {c}
Leave(c) == stage[c] = "reported" /\ Together("reported") /\ To(c, "out") /\ UNCHANGED reports

Publish == /\ mood # "lost" /\ group # {} /\ reports = group
           /\ published' = TRUE /\ UNCHANGED <<group, stage, mood, reports>>

(* Some children are gone from one moment to the next.                     *)
Vanishing == \E S \in SUBSET Children :
                 stage' = [c \in Children |-> IF c \in S THEN "out" ELSE stage[c]]

Fail == /\ mood # "lost" /\ mood' = "failing" /\ Vanishing
        /\ UNCHANGED <<group, reports, published>>
Lose == mood' = "lost" /\ group' = {} /\ Vanishing /\ UNCHANGED <<reports, published>>
Wander == /\ mood = "lost" /\ stage' \in [Children -> Stages]
          /\ UNCHANGED <<group, mood, reports, published>>

HNext ==
    \/ Begin \/ End \/ Forget \/ Publish \/ Fail \/ Lose \/ Wander
    \/ \E c \in Children :
          \/ BecomeReady(c) \/ StartTiming(c) \/ FinishTiming(c)
          \/ StartReport(c) \/ FinishReport(c) \/ Leave(c)

HSpec == HInit /\ [][HNext]_hvars
=============================================================================

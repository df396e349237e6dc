------------------------------- MODULE Sweep -------------------------------
(***************************************************************************)
(* lat_mem_rd: one call of benchmp() for every array size, the fastest     *)
(* sample of each printed.  The processes of benchmp() are those of module *)
(* Benchmp; here they are what they do to the lists of samples.  A group   *)
(* is preceded by a baseline with one child, whose results are published   *)
(* through the same global variable.  benchmp() returns nothing: a caller  *)
(* cannot see that it gave up.                                             *)
(***************************************************************************)
EXTENDS Results

CONSTANTS
    Parallel,     \* -P
    Repetitions,  \* -N, negative when it was not given
    Length,       \* the largest array size
    Stride,       \* smaller arrays are passed over
    Times,        \* the durations a sample may have
    Iterations,   \* the iteration counts a sample may have
    MaxFailures   \* bound: how many calls give up

Children == 1 .. Parallel

(* A child leaves its measurements when state->i >= repetitions, a test it *)
(* makes after a sample.                                                   *)
Wanted == IF Repetitions < 1 THEN 1 ELSE Repetitions

ASSUME ParallelAssumption == Parallel \in Nat \ {0}
ASSUME RepetitionsAssumption == Repetitions \in Int
ASSUME LengthAssumption == Length \in Nat /\ Stride \in Nat
ASSUME DataAssumption == Times \subseteq Nat /\ Iterations \subseteq Nat \ {0}
ASSUME FailuresAssumption == MaxFailures \in Nat
(* Without it the merged list is too short: see the README.                *)
ASSUME RoomAssumption == Repetitions >= 1 \/ Parallel <= TRIES

VARIABLES
    pc,          \* size, measure, report, print or exit
    range,       \* the array size of this turn
    par,         \* parallel in the running benchmp()
    iterations,  \* benchmp()'s iteration count, the same for every child
    list,        \* each child's result_t
    i,           \* each child's state->i
    done,        \* the children in cooldown
    told,        \* the children that have reported
    report,      \* what is still to be merged of the last report
    merged,      \* merged_results
    results,     \* the list the global `results' points to
    time,        \* gettime() and get_n()
    line,        \* the last line of output
    taken,       \* the samples of this activation (history variable)
    success,     \* the group's results were published (history variable)
    failures     \* calls that gave up

groupVars == <<list, i, done, told, report, merged, taken>>
vars == <<pc, range, par, iterations, groupVars, results, time, line, success, failures>>

Active == 1 .. par

(* The powers of two, and the first of them from 4096 on that is beyond k. *)
TwoTo[m \in Nat] == IF m = 0 THEN 1 ELSE 2 * TwoTo[m - 1]
Octave(k) == CHOOSE s \in {4096 * TwoTo[m] : m \in 0 .. k \div 4096} :
                 s > k /\ (s > 4096 => s \div 2 <= k)

(* MUTANT: `s < k' instead of `s <= k'.                                    *)
stepLate(k) == IF k < 1024 THEN 2 * k
               ELSE IF k < 4 * 1024 THEN k + 1024
               ELSE k + Octave(k - 1) \div 4

step(k) == IF k < 1024 THEN 2 * k
           ELSE IF k < 4 * 1024 THEN k + 1024
           ELSE k + Octave(k) \div 4

-----------------------------------------------------------------------------
(* benchmp() starts n children.                                            *)
Activate(n) ==
    /\ par' = n /\ iterations' \in IF n > 1 THEN Iterations ELSE {1}
    /\ list' = [c \in Children |-> <<>>] /\ i' = [c \in Children |-> 0]
    /\ done' = {} /\ told' = {} /\ report' = <<>> /\ merged' = <<>> /\ taken' = {}
    /\ time' = Nothing

(* The loop over the sizes: the baseline, or the only measurement.         *)
Call ==
    /\ pc = "size" /\ range <= Length /\ range >= Stride
    /\ pc' = "measure" /\ success' = FALSE
    /\ Activate(1)
    /\ UNCHANGED <<range, results, line, failures>>

Skip ==
    /\ pc = "size" /\ range <= Length /\ range < Stride
    /\ range' = step(range)
    /\ UNCHANGED <<pc, par, iterations, groupVars, results, time, line, success, failures>>

Exit ==
    /\ pc = "size" /\ range > Length /\ pc' = "exit"
    /\ UNCHANGED <<range, par, iterations, groupVars, results, time, line, success, failures>>

(* benchmp_interval() in timing_interval: the children of a group keep     *)
(* their iteration count, a lone child adjusts it between samples and      *)
(* accepts none that is much shorter than `enough'.                        *)
Measure(c) ==
    /\ pc = "measure" /\ c \in Active \ done
    /\ \E u \in IF par > 1 THEN Times ELSE Times \ {0},
          n \in IF par > 1 THEN {iterations} ELSE Iterations :
          LET v == [u |-> u, n |-> n] IN
          /\ list' = [list EXCEPT ![c] = insertsort(v, @)]
          /\ taken' = IF u = 0 THEN taken ELSE taken \cup {v}
    /\ i' = [i EXCEPT ![c] = @ + 1]
    /\ done' = IF i[c] + 1 >= Repetitions THEN done \cup {c} ELSE done
    /\ UNCHANGED <<pc, range, par, iterations, told, report, merged, results, time, line,
                   success, failures>>

(* A lone child finds no iteration count that is long enough.              *)
Exhausted(c) ==
    /\ pc = "measure" /\ par = 1 /\ c \in Active \ done
    /\ done' = done \cup {c}
    /\ UNCHANGED <<pc, range, par, iterations, list, i, told, report, merged, results, time,
                   line, taken, success, failures>>

(* The parent has heard of every child that it is done.                    *)
AllDone ==
    /\ pc = "measure" /\ done = Active /\ pc' = "report"
    /\ UNCHANGED <<range, par, iterations, groupVars, results, time, line, success, failures>>

(* MUTANT: the loop over the report starts at one.                         *)
ReportFromOne(c) ==
    /\ pc = "report" /\ report = <<>> /\ c \in Active \ told
    /\ told' = told \cup {c} /\ report' = IF list[c] = <<>> THEN <<>> ELSE Tail(list[c])
    /\ UNCHANGED <<pc, range, par, iterations, list, i, done, merged, results, time, line,
                   taken, success, failures>>

(* Whichever child takes the byte reports.                                 *)
Report(c) ==
    /\ pc = "report" /\ report = <<>> /\ c \in Active \ told
    /\ told' = told \cup {c} /\ report' = list[c]
    /\ UNCHANGED <<pc, range, par, iterations, list, i, done, merged, results, time, line,
                   taken, success, failures>>

Merge ==
    /\ pc = "report" /\ report # <<>>
    /\ merged' = insertsort(Head(report), merged) /\ report' = Tail(report)
    /\ UNCHANGED <<pc, range, par, iterations, list, i, done, told, results, time, line,
                   taken, success, failures>>

(* set_results() after the last report.  A group follows its baseline if   *)
(* that measured anything; its lists are new, `results' stays.             *)
Publish ==
    /\ pc = "report" /\ report = <<>> /\ told = Active
    /\ results' = merged
    /\ \/ /\ par = Parallel
          /\ time' = median(merged) /\ success' = TRUE /\ pc' = "print"
          /\ UNCHANGED <<par, iterations, groupVars>>
       \/ /\ par # Parallel /\ median(merged).u # 0
          /\ pc' = "measure" /\ Activate(Parallel) /\ UNCHANGED success
       \/ /\ par # Parallel /\ median(merged).u = 0
          /\ time' = median(merged) /\ pc' = "print"
          /\ UNCHANGED <<par, iterations, groupVars, success>>
    /\ UNCHANGED <<range, line, failures>>

(* benchmp() gives up: the time is still nothing, `results' is what it was.*)
GiveUp ==
    /\ pc \in {"measure", "report"} /\ failures < MaxFailures
    /\ failures' = failures + 1 /\ pc' = "print"
    /\ UNCHANGED <<range, par, iterations, groupVars, results, time, line, success>>

(* save_minimum(), the line of output, and the next size.                  *)
PrintLine ==
    /\ pc = "print" /\ pc' = "size"
    /\ time' = minimum(results)
    /\ line' = [range |-> range, time |-> minimum(results)]
    /\ range' = step(range)
    /\ UNCHANGED <<par, iterations, groupVars, results, success, failures>>

Init ==
    /\ pc = "size" /\ range = 512
    /\ par = 1 /\ iterations = 1
    /\ list = [c \in Children |-> <<>>] /\ i = [c \in Children |-> 0]
    /\ done = {} /\ told = {} /\ report = <<>> /\ merged = <<>> /\ taken = {}
    /\ results = <<>> /\ time = Nothing
    /\ line = [range |-> 0, time |-> Nothing]
    /\ success = FALSE /\ failures = 0

Next ==
    \/ Call \/ Skip \/ Exit \/ AllDone \/ Merge \/ Publish \/ GiveUp \/ PrintLine
    \/ \E c \in Children : Measure(c) \/ Exhausted(c) \/ Report(c)

Spec == Init /\ [][Next]_vars
=============================================================================

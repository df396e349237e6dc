------------------------------ MODULE MCSweep ------------------------------
(* lat_mem_rd on a few sizes, and what its lines must say.                 *)
EXTENDS Sweep, SweepSafety, FiniteSets

CONSTANT Exponents  \* bound: the powers of two that are looked for

ASSUME ExponentsAssumption == Exponents \subseteq Nat

NotGiven == -1

Positions(v, r) == {k \in DOMAIN r : r[k] = v}

(* The turns at which the children of S took sample v.                     *)
TakenBy(S, v) == {s \in S \X (1 .. Wanted) : s[2] \in Positions(v, list[s[1]])}

(* Every sample a child of the group took is in the published list, and as *)
(* often as it was taken (lib_timing.c:451-484, 1226-1248).                *)
NothingLost ==
    pc = "print" /\ success => \A v \in taken :
        Cardinality(Positions(v, results)) =
            Cardinality(TakenBy(Active, v))

(* After a measurement that succeeded, the line is the fastest of all the  *)
(* samples taken for this size (lat_mem_rd.c:143-150).                     *)
LineIsBest ==
    pc = "size" /\ success =>
        IF taken = {} THEN line.time = Nothing
        ELSE line.time \in taken /\ \A v \in taken : ~ Slower(line.time, v)

(* What benchmp() leaves as the time of a group: at most half of the       *)
(* samples are slower, at most half are faster (lib_timing.c:1279-1297).   *)
MedianIsMiddle ==
    pc = "print" /\ success /\ par > 1 =>
        /\ 2 * Cardinality({k \in DOMAIN results : Slower(results[k], time)}) <= Len(results)
        /\ 2 * Cardinality({k \in DOMAIN results : Slower(time, results[k])}) <= Len(results)

(* The sizes grow, and no power of two is passed over: a cache of such a   *)
(* size is seen (lat_mem_rd.c:154-169).                                    *)
PowersVisited ==
    [][range' # range => /\ range' > range
                         /\ \A m \in Exponents : TwoTo[m] \notin range + 1 .. range' - 1]_range

(* doc/lat_mem_rd.8:60-62: the data points are the array size and the load *)
(* latency over all points in that array.                                  *)
LineOfThisArray ==
    pc = "size" /\ line.time # Nothing => line.time \in taken
=============================================================================

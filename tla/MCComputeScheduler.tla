------------------------- MODULE MCComputeScheduler -------------------------
(* Small instances: a cpu-like resource, scaled and reserved from, and gpu. *)
(* 4 cpu at 80% minus 1 leaves 2, so one large or two small requests fit.   *)
EXTENDS ComputeScheduler

MCPoolOf == [n \in Nodes |-> CHOOSE p \in Pools : TRUE]
MCResources == {"cpu", "gpu"}
MCReserve == [r \in {"cpu"} |-> 1]
MCConfigs == {[region |-> "eu", classes |-> {"web"}]}

Large == [class |-> "web", region |-> AnyRegion, need |-> [cpu |-> 2, gpu |-> 0]]
Small == [class |-> "web", region |-> "eu", need |-> [cpu |-> 1, gpu |-> 1]]

TwoTotals == {[cpu |-> 4, gpu |-> 2], [cpu |-> 1, gpu |-> 1]}
BothSizes == {Large, Small}
=============================================================================

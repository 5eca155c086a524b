---------------------------- MODULE MCFailover ----------------------------
(* Instances of RequestFailover for TLC. *)
EXTENDS RequestFailover, TLC

\* all of the bounds are there to be used
Fresh == {[gen |-> 1, size |-> MaxNodes, commands |-> 0, refreshes |-> 0,
           ticks |-> 0, retries |-> 0]}

\* All of them at once make too many states: each scenario keeps some.
TwoCommands == [gen |-> MaxGen, size |-> MaxNodes, commands |-> 0,
                refreshes |-> MaxRefresh, ticks |-> MaxTicks, retries |-> 0]
CommandAndRefresh == [gen |-> 1, size |-> MaxNodes, commands |-> 1,
                      refreshes |-> 0, ticks |-> MaxTicks, retries |-> MaxRetries]
CommandAndRetry == [gen |-> 1, size |-> MaxNodes, commands |-> 1,
                    refreshes |-> MaxRefresh, ticks |-> MaxTicks, retries |-> 0]
CommandAndTick == [gen |-> 1, size |-> 1, commands |-> 1,
                   refreshes |-> MaxRefresh, ticks |-> 0, retries |-> MaxRetries]
TickAndRetry == [gen |-> MaxGen, size |-> 1, commands |-> 1,
                 refreshes |-> MaxRefresh, ticks |-> 0, retries |-> 0]
Scenarios == {TwoCommands, CommandAndRefresh, CommandAndRetry, CommandAndTick, TickAndRetry}

\* callers are interchangeable
Symmetry == Permutations(Callers)
===========================================================================

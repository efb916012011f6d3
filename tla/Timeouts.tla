------------------------------ MODULE Timeouts ------------------------------
(***************************************************************************)
(* The list next_timeout of lwIP's core/timers.c: every element holds a    *)
(* handler and the time from the element in front of it, the first one     *)
(* from timeouts_last_time.                                                *)
(***************************************************************************)
EXTENDS Integers, Sequences, SequencesExt, FiniteSetsExt, Loops

\* The time from timeouts_last_time to the j-th timeout.
AddTime(r) == [r EXCEPT !.i = @ + 1, !.sum = @ + r.ts[r.i].time]
Until(ts, j) == Iterate(AddTime, j, [ts |-> ts, i |-> 1, sum |-> 0]).sum

\* A timeout of msecs goes behind the first j.
After(ts, msecs) ==
    Min({j \in 0..Len(ts) : j = Len(ts) \/ ts[j + 1].time > msecs - Until(ts, j)})

\* Mutant: the timeout behind the new one is taken back by all of msecs.
InsertTooNear(ts, j, h, msecs) ==
    [i \in 1..(Len(ts) + 1) |->
        CASE i <= j -> ts[i]
          [] i = j + 1 -> [h |-> h, time |-> msecs - Until(ts, j)]
          [] i = j + 2 -> [ts[j + 1] EXCEPT !.time = @ - msecs]
          [] OTHER -> ts[i - 1]]
Insert(ts, j, h, msecs) ==
    [i \in 1..(Len(ts) + 1) |->
        CASE i <= j -> ts[i]
          [] i = j + 1 -> [h |-> h, time |-> msecs - Until(ts, j)]
          [] i = j + 2 -> [ts[j + 1] EXCEPT !.time = @ - (msecs - Until(ts, j))]
          [] OTHER -> ts[i - 1]]

sys_timeout(ts, h, msecs) == Insert(ts, After(ts, msecs), h, msecs)
=============================================================================

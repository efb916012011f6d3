------------------------------ MODULE MCQueue -------------------------------
\* Module Queue with model values for TLC.
EXTENDS Queue

CONSTANTS t1, t2, idle

MCTask == {t1, t2, idle}

\* t2 has the higher priority.
Staggered == [t \in Task |-> IF t = idle THEN 0 ELSE IF t = t1 THEN 1 ELSE 2]

\* The items are interchangeable.
Symmetry == Permutations(Item)

Use(length, kind, positions, waits, isr, ticks) ==
    [uxLength |-> length, peeks |-> kind = "peeks", semaphore |-> kind = "semaphore",
     positions |-> positions, waits |-> waits, isr |-> isr, ticks |-> ticks]

\* A queue of two items with an ISR at both ends; a mailbox that is
\* overwritten, for long enough that the tick counter wraps; a queue into
\* which tasks look without taking anything; a counting semaphore.
MCUses ==
    {Use(2, "items", {"back", "front"}, {1}, TRUE, 2),
     Use(1, "items", {"overwrite", "back"}, {2}, FALSE, 6),
     Use(1, "peeks", {"back"}, {1}, TRUE, 2),
     Use(2, "semaphore", {"back"}, {1, 3}, TRUE, 3)}
=============================================================================

------------------------------- MODULE LogLines -------------------------------
(* What the log redirection promises of the lines logged, as long as there is  *)
(* memory for them: a line belongs to the task that logs it, to a queue of     *)
(* limited length or to the sender, one at a time; it leaves the queue in its  *)
(* turn or is dropped before it gets there; and memory that somebody still     *)
(* reads is never given out again.  What the sender is through with stays      *)
(* allocated until the chip restarts.  A line there is no memory for ends all  *)
(* promises until then.                                                       *)
EXTENDS Naturals, Sequences

CONSTANTS Lines, Capacity

VARIABLES
    owner,  \* of each line: "nobody", "task", "queue", "sender" or "leaked"
    order,  \* of the lines in the queue
    short   \* there was no memory for a line

NobodyOwns == [l \in Lines |-> "nobody"]

Init == owner = NobodyOwns /\ order = <<>> /\ short = FALSE

Passes(l, from, to) ==
    owner[l] = from /\ owner' = [owner EXCEPT ![l] = to] /\ ~short /\ UNCHANGED short

Write(l) == Passes(l, "nobody", "task") /\ UNCHANGED order

Drop(l) == Passes(l, "task", "nobody") /\ UNCHANGED order

Enqueue(l) ==
    /\ Passes(l, "task", "queue")
    /\ Len(order) < Capacity /\ order' = Append(order, l)

Dequeue(l) ==
    /\ order # <<>> /\ l = Head(order) /\ \A m \in Lines : owner[m] # "sender"
    /\ Passes(l, "queue", "sender")
    /\ order' = Tail(order)

Finish(l) == Passes(l, "sender", "leaked") /\ UNCHANGED order

\* There is none to begin with only if every line belongs to somebody.
RunsShort == (short \/ \A l \in Lines : owner[l] # "nobody") /\ short'

Restart == owner' = NobodyOwns /\ order' = <<>> /\ short' = FALSE

Next ==
    \/ \E l \in Lines : Write(l) \/ Drop(l) \/ Enqueue(l) \/ Dequeue(l) \/ Finish(l)
    \/ RunsShort \/ Restart

Spec == Init /\ [][Next]_<<owner, order, short>>
=============================================================================

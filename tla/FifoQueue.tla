------------------------------ MODULE FifoQueue ------------------------------
(***************************************************************************)
(* What every queue on the logging path promises its two ends: items come  *)
(* out in the order they went in, none is lost, duplicated or torn from    *)
(* its batch.  A batch is what one writer call makes visible at once (the  *)
(* bytes of one log entry, or one appended block).  The reader may take    *)
(* any non-empty prefix.  StagingBuffer and SinkLogger implement this.     *)
(***************************************************************************)
EXTENDS Naturals, Sequences

CONSTANT Batch          \* the batches a writer may put, non-empty sequences

VARIABLES
    queue,              \* items put and not yet taken, oldest first
    taken               \* the items of the latest Take, in order

vars == <<queue, taken>>

Init == queue = <<>> /\ taken = <<>>

Put(b) ==
    /\ queue' = queue \o b
    /\ UNCHANGED taken

Take(k) ==
    /\ taken' = SubSeq(queue, 1, k)
    /\ queue' = SubSeq(queue, k + 1, Len(queue))

Next ==
    \/ \E b \in Batch : Put(b)
    \/ \E k \in 1..Len(queue) : Take(k)

Spec == Init /\ [][Next]_vars
=============================================================================

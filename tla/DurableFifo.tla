---------------------------- MODULE DurableFifo ----------------------------
(***************************************************************************)
(* What the header of PersistentFixStore promises its caller, as a bounded *)
(* queue that survives power cuts: records leave from the front, either    *)
(* acknowledged or, when the ring is full, dropped and counted in lost.    *)
(*                                                                         *)
(* Two weaknesses of the implementation are part of the contract so that   *)
(* everything else can be stated exactly: while the ring is full a push    *)
(* that does not complete may spoil the oldest record (Spoil), and once    *)
(* the store has reset itself nothing more is promised (trusted = FALSE).  *)
(***************************************************************************)
EXTENDS Naturals, Sequences

VARIABLES
    q,        \* the records a boot would recover now, oldest first
    cap,      \* their ring's capacity, 0 when flash holds no queue
    lost,     \* lost_count
    trusted   \* the store has not been reset

fifo == <<q, cap, lost, trusted>>

FifoInit == q = <<>> /\ cap = 0 /\ lost = 0 /\ trusted = TRUE

Create ==
    /\ cap = 0 /\ cap' > 0
    /\ q' = <<>> /\ lost' = 0

Enqueue ==
    /\ cap > 0 /\ Len(q) < cap
    /\ Len(q') = Len(q) + 1 /\ SubSeq(q', 1, Len(q)) = q
    /\ UNCHANGED <<cap, lost>>

EnqueueDroppingOldest ==
    /\ cap > 0 /\ Len(q) = cap
    /\ Len(q') = cap /\ SubSeq(q', 1, cap - 1) = Tail(q)
    /\ lost' = lost + 1
    /\ UNCHANGED cap

Dequeue ==
    /\ \E n \in 1..Len(q) : q' = SubSeq(q, n + 1, Len(q))
    /\ UNCHANGED <<cap, lost>>

Spoil ==
    /\ cap > 0 /\ Len(q) = cap
    /\ Len(q') = cap /\ Tail(q') = Tail(q)
    /\ UNCHANGED <<cap, lost>>

\* LittleFS.begin(true) formatted the volume.
Format == q' = <<>> /\ cap' = 0 /\ lost' = 0

FifoNext ==
    \/ /\ trusted /\ trusted' = TRUE
       /\ Create \/ Enqueue \/ EnqueueDroppingOldest \/ Dequeue \/ Spoil \/ Format
    \/ trusted' = FALSE

FifoSpec == FifoInit /\ [][FifoNext]_fifo

=============================================================================

------------------------------ MODULE Producer -------------------------------
(***************************************************************************)
(* A sweep over a reader: a goroutine that finds items and sends each over *)
(* an unbuffered channel until it is through or its context is done, and a *)
(* consumer that looks at an item after it has received it, while the      *)
(* goroutine goes on.  ParseMFT and Carver are such sweeps.                *)
(***************************************************************************)
EXTENDS Integers, Sequences, FiniteSets, SequencesExt

CONSTANT None

VARIABLES
  job,         \* what the goroutine was started on
  pc,          \* where it is: "done" once it has closed the channel
  reg,         \* its local variables
  offered,     \* the item it is blocked with in a select, None if it is not
  held,        \* the item the consumer has received, None while it waits
  seen,        \* what the consumer has seen, in order
  cancelled    \* the context is done

producer == <<pc, reg, offered>>
consumer == <<held, seen>>
vars == <<job, producer, consumer, cancelled>>

Start(sweep, locals) ==
  /\ job = sweep
  /\ pc = "next"
  /\ reg = locals
  /\ offered = None
  /\ held = None
  /\ seen = << >>
  /\ cancelled = FALSE

Sweeps(kind) == job.kind = kind
At(place) == pc = place /\ offered = None

\* The goroutine goes on at a place; or it enters the select with an item and
\* will go on there once the item is taken.
GoTo(place, locals) == pc' = place /\ reg' = locals /\ UNCHANGED <<offered, consumer, cancelled>>
Offer(item, place, locals) ==
  pc' = place /\ reg' = locals /\ offered' = item /\ UNCHANGED <<consumer, cancelled>>
Done == GoTo("done", reg)

\* The rendezvous: the consumer is back at the channel.
Receive ==
  /\ offered # None /\ held = None
  /\ held' = offered
  /\ offered' = None
  /\ UNCHANGED <<job, pc, reg, seen, cancelled>>

\* The consumer looks at the item and sees a value.
Look(value) ==
  /\ held # None
  /\ seen' = Append(seen, value)
  /\ held' = None
  /\ UNCHANGED <<job, producer, cancelled>>

\* Mutant of CancelSend: the goroutine would wait for ever.
CancelUnseen == FALSE

\* case <-ctx.Done() in the select.
CancelSend ==
  /\ offered # None /\ cancelled
  /\ offered' = None
  /\ pc' = "done"
  /\ UNCHANGED <<job, reg, consumer, cancelled>>

\* The caller cancels the context; it may stop receiving.
Cancel ==
  /\ ~cancelled
  /\ cancelled' = TRUE
  /\ UNCHANGED <<job, producer, consumer>>
=============================================================================

---------------------------- MODULE StreamContract ----------------------------
(***************************************************************************)
(* What a stream promises to the task that consumes it: Started once and   *)
(* first, every output once and in the order it was produced, and at most  *)
(* one terminal event.  Completed says that the source finished and that   *)
(* the consumer has everything it produced.                                *)
(***************************************************************************)
EXTENDS Naturals, Sequences

CONSTANT FailsUnopened  \* BOOLEAN: the stream may fail before Started

VARIABLES produced,  \* outputs produced so far, numbered from 1
          finished,  \* the source has produced its last output
          events     \* what the consumer has taken, in order

vars == <<produced, finished, events>>

Started == [kind |-> "started", number |-> 0]
Output(n) == [kind |-> "output", number |-> n]
Completed(n) == [kind |-> "completed", number |-> n]
Cancelled == [kind |-> "cancelled", number |-> 0]
Failed == [kind |-> "failed", number |-> 0]

Terminal(e) == e.kind \in {"completed", "cancelled", "failed"}

Init ==
    /\ produced = 0
    /\ finished = FALSE
    /\ events = <<>>

Produce ==
    /\ ~finished
    /\ produced' = produced + 1
    /\ finished' \in BOOLEAN
    /\ UNCHANGED events

Finish ==
    /\ ~finished
    /\ finished' = TRUE
    /\ UNCHANGED <<produced, events>>

Deliver(e) ==
    /\ events' = Append(events, e)
    /\ UNCHANGED <<produced, finished>>

Begin == events = <<>> /\ Deliver(Started)

\* The stream has begun and the consumer has not seen a terminal event.
Open == events # <<>> /\ ~Terminal(events[Len(events)])

DeliverOutput == Open /\ Len(events) <= produced /\ Deliver(Output(Len(events)))

Complete == Open /\ finished /\ Len(events) = produced + 1 /\ Deliver(Completed(produced))

Abort ==
    /\ Open \/ (FailsUnopened /\ events = <<>>)
    /\ Deliver(Cancelled) \/ Deliver(Failed)

Next == Produce \/ Finish \/ Begin \/ DeliverOutput \/ Complete \/ Abort

Spec == Init /\ [][Next]_vars

===============================================================================

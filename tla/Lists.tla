-------------------------------- MODULE Lists --------------------------------
(* What a filter leaves of a list, for the modules that keep lists of events. *)
EXTENDS Integers, Sequences, SequencesExt

\* list.filter(): its entries that are in kept, in their order.
Filter(list, kept) ==
  LET upTo[n \in 0..Len(list)] ==
        IF n = 0 THEN <<>>
        ELSE IF list[n] \in kept THEN Append(upTo[n - 1], list[n]) ELSE upTo[n - 1]
  IN  upTo[Len(list)]
=============================================================================

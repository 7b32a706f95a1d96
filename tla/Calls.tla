-------------------------------- MODULE Calls --------------------------------
(***************************************************************************)
(* The invocations of handlers the two servers work on at the same time.   *)
(* A handler awaits its queries one after the other, so the invocations    *)
(* interleave between them; an invocation that has answered is reused.     *)
(***************************************************************************)
EXTENDS Integers, FiniteSets

CONSTANT Calls

ASSUME CallsAssumption ==
    /\ IsFiniteSet(Calls)
    /\ Calls # {}

Idle == [op |-> "idle"]

\* Calls other than the one that removes a row, each of which may have found it.
Others == Cardinality(Calls) - 1

=============================================================================

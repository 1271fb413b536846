-------------------------- MODULE TransparencyLog ---------------------------
(***************************************************************************)
(* What an issuance log promises the world: what it has committed to is    *)
(* never changed, only extended, and what it no longer serves stays        *)
(* committed (README.md:34 "append-only logs", log.go:92-93).              *)
(***************************************************************************)
EXTENDS Integers, Sequences

CONSTANTS Data, NullEntry

VARIABLES
    committed,    \* the contents committed to, in order
    horizon       \* indices below it are no longer served

vars == <<committed, horizon>>

Init == committed = <<NullEntry>> /\ horizon = 0

Commit ==
    /\ \E d \in Data : committed' = Append(committed, d)
    /\ UNCHANGED horizon

Withdraw ==
    /\ horizon' \in horizon..Len(committed)
    /\ UNCHANGED committed

Next == Commit \/ Withdraw

Spec == Init /\ [][Next]_vars

=============================================================================

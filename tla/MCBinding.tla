----------------------------- MODULE MCBinding -----------------------------
(* Instances of Binding for TLC. *)
EXTENDS Binding

CONSTANTS c1, c2

OneOwner == [c \in Claims |-> "alice"]

Warm(n) == [enabled |-> TRUE, size |-> n]
Off(n) == [enabled |-> FALSE, size |-> n]

JustWarm1 == {Warm(1)}
OnAndOff == {Warm(1), Off(0)}
=============================================================================

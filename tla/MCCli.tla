-------------------------------- MODULE MCCli -------------------------------
(* Three cosigner ids: one typed in two ways ("32473.100" and "32473.0100", *)
(* which are interchangeable), another one, and one too long to be signed   *)
(* under.                                                                   *)
EXTENDS Cli

CONSTANTS Typed, Retyped, Other, Long

MCNames == {Typed, Retyped, Other, Long}

MCIdOf == [name \in MCNames |->
               CASE name = Other -> 200 [] name = Long -> 300 [] OTHER -> 100]

Interchangeable == Permutations({Typed, Retyped})

=============================================================================

------------------------------- MODULE MCUip --------------------------------
(* Small instances of UipNet for TLC. *)
EXTENDS UipNet

MCGreeting == <<65, 66>>
MCHello == <<67>>
MCLine == <<97, 10>>

\* Two peers and one slot, one segment each way; one impatient peer whose
\* segments are repeated and reordered.
CONSTANTS p1, p2
MCWires == {[rx |-> 1, tx |-> 1, peers |-> {p1, p2}], [rx |-> 2, tx |-> 2, peers |-> {p2}]}
=============================================================================

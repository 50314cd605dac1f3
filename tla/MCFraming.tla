----------------------------- MODULE MCFraming ------------------------------
(* Two segments of full size, an empty one between them, and a shorter last one. *)
EXTENDS Framing

MCSizes == <<3, 0, 3, 2>>

=============================================================================

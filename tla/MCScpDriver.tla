------------------------------ MODULE MCScpDriver ------------------------------
(* Instances of ScpDriver for model checking. *)
EXTENDS ScpDriver

CONSTANTS a, b, local, p1, p2, none

MCRemote   == {a, b}
MCPrograms == {p1, p2}

\* Empty, longest accepted, refused
MCRequestLens == {0, 1000, 1001}
\* Longest accepted, first refused, beyond the end of the buffer
MCResponseLens == {999, 1000, 5000}

================================================================================

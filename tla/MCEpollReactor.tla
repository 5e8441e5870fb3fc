--------------------------- MODULE MCEpollReactor ---------------------------
(* Small tables and few clients for TLC. *)
EXTENDS EpollReactorProperties, TLC

\* Clients are interchangeable; the table and the descriptors are ordered.
Symmetry == Permutations(Conns)
=============================================================================

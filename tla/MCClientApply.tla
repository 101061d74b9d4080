--------------------------- MODULE MCClientApply ----------------------------
(* Small instances of ClientApply for TLC. *)
EXTENDS ClientApply, TLC

MCContents == FileContents

MCBlank == EmptyFile

\* Interchangeable values; only for runs without liveness properties.
Symmetry ==
    Permutations(Labs) \cup Permutations(Addrs) \cup
    Permutations(Secrets) \cup Permutations(Requests)

=============================================================================

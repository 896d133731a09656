---------------------------- MODULE MCMemoryCache ----------------------------
(* Instances of MemoryCache for TLC: one caller, while time passes, or two. *)
EXTENDS MemoryCache

CONSTANTS p1, p2

\* Only the first goroutine closes and clears the cache, as Store.Close does.
Owner == {p1}

=============================================================================

------------------------------- MODULE MCMemos --------------------------------
(* Instances of Memos for TLC. *)
EXTENDS Memos, TLC

CONSTANTS w1, w2, m1, m2, a1, a2

OnePath == {<<"attach">>, <<"relate">>}

\* Requests, memos and attachments are interchangeable.
Symmetry == Permutations(Workers) \cup Permutations(MemoIds) \cup Permutations(AttachmentIds)

===============================================================================

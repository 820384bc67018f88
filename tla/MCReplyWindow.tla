--------------------------- MODULE MCReplyWindow ---------------------------
(* TLC instance of ReplyWindow: five identifiers, three replies kept.        *)
EXTENDS ReplyWindow, TLC

Symmetry == Permutations(RequestId) \cup Permutations(Content)
            \cup Permutations(Reply)
=============================================================================

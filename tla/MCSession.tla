----------------------------- MODULE MCSession ------------------------------
(* Option files for Session: none, one that says "off" and names a key map, *)
(* one that is not saved.                                                   *)
EXTENDS Session, TLC

SomeFiles ==
  { <<>>,
    "enabled" :> FALSE @@ "charset" :> "TCVN" @@ "usrMap" :> TRUE,
    "autoSave" :> FALSE @@ "method" :> "USER" }

\* Requests that X splits; two acts; two deaths; two windows together or one
\* after the other.
SomeLimits ==
  { [starts |-> 1, acts |-> 1, crashes |-> 0, split |-> TRUE],
    [starts |-> 1, acts |-> 2, crashes |-> 0, split |-> FALSE],
    [starts |-> 1, acts |-> 1, crashes |-> 2, split |-> FALSE],
    [starts |-> 2, acts |-> 0, crashes |-> 0, split |-> FALSE] }

AnyWindow == Permutations(Windows)
=============================================================================

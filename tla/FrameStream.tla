---------------------------- MODULE FrameStream -----------------------------
(***************************************************************************)
(* What one direction of a session promises: the frames that were handed   *)
(* to the writer come out of read_frame() whole, once and in that order,   *)
(* as far as they come at all - a session that ends loses the rest.        *)
(***************************************************************************)
EXTENDS Naturals, Sequences

VARIABLES sent, got

Init == sent = << >> /\ got = << >>

Send ==
    /\ Len(sent') > Len(sent) /\ SubSeq(sent', 1, Len(sent)) = sent
    /\ UNCHANGED got

Deliver ==
    /\ Len(got) < Len(sent)
    /\ got' = Append(got, sent[Len(got) + 1])
    /\ UNCHANGED sent

Next == Send \/ Deliver

Spec == Init /\ [][Next]_<<sent, got>>
=============================================================================

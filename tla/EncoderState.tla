---------------------------- MODULE EncoderState -----------------------------
(***************************************************************************)
(* What the encoder probe (VideoPipeline) did with the frames that came    *)
(* out of the encoder, and what it promises about a simulated loss.        *)
(***************************************************************************)
EXTENDS Integers

VARIABLE out    \* what was written, dropped, invalidated and forced

\* References are invalidated only after the lost frame's bitstream came out
\* of the encoder: in the threaded run two frames of feedback delay put the
\* invalidation behind the reuse of the lost frame's slot.
InvalidateAfterLoss == out.invalidated => out.dropped = 1

=============================================================================

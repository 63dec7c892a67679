------------------------------ MODULE RingState ------------------------------
(***************************************************************************)
(* What drain (AudioRing) reads from the audio tap's ring and gives to the *)
(* encoder, and what the ring promises about it.                           *)
(***************************************************************************)
EXTENDS Integers, Sequences

VARIABLES
  tapOwner,   \* where the consumer is
  block,      \* the block it is reading
  encoded,    \* blocks given to the encoder
  noticed     \* the last refused block at its last look

\* The encoder gets whole blocks, each at most once and in the order they
\* came, across the wrap of the indexes: a block being read is never
\* overwritten.
WholeBlocksInOrder ==
  \A i \in DOMAIN encoded :
    /\ encoded[i].header = encoded[i].samples
    /\ i > 1 => encoded[i - 1].header < encoded[i].header

\* Once the consumer has taken notice of a refused block it reads nothing
\* that came before that block.
BacklogDropped == tapOwner = "samples" => block.header > noticed

\* Both, of what drain reads with PLANKTapPeek and PLANKTapDiscard: whole
\* blocks in order, and nothing from before a noticed overrun.
RingDelivers == WholeBlocksInOrder /\ BacklogDropped

=============================================================================

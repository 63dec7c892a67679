--------------------------- MODULE MCNativeEndpoint ---------------------------
\* Instances of NativeEndpoint for TLC.
EXTENDS NativeEndpoint

\* Every endpoint but the pinned setup Client, which waits for an approval that
\* approve_peer_certificate refuses to give.
UsableConfigs == {c \in AllConfigs : ~(c.setup /\ c.pinned)}
==============================================================================

--------------------------- MODULE MCChannelFacade ---------------------------
(* ChannelFacade instantiated for TLC: three sender handles.               *)
EXTENDS ChannelFacade, TLC

CONSTANTS h1, h2, h3

MCHandles == {h1, h2, h3}

=============================================================================

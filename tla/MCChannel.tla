------------------------------ MODULE MCChannel ------------------------------
(* Channel instantiated for TLC: sender handles as model values.           *)
EXTENDS Channel, TLC

CONSTANTS h1, h2, h3

MCHandles2 == {h1, h2}

MCHandles3 == {h1, h2, h3}

=============================================================================

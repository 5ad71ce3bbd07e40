--------------------------- MODULE MCJsStreamUser ---------------------------
EXTENDS JsStreamUser
MCHwm == [s \in Streams |-> 2]
=============================================================================

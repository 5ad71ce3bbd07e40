---------------------------- MODULE MCJsFileCopy ----------------------------
EXTENDS JsFileCopy
MCChain == <<src, dst>>
MCHwm == [s \in Streams |-> 1]
MCAborts == {src, dst} \X BOOLEAN
=============================================================================

---------------------------- MODULE MCJsPipeline ----------------------------
EXTENDS JsPipeline
MCChain == <<src, mid, dst>>
MCHwm == [s \in Streams |-> IF s = mid THEN 2 ELSE 1]
MCAborts == Streams \X BOOLEAN
=============================================================================

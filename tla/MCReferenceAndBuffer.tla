------------------------- MODULE MCReferenceAndBuffer -------------------------
(* References and the buffered stream in one instance for TLC.  Neither      *)
(* needs the other, and what is checked of them holds at every moment: a     *)
(* behaviour is one of the references or one of the stream, and the other    *)
(* component stays as it was made.                                           *)
EXTENDS Reference, MCBufferedInputStream

VARIABLE used   \* the component that is in use

bothVars == <<vars, bufferedVars, used>>

BothInit ==
  /\ Init /\ BufferedInit
  /\ \/ used = "reference" /\ text = << >> /\ size = 0
     \/ used = "stream"

BothNext ==
  /\ UNCHANGED used
  /\ \/ used = "reference" /\ Next /\ UNCHANGED bufferedVars
     \/ used = "stream" /\ BufferedNext /\ UNCHANGED vars

BothSpec == BothInit /\ [][BothNext]_bothVars
=============================================================================

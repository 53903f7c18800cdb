---------------------------- MODULE MCJFReceiver ----------------------------
(* JFReceiver on whole frames, a torn one, and bytes of a header alone.    *)
EXTENDS JFReceiver

MCPieces ==
    {SendMsg(145, 1, <<>>),             \* an acknowledgement
     SendMsg(128, 2, <<234, 174, 1>>),  \* data that looks like a header
     <<234, 174, 1, 3>>,                \* the beginning of a frame
     <<234>>, <<174>>, <<0, 0>>}
=============================================================================

------------------------------ MODULE MCServer -------------------------------
(* What comes into the server, one part per behaviour: the bytes of a client *)
(* on their way to a request, requests that touch an operator's decisions on *)
(* their way to the disk, and messages and wakes on their way to a provider. *)
EXTENDS MCStore, Frames, AgentLimits

VARIABLE focus

Piece(opcode, fin, length) ==
    [op |-> opcode, fin |-> fin, length |-> length, masked |-> TRUE, says |-> "request"]
Saying(frame, says) == [frame EXCEPT !.says = says]

Short == Piece("text", TRUE, 1)
Begun == Piece("text", FALSE, 2)
More  == Piece("continuation", FALSE, 0)
Final == Piece("continuation", TRUE, 3)
Ping  == Piece("ping", TRUE, 0)
Full  == Piece("text", TRUE, 6)

\* What comes between two frames: what is ignored, answered at once, refused or last.
Between ==
    {Saying(Short, says) : says \in {"no JSON", "no id", "no method", "operator method"}}
    \cup {Full, Ping, Piece("pong", TRUE, 1), Piece("close", TRUE, 0), Piece("binary", TRUE, 1),
          Piece("text", FALSE, 7), [Short EXCEPT !.masked = FALSE],
          Piece("continuation", TRUE, 5)}

MCScripts == {<<>>, <<Begun, Ping, More, Final, Short>>, <<Full, Begun, Final>>}
             \cup {<<Short, frame, Short>> : frame \in Between}
             \cup {<<Begun, frame, Final>> : frame \in Between}

\* Each external tool fits in full, not both; some results are longer elided.
MCToolDefs == <<"pinned", "large", "small">>
MCFullSize == [t \in Range(MCToolDefs) |->
                CASE t = "pinned" -> 2 [] t = "large" -> 6 [] t = "small" -> 4]
MCStubSize == [t \in Range(MCToolDefs) |-> 1]
MCResultSize == [t \in Range(MCToolDefs) |-> IF t = "large" THEN 4 ELSE 1]

MCInit ==
    /\ Init /\ FramesInit /\ LimitsInit
    /\ focus \in {"socket", "store", "agent"}
    /\ focus # "socket" => script = <<>>

MCNext ==
    /\ UNCHANGED focus
    /\ \/ focus = "socket" /\ FramesNext /\ UNCHANGED <<vars, limitVars>>
       \/ focus = "store" /\ Next /\ UNCHANGED <<frameVars, limitVars>>
       \/ focus = "agent" /\ LimitsNext /\ UNCHANGED <<vars, frameVars>>

MCSpec == MCInit /\ [][MCNext]_<<vars, frameVars, limitVars, focus>>
=============================================================================

------------------------------ MODULE MCClients ------------------------------
(* What the pages of a board keep in step with the server, one part per      *)
(* behaviour: the shown document, and who is looking at which tab.           *)
EXTENDS MCClientSync, MCPresence

VARIABLE focus

MCInit ==
    /\ Init /\ PresenceInit
    /\ focus \in {"document", "presence"}
    /\ focus # "presence" => board = CHOOSE b \in Boards : Grouped(b)

MCNext ==
    /\ UNCHANGED focus
    /\ \/ focus = "document" /\ Next /\ UNCHANGED presenceVars
       \/ focus = "presence" /\ PresenceNext /\ UNCHANGED vars

others == <<presenceVars, focus>>
Served(A) == focus = "document" /\ A /\ UNCHANGED others

MCSpec ==
    /\ MCInit /\ [][MCNext]_<<vars, others>>
    /\ WF_vars(Served(Announce)) /\ WF_vars(Served(Forget))
    /\ \A c \in Clients :
         /\ WF_vars(Served(Read(c))) /\ WF_vars(Served(AnswerLate(c)))
         /\ WF_vars(Served(Deliver(c)))
         /\ \A o \in Slots : WF_vars(Served(Handle(c, o)))
=============================================================================

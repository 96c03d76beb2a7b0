------------------------------- MODULE MCPage -------------------------------
(* A page with two custom widgets of one manifest, a form, two notes widgets *)
(* on tabs of their own in the same position, and two bound widgets. The     *)
(* bridges' requests, the bus, the pads and the cache of the bindings touch  *)
(* none of each other's state but the life of the frames, so a behaviour     *)
(* exercises one of the four.                                                *)
EXTENDS Bridge, NotesPad, Bindings, TLC

CONSTANTS b1, b2, t1, t2

VARIABLE focus

MCName == [f \in Frames |-> "chart"]
MCManifests == {{"prompt:send", "state:persist"}, {"bus:pubsub"}}
MCTabOf == b1 :> t1 @@ b2 :> t2

MCInit ==
    /\ Init /\ PadInit /\ BindInit
    /\ focus \in {"requests", "bus", "pads", "bindings"}
    /\ focus \in {"pads", "bindings"} => granted = [n \in Names |-> {"bus:pubsub"}]
    /\ focus # "bindings" => shown = t1 /\ source = [w \in Bound |-> "rpc"]

MCNext ==
    /\ UNCHANGED focus
    /\ \/ /\ focus \in {"requests", "bus"} /\ Next /\ UNCHANGED <<padVars, bindVars>>
          /\ IF focus = "bus" THEN UNCHANGED <<rate, job>>
             ELSE UNCHANGED bus /\ \A f \in Frames : frame'[f].tab \in {t1, NoTab}
       \/ focus = "pads" /\ PadNext /\ UNCHANGED <<vars, bindVars>>
       \/ focus = "bindings" /\ BindNext /\ UNCHANGED <<vars, padVars>>

MCSpec ==
    /\ MCInit /\ [][MCNext]_<<vars, padVars, bindVars, focus>>
    /\ \A r \in Requests : WF_vars(TimeOut(r) /\ UNCHANGED <<padVars, bindVars, focus>>)
    /\ WF_padVars((\E p \in Pads : Save(p)) /\ UNCHANGED <<vars, bindVars, focus>>)
    /\ WF_padVars(WriteState /\ UNCHANGED <<vars, bindVars, focus>>)
=============================================================================

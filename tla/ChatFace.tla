------------------------------- MODULE ChatFace ------------------------------
(***************************************************************************)
(* The chat widget as a part of its page (renderers/chat.ts): one controller *)
(* per widget id in a module-wide map, mounted and destroyed by the ref     *)
(* callback of the container it renders, which has its own log of events,   *)
(* its own subscription and its own memory of what the user typed.          *)
(*                                                                         *)
(* The page may be taken out of the document and put back (the same element *)
(* and the same callback again), its widget may be taken off the tab and    *)
(* shown again (a new element), and the view renders on every change of the *)
(* document.  Sends and reads of the history are answered at any later time.*)
(* A turn is its start and its end; ChatTurns has what happens in between.  *)
(***************************************************************************)
EXTENDS Naturals, Sequences, FiniteSets, SequencesExt

CONSTANTS Requests,      \* widget names an agent may propose
          MaxControllers, MaxTurns, MaxMounts, MaxSends  \* bounds

ASSUME FaceAssumption == {MaxControllers, MaxTurns, MaxMounts, MaxSends} \subseteq Nat \ {0}

VARIABLES face,        \* the page: is it in the document, is the widget on it,
                       \* which controller's callback is bound to the container
          inMap,       \* controllers.get(widgetId), 0 for none
          controller,  \* every controller made, the newest last
          sends,       \* chat.send calls that are not answered
          reads,       \* chat.history calls that are not answered
          begunBy,     \* per turn of the server: the message that began it
          told,        \* the events the server emitted
          proposed,    \* registryPending of the document
          typed        \* how many messages the user sent; a message is its number

faceVars == <<face, inMap, controller, sends, reads, begunBy, told, proposed, typed>>

NoOne == 0
Silence == 0
Messages == 1..MaxSends
Turns == 1..MaxTurns
Event == [turn : Turns, type : {"start", "end"}]
Controller == [root : BOOLEAN, mounts : 0..MaxMounts, heard : SUBSET Event, listening : Nat,
               handle : BOOLEAN, bubbles : [Turns -> Messages \cup {Silence}],
               pending : Messages \cup {Silence}, sending : BOOLEAN]
NoBubbles == [t \in Turns |-> Silence]
NewController == [root |-> FALSE, mounts |-> 0, heard |-> {}, listening |-> 0, handle |-> FALSE,
          bubbles |-> NoBubbles, pending |-> Silence, sending |-> FALSE]

FaceInit ==
    /\ face = [in |-> TRUE, shown |-> FALSE, bound |-> NoOne]
    /\ inMap = NoOne
    /\ controller = << >>
    /\ sends = {} /\ reads = {}
    /\ begunBy = << >> /\ told = {}
    /\ proposed = {}
    /\ typed = 0

-----------------------------------------------------------------------------
(***************************************************************************)
(* The controller: mount, destroy, the two answers                         *)
(***************************************************************************)
Unsubscribed(k) == [k EXCEPT !.listening = IF k.handle THEN @ - 1 ELSE @, !.handle = FALSE]

\* Everything starts over, and the subscription begins before the history is read.
Mounted(k) ==
    [Unsubscribed(k) EXCEPT !.root = TRUE, !.mounts = @ + 1, !.heard = {},
        !.bubbles = NoBubbles, !.pending = Silence, !.sending = FALSE,
        !.listening = @ + 1, !.handle = TRUE]

\* (mutant) A controller that is destroyed goes on listening.
DestroyedListening(k) == [k EXCEPT !.root = FALSE]

Destroyed(k) == [Unsubscribed(k) EXCEPT !.root = FALSE]

HistoryRequest(c) == [by |-> c, since |-> told]

\* The history as it was when the server read it joins what was heard.
HistoryAnswered(r) ==
    /\ r \in reads
    /\ reads' = reads \ {r}
    /\ \/ \E log \in {r.since, told} :
            controller' = [controller EXCEPT ![r.by].heard = @ \cup log]
       \/ UNCHANGED controller
    /\ UNCHANGED <<face, inMap, sends, begunBy, told, proposed, typed>>

\* (mutant) The bubble that goes with the answer is the one on display.
ResolvedShown(k, s) ==
    [k EXCEPT !.bubbles[s.turn] = k.pending, !.pending = Silence, !.sending = FALSE]

\* chat.send resolves: the typed message is kept under its turn.
Resolved(k, s) ==
    [k EXCEPT !.bubbles[s.turn] = s.text, !.pending = Silence, !.sending = FALSE]

Rejected(k) == [k EXCEPT !.pending = Silence, !.sending = FALSE]

SendAnswered(s) ==
    /\ s \in sends
    /\ s.turn # NoOne
    /\ sends' = sends \ {s}
    /\ controller' = [controller EXCEPT ![s.by] = Resolved(@, s)]
    /\ UNCHANGED <<face, inMap, reads, begunBy, told, proposed, typed>>

\* It fails, before or after the server began the turn.
SendFails(s) ==
    /\ s \in sends
    /\ sends' = sends \ {s}
    /\ controller' = [controller EXCEPT ![s.by] = Rejected(@)]
    /\ UNCHANGED <<face, inMap, reads, begunBy, told, proposed, typed>>

-----------------------------------------------------------------------------
(***************************************************************************)
(* The page: rendering, leaving the document, coming back                  *)
(***************************************************************************)
Mounts == FoldFunction(LAMBDA k, n : k.mounts + n, 0, controller)
Mount(c) ==
    /\ Mounts < MaxMounts
    /\ reads' = reads \cup {HistoryRequest(c)}

\* destroy() takes the widget's entry out of the map, whosever it is.
Taken(c) == [controller EXCEPT ![c] = Destroyed(@)]

\* The controller of a rendering: the one in the map, or a new one.
Chosen == IF inMap # NoOne THEN inMap ELSE Len(controller) + 1
WithChosen == IF inMap # NoOne THEN controller ELSE Append(controller, NewController)

\* A rendering with another controller than the bound one: that is destroyed, which
\* empties the map, and the new one mounts.  One with the same changes nothing here.
Replace ==
    /\ face.in /\ face.shown
    /\ inMap # face.bound
    /\ Chosen <= MaxControllers
    /\ controller' = [WithChosen EXCEPT ![face.bound] = Destroyed(@), ![Chosen] = Mounted(@)]
    /\ face' = [face EXCEPT !.bound = Chosen]
    /\ inMap' = NoOne
    /\ Mount(Chosen)
    /\ UNCHANGED <<sends, begunBy, told, proposed, typed>>

\* The widget comes onto the tab in view: a new element.
Show ==
    /\ face.in /\ ~face.shown
    /\ Chosen <= MaxControllers
    /\ face' = [face EXCEPT !.shown = TRUE, !.bound = Chosen]
    /\ inMap' = Chosen
    /\ controller' = [WithChosen EXCEPT ![Chosen] = Mounted(@)]
    /\ Mount(Chosen)
    /\ UNCHANGED <<sends, begunBy, told, proposed, typed>>

Hide ==
    /\ face.in /\ face.shown
    /\ face' = [face EXCEPT !.shown = FALSE, !.bound = NoOne]
    /\ inMap' = NoOne
    /\ controller' = Taken(face.bound)
    /\ UNCHANGED <<sends, reads, begunBy, told, proposed, typed>>

\* The page's element is taken out of the document.
Leave ==
    /\ face.in /\ face.shown
    /\ face' = [face EXCEPT !.in = FALSE]
    /\ inMap' = NoOne
    /\ controller' = Taken(face.bound)
    /\ UNCHANGED <<sends, reads, begunBy, told, proposed, typed>>

\* It is put back: the bound callback is called with its element again.
Rejoin ==
    /\ ~face.in
    /\ face' = [face EXCEPT !.in = TRUE]
    /\ controller' = [controller EXCEPT ![face.bound] = Mounted(@)]
    /\ Mount(face.bound)
    /\ UNCHANGED <<inMap, sends, begunBy, told, proposed, typed>>

-----------------------------------------------------------------------------
(***************************************************************************)
(* The user                                                                *)
(***************************************************************************)
Facing == face.in /\ face.shown
Mine == controller[face.bound]

\* send(): nothing while the last one is unanswered.
Send ==
    /\ Facing
    /\ ~Mine.sending
    /\ typed < MaxSends
    /\ typed' = typed + 1
    /\ sends' = sends \cup {[by |-> face.bound, text |-> typed', turn |-> NoOne]}
    /\ controller' = [controller EXCEPT ![face.bound].pending = typed',
                                        ![face.bound].sending = TRUE]
    /\ UNCHANGED <<face, inMap, reads, begunBy, told, proposed>>

\* The newest turn heard of without its end (reduceChatEvents, liveTurnId).
Streaming(k) == {e.turn : e \in k.heard} \ {e.turn : e \in {e \in k.heard : e.type = "end"}}
LiveTurn(k) == Max(Streaming(k) \cup {NoOne})

\* Approval cards stand in the transcript while a turn is live or a send unanswered;
\* the view renders, and gives the names to the controller, whenever they change.
ApprovalCards(k) == IF LiveTurn(k) # NoOne \/ k.sending THEN proposed ELSE {}

Spread(event) ==
    /\ told' = told \cup {event}
    /\ controller' = [c \in DOMAIN controller |->
                        IF controller[c].listening = 0 THEN controller[c]
                        ELSE [controller[c] EXCEPT !.heard = @ \cup {event}]]

EndOf(t) == [turn |-> t, type |-> "end"]

Ends(t) ==
    /\ EndOf(t) \notin told
    /\ Spread(EndOf(t))

\* The Stop button aborts the turn that the widget shows as live.
Stop ==
    /\ Facing
    /\ LiveTurn(Mine) # NoOne
    /\ Ends(LiveTurn(Mine))
    /\ UNCHANGED <<face, inMap, sends, reads, begunBy, proposed, typed>>

Decide(n) ==
    /\ Facing
    /\ n \in ApprovalCards(Mine)
    /\ proposed' = proposed \ {n}
    /\ UNCHANGED <<face, inMap, controller, sends, reads, begunBy, told, typed>>

-----------------------------------------------------------------------------
(***************************************************************************)
(* The server (external to this widget)                                    *)
(***************************************************************************)
Begins(s) ==
    /\ s \in sends
    /\ s.turn = NoOne
    /\ Len(begunBy) < MaxTurns
    /\ begunBy' = Append(begunBy, s.text)
    /\ sends' = (sends \ {s}) \cup {[s EXCEPT !.turn = Len(begunBy) + 1]}
    /\ Spread([turn |-> Len(begunBy) + 1, type |-> "start"])
    /\ UNCHANGED <<face, inMap, reads, proposed, typed>>

Finishes(t) ==
    /\ t \in DOMAIN begunBy
    /\ Ends(t)
    /\ UNCHANGED <<face, inMap, sends, reads, begunBy, proposed, typed>>

Propose(n) ==
    /\ n \notin proposed
    /\ proposed' = proposed \cup {n}
    /\ UNCHANGED <<face, inMap, controller, sends, reads, begunBy, told, typed>>

FaceNext ==
    \/ Show \/ Replace \/ Hide \/ Leave \/ Rejoin
    \/ Send \/ Stop
    \/ \E n \in Requests : Decide(n) \/ Propose(n)
    \/ \E s \in sends : Begins(s) \/ SendAnswered(s) \/ SendFails(s)
    \/ \E r \in reads : HistoryAnswered(r)
    \/ \E t \in Turns : Finishes(t)

FaceSpec == FaceInit /\ [][FaceNext]_faceVars

-----------------------------------------------------------------------------
(***************************************************************************)
(* Properties                                                              *)
(***************************************************************************)
\* Exactly the controller on the page listens, once: no event is folded into a log that
\* nobody shows, none twice (rootRef, mount and destroy, chat.ts:215, :235, :264).
ListensOnce ==
    \A c \in DOMAIN controller :
        controller[c].listening = IF Facing /\ c = face.bound THEN 1 ELSE 0

\* What stands above a turn as the user's message is the message that began it, however
\* answers, remounts and later sends interleave (userMessages, chat.ts:203).
BubblesTrue ==
    \A c \in DOMAIN controller : \A t \in Turns :
        controller[c].bubbles[t] \in {Silence} \cup
            (IF t \in DOMAIN begunBy THEN {begunBy[t]} ELSE {})

\* The Stop button belongs to a turn that has not ended (chat.ts:271, :450), on a
\* controller that mounted once: the history that an earlier mount asked for may come
\* after a turn's end that only the next one's has.
StopsRunning ==
    Facing /\ Mine.mounts = 1 /\ LiveTurn(Mine) # NoOne =>
        EndOf(LiveTurn(Mine)) \notin told

OneConversation == ListensOnce /\ BubblesTrue /\ StopsRunning
=============================================================================

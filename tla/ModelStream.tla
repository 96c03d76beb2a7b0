----------------------------- MODULE ModelStream -----------------------------
(* The provider adapters of the agent: the frames of one streamed answer     *)
(* become deltas of one alphabet. A provider sends texts and the arguments   *)
(* of tool calls in fragments, in one of three ways: "blocks" with an index  *)
(* and an end each (anthropic.ts), or chunks with an index "each" or with    *)
(* index 0 for "all" calls one after another (openai-compat.ts). Frames come *)
(* in order (sse.ts), so a step is a frame; the connection may fail or close *)
(* after any. A chunk that names a call and brings a fragment is two steps.  *)
EXTENDS Naturals, Sequences, FiniteSets, SequencesExt

CONSTANTS
    Tool,        \* the tool of each call the provider means to make, 1, 2, ...
    Fragments,   \* in how many fragments it sends the arguments of each
    GivenIds,    \* ids a provider gives its calls, none of those made up here
    NoId

\* The ids an adapter may make up, of a tool and a count or of a block's index.
MadeUp == {<<Tool[c], n>> : c \in DOMAIN Tool, n \in 0..Len(Tool)}
            \cup {<<"tool", c>> : c \in DOMAIN Tool}

ASSUME ModelStreamAssumption ==
    /\ Tool \in Seq(STRING) /\ Fragments \in [DOMAIN Tool -> Nat]
    /\ NoId \notin GivenIds /\ GivenIds \cap MadeUp = {}

VARIABLES
    manner,      \* how this provider sends: "blocks", "each" or "all"
    parts,       \* fragments sent of each call
    stopped,     \* the calls whose block the provider has ended
    calls,       \* the adapter's calls, in order: their id and the fragments so far
    byIndex,     \* the adapter's call of each index, as its place in `calls`
    meant,       \* history: which call each of `calls` was started for
    text,        \* the adapter's text: "none", "open" or "ended"
    stop,        \* why the provider stopped, as far as it said
    deltas       \* history: what was yielded, its last one terminal

streamVars == <<manner, parts, stopped, calls, byIndex, meant, text, stop, deltas>>

Delta(kind, id) == [kind |-> kind, id |-> id, args |-> <<>>]
StopReasons == {"tool_use", "length", "refusal", "end"}

StreamInit ==
    /\ manner \in {"blocks", "each", "all"}
    /\ parts = [c \in DOMAIN Tool |-> 0] /\ stopped = {}
    /\ calls = <<>> /\ byIndex = <<>> /\ meant = <<>>
    /\ text = "none" /\ stop = "unsaid" /\ deltas = <<>>

Yield(new) == deltas' = deltas \o new
Over == deltas # <<>> /\ Last(deltas).kind \in {"stop", "error"}
Reading == ~ Over /\ stop = "unsaid"

-----------------------------------------------------------------------------
(* What the provider may send. *)

Sent(c) == \E i \in DOMAIN meant : meant[i] = c
Whole(c) == parts[c] = Fragments[c]
IndexOf(c) == IF manner = "all" THEN 0 ELSE c

\* Calls are begun in order, with index 0 for all of them one by one.
MayBegin(c) ==
    /\ ~ Sent(c) /\ \A d \in 1..(c - 1) : Sent(d)
    /\ manner = "all" => \A d \in 1..(c - 1) : Whole(d)

-----------------------------------------------------------------------------
(* The calls. *)

Ids == {calls[i].id : i \in DOMAIN calls}

\* Mutant: the provider's id is taken as it is.
IdAsGiven(c, given) == IF given # NoId THEN given ELSE <<Tool[c], Len(calls)>>

\* The provider's own id, or one made of the tool and a count where the provider
\* gives none or the same again. Blocks are not checked for a second use.
IdOf(c, given) ==
    IF manner = "blocks" THEN IF given # NoId THEN given ELSE <<"tool", c>>
    ELSE IF given # NoId /\ given \notin Ids THEN given ELSE <<Tool[c], Len(calls)>>

\* Mutant: a name at an index in use goes on with the call there.
BeginAtIndex(c, given) ==
    IF IndexOf(c) \in DOMAIN byIndex
    THEN UNCHANGED <<calls, byIndex, deltas>>
    ELSE /\ calls' = Append(calls, [id |-> IdOf(c, given), args |-> <<>>])
         /\ byIndex' = [i \in DOMAIN byIndex \cup {IndexOf(c)} |->
                          IF i = IndexOf(c) THEN Len(calls') ELSE byIndex[i]]
         /\ Yield(<<Delta("tool-call-start", IdOf(c, given))>>)

\* The start of a block, or a name, starts a call of its own, whatever its index.
BeginAt(c, given) ==
    /\ calls' = Append(calls, [id |-> IdOf(c, given), args |-> <<>>])
    /\ byIndex' = [i \in DOMAIN byIndex \cup {IndexOf(c)} |->
                     IF i = IndexOf(c) THEN Len(calls') ELSE byIndex[i]]
    /\ Yield(<<Delta("tool-call-start", IdOf(c, given))>>)

\* Ids of blocks are distinct: the provider's promise.
CallBegins(c) ==
    /\ Reading /\ MayBegin(c)
    /\ \E given \in GivenIds \cup {NoId} :
         /\ manner = "blocks" => given \notin Ids
         /\ BeginAt(c, given)
    /\ meant' = Append(meant, c)
    /\ UNCHANGED <<manner, parts, stopped, text, stop>>

\* A fragment goes to the call at its index.
FragmentArrives(c) ==
    /\ Reading /\ Sent(c) /\ ~ Whole(c) /\ c \notin stopped
    /\ parts' = [parts EXCEPT ![c] = @ + 1]
    /\ LET place == byIndex[IndexOf(c)]
       IN  /\ calls' = [calls EXCEPT ![place].args = Append(@, <<c, parts'[c]>>)]
           /\ Yield(<<Delta("tool-call-delta", calls[place].id)>>)
    /\ UNCHANGED <<manner, stopped, byIndex, meant, text, stop>>

Arguments(c) == [k \in 1..Fragments[c] |-> <<c, k>>]

\* Arguments that are no JSON, a part of them or those of two calls, become none.
Parsed(args) == IF \E c \in DOMAIN Tool : args = Arguments(c) THEN args ELSE <<>>

ReadyDelta(call) == [kind |-> "tool-call-ready", id |-> call.id, args |-> Parsed(call.args)]

\* The block ends, also in the middle of the arguments at the length limit.
BlockStops(c) ==
    /\ Reading /\ manner = "blocks" /\ Sent(c) /\ c \notin stopped
    /\ stopped' = stopped \cup {c}
    /\ Yield(<<ReadyDelta(calls[byIndex[c]])>>)
    /\ UNCHANGED <<manner, parts, calls, byIndex, meant, text, stop>>

-----------------------------------------------------------------------------
(* The text, and how the answer ends. *)

TextArrives ==
    /\ Reading /\ text = "none"
    /\ text' = "open" /\ Yield(<<Delta("text-start", "text"), Delta("text-delta", "text")>>)
    /\ UNCHANGED <<manner, parts, stopped, calls, byIndex, meant, stop>>

TextStops ==
    /\ Reading /\ manner = "blocks" /\ text = "open"
    /\ text' = "ended" /\ Yield(<<Delta("text-end", "text")>>)
    /\ UNCHANGED <<manner, parts, stopped, calls, byIndex, meant, stop>>

\* The provider says why it stops: in the middle of a call only for its length.
ReasonArrives ==
    /\ Reading
    /\ \E reason \in StopReasons :
         /\ reason # "length" => \A c \in DOMAIN Tool : Sent(c) => Whole(c)
         /\ (reason # "length" /\ manner = "blocks") => \A c \in DOMAIN Tool : Sent(c) => c \in stopped
         /\ reason = "tool_use" => calls # <<>>
         /\ stop' = reason
    /\ UNCHANGED <<manner, parts, stopped, calls, byIndex, meant, text, deltas>>

\* The stream is over, was closed by the peer, or its reader saw the abort. Chunks
\* have no ends of their own: text and calls end here.
Ending ==
    IF manner = "blocks" THEN <<>>
    ELSE (IF text = "open" THEN <<Delta("text-end", "text")>> ELSE <<>>)
         \o [i \in DOMAIN calls |-> ReadyDelta(calls[i])]

StreamEnds ==
    /\ ~ Over
    /\ Yield(Ending \o <<Delta("usage", "usage"),
                        Delta("stop", IF stop = "unsaid" THEN "end" ELSE stop)>>)
    /\ UNCHANGED <<manner, parts, stopped, calls, byIndex, meant, text, stop>>

\* A read fails: an error, or the end of the answer where the turn was aborted. The
\* request fails or is refused likewise, before the first frame.
ReadFails ==
    /\ ~ Over
    /\ Yield(<<Delta("error", "")>>) \/ Yield(<<Delta("stop", "end")>>)
    /\ UNCHANGED <<manner, parts, stopped, calls, byIndex, meant, text, stop>>

StreamNext ==
    \/ \E c \in DOMAIN Tool : CallBegins(c) \/ FragmentArrives(c) \/ BlockStops(c)
    \/ TextArrives \/ TextStops \/ ReasonArrives \/ StreamEnds \/ ReadFails

StreamSpec == StreamInit /\ [][StreamNext]_streamVars

-----------------------------------------------------------------------------

StreamTypeOK ==
    /\ parts \in [DOMAIN Tool -> Nat] /\ stopped \subseteq DOMAIN Tool
    /\ Len(calls) = Len(meant) /\ text \in {"none", "open", "ended"}
    /\ stop \in StopReasons \cup {"unsaid"}

Yielded(kind) == {i \in DOMAIN deltas : deltas[i].kind = kind}

\* "Text and tool-call blocks use start, delta*, end/ready triads keyed by stable ids
\* so concurrent blocks never collide": every delta of a call comes after its start
\* and before its one ready, and no two calls share an id.
Triads ==
    /\ \A i, j \in DOMAIN calls : i # j => calls[i].id # calls[j].id
    /\ \A i \in Yielded("tool-call-ready") \cup Yielded("tool-call-delta") :
         \E s \in Yielded("tool-call-start") : s < i /\ deltas[s].id = deltas[i].id
    /\ \A i \in Yielded("tool-call-ready"), j \in Yielded("tool-call-ready") \cup Yielded("tool-call-delta") :
         i < j => deltas[i].id # deltas[j].id

\* A call that is made ready has exactly the arguments the provider meant for it,
\* however the fragments of several calls were mixed and numbered; a call that was
\* cut off has none of them, never a part and never another call's.
ReadyIsMeant ==
    \A i \in Yielded("tool-call-ready") :
       \E p \in DOMAIN calls :
          /\ calls[p].id = deltas[i].id
          /\ \/ deltas[i].args = Arguments(meant[p])
             \/ deltas[i].args = <<>> /\ ~ Whole(meant[p])

\* An answer that ended as the provider said it would has every call it started made
\* ready: none is left out, whichever way the provider numbers them.
NoneLeftOut ==
    (Over /\ stop # "unsaid" /\ stop # "length" /\ Yielded("usage") # {}) =>
       \A p \in DOMAIN meant : \E i \in Yielded("tool-call-ready") : deltas[i].id = calls[p].id

ModelStreamTrue == Triads /\ ReadyIsMeant /\ NoneLeftOut
=============================================================================

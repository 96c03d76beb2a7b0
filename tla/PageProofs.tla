------------------------------ MODULE PageProofs ------------------------------
(***************************************************************************)
(* Theorems about what a page keeps for its widgets: the cache of the      *)
(* bindings, the state of notes, and the bridges of custom widgets, for    *)
(* any number of tabs, widgets, frames, requests and edits.                *)
(***************************************************************************)
EXTENDS Bridge, NotesPad, Bindings, FiniteSetTheorems, TLAPS

-----------------------------------------------------------------------------
(***************************************************************************)
(* The cache of the bindings                                               *)
(***************************************************************************)
\* The document and the poll count of the cache are not newer than the view's.
KeyReached ==
  bindingVersion # NoValue =>
    /\ bindingVersion[1] <= workspaceVersion
    /\ bindingVersion[2] <= dataVersion

\* A loading widget has a request under way, and of a widget of the present key it is one
\* the server answers.
LoadsAwaited ==
  \A w \in bindingLoads : /\ Awaited(w)
                          /\ bindingVersion = CacheKey => source[w] # "stream"

\* A request or an answer of another key than the cache's belongs to a straddled widget.
OldStraddles ==
  /\ \A f \in flights : f.key = bindingVersion \/ f.widget \in straddled
  /\ \A w \in Bound : \/ bindingResults[w].asked \in {NoValue, bindingVersion}
                      \/ w \in straddled

\* Subscriptions are made with the document of the cache, for the streams it names.
SubsOfDocument ==
  \A w \in Bound : streamSubs[w] # NoValue =>
    /\ bindingVersion # NoValue
    /\ streamSubs[w] = bindingVersion[1]
    /\ streamSubs[w] = workspaceVersion => source[w] = "stream"

ListenersAreSubs ==
  listeners = {Listener(w, streamSubs[w]) : w \in {w \in Bound : streamSubs[w] # NoValue}}

\* Under the present key a request's widget shows no event, and a stream's nothing but its
\* last one, unless a request's answer crossed it.
ResultsOfSource ==
  bindingVersion = CacheKey =>
    \A w \in Bound :
      /\ source[w] = "rpc" => bindingResults[w].event = NoValue
      /\ source[w] = "stream" /\ w \notin crossed /\ streamValues[w] # NoValue =>
           bindingResults[w] \in {Nothing, Streamed(streamValues[w])}

\* What a rendered page shows.
Rendered ==
  ~ stale =>
    \A w \in OnTab :
      /\ source[w] = "rpc" /\ ~ Awaited(w) =>
           /\ bindingResults[w] # Nothing
           /\ w \notin straddled => bindingResults[w] = Answered(CacheKey)
      /\ source[w] = "stream" /\ streamValues[w] # NoValue /\ w \notin crossed =>
           bindingResults[w] = Streamed(streamValues[w])

BindInv ==
  /\ BindTypeOK
  /\ KeyReached
  /\ LoadsAwaited
  /\ OldStraddles
  /\ SubsOfDocument
  /\ ListenersAreSubs
  /\ ResultsOfSource
  /\ Rendered

\* The invariant says that the cache is honest.
LEMMA BindInvHonest == BindInv => CacheHonest
  BY DEF BindInv, LoadsAwaited, ListenersAreSubs, Rendered, CacheHonest, SettlesFresh, StreamsKept,
         OnTab, BindTypeOK

LEMMA KeyTyped ==
    ASSUME BindTypeOK
    PROVE  /\ CacheKey \in CacheKeys
           /\ NoValue \notin CacheKeys
           /\ NoValue \notin 0..MaxVersion /\ NoValue \notin 1..MaxPushes
           /\ CacheKey[1] = workspaceVersion /\ CacheKey[2] = dataVersion
  BY BindingsAssumption DEF BindTypeOK, CacheKey, CacheKeys

\* The initial states.
LEMMA BindInitInv == BindInit => BindInv
<1> SUFFICES ASSUME BindInit PROVE BindInv
  OBVIOUS
<1>1. BindTypeOK
  BY BindingsAssumption DEF BindInit, BindTypeOK, Nothing
<1>2. KeyReached /\ LoadsAwaited /\ OldStraddles /\ SubsOfDocument /\ Rendered
  BY DEF BindInit, KeyReached, LoadsAwaited, OldStraddles, SubsOfDocument, Rendered,
         Nothing
<1>3. ListenersAreSubs
  BY DEF BindInit, ListenersAreSubs
<1>4. ResultsOfSource
  BY DEF BindInit, ResultsOfSource, Nothing
<1>5. QED
  BY <1>1, <1>2, <1>3, <1>4 DEF BindInv

\* A change of the document, the poll count, the tab or the connection asks for a render and
\* leaves the cache alone.
LEMMA BoardChangeKeeps ==
    ASSUME BindInv, BindTypeOK', stale' = TRUE,
           UNCHANGED <<cache, streams, bindHistory>>,
           \/ UNCHANGED <<workspaceVersion, source, dataVersion>>
           \/ workspaceVersion' = workspaceVersion + 1 /\ UNCHANGED dataVersion
           \/ dataVersion' = dataVersion + 1 /\ UNCHANGED <<workspaceVersion, source>>
    PROVE  BindInv'
<1> USE DEF cache, streams, bindHistory
<1>1. /\ BindTypeOK
      /\ workspaceVersion \in Nat /\ dataVersion \in Nat
      /\ bindingVersion # NoValue =>
           /\ bindingVersion \in CacheKeys
           /\ bindingVersion[1] \in Nat /\ bindingVersion[2] \in Nat
      /\ bindingVersion # NoValue => bindingVersion[1] <= workspaceVersion
      /\ bindingVersion # NoValue => bindingVersion[2] <= dataVersion
  BY BindingsAssumption DEF BindInv, BindTypeOK, CacheKeys, KeyReached
<1>2. KeyReached'
  BY <1>1 DEF KeyReached
<1>3. CacheKey' # CacheKey => bindingVersion # CacheKey'
  <2> SUFFICES ASSUME CacheKey' # CacheKey, bindingVersion = CacheKey' PROVE FALSE
    OBVIOUS
  <2>1. /\ CacheKey'[1] = workspaceVersion' /\ CacheKey'[2] = dataVersion'
        /\ CacheKey' \in CacheKeys
    BY DEF CacheKey, CacheKeys, BindTypeOK
  <2>2. bindingVersion # NoValue
    BY <2>1, <1>1, KeyTyped
  <2>3. workspaceVersion' <= workspaceVersion /\ dataVersion' <= dataVersion
    BY <2>1, <2>2, <1>1
  <2>4. CacheKey' = CacheKey
    BY <2>3, <1>1 DEF CacheKey
  <2>5. QED
    BY <2>4
<1>4. CacheKey' = CacheKey => UNCHANGED <<workspaceVersion, source, dataVersion>>
  BY <1>1 DEF CacheKey
<1>5. LoadsAwaited'
  BY <1>3, <1>4 DEF BindInv, LoadsAwaited, Awaited
<1>6. OldStraddles' /\ ListenersAreSubs'
  BY DEF BindInv, OldStraddles, ListenersAreSubs
<1>7. SubsOfDocument'
  <2> SUFFICES ASSUME NEW w \in Bound, streamSubs[w] # NoValue
               PROVE  /\ bindingVersion # NoValue /\ streamSubs[w] = bindingVersion[1]
                      /\ streamSubs[w] = workspaceVersion' => source'[w] = "stream"
    BY DEF SubsOfDocument
  <2>1. /\ bindingVersion # NoValue /\ streamSubs[w] = bindingVersion[1]
        /\ streamSubs[w] = workspaceVersion => source[w] = "stream"
    BY DEF BindInv, SubsOfDocument
  <2>2. QED
    BY <2>1, <1>1
<1>8. ResultsOfSource'
  BY <1>3, <1>4 DEF BindInv, ResultsOfSource
<1>9. Rendered'
  BY DEF Rendered
<1>10. QED
  BY <1>2, <1>5, <1>6, <1>7, <1>8, <1>9 DEF BindInv

\* An event of the stream.
LEMMA PushKeeps == ASSUME BindInv, NEW w \in Bound, Push(w) PROVE BindInv'
<1> USE DEF Push, board, bindHistory
<1> DEFINE n == pushes + 1
<1>1. /\ BindTypeOK /\ n \in 1..MaxPushes /\ n # NoValue
      /\ Streamed(n).asked = NoValue /\ Streamed(n).event = n
      /\ Streamed(n) \in [asked : CacheKeys \cup {NoValue}, event : 1..MaxPushes \cup {NoValue}]
      /\ Streamed(n) # Nothing
  BY BindingsAssumption DEF BindInv, BindTypeOK, Streamed, Nothing
<1>2. BindTypeOK'
  BY <1>1, BindingsAssumption DEF BindTypeOK
<1>3. KeyReached' /\ LoadsAwaited' /\ SubsOfDocument' /\ ListenersAreSubs' /\ Rendered'
  BY DEF BindInv, KeyReached, LoadsAwaited, Awaited, SubsOfDocument, ListenersAreSubs, Rendered,
         CacheKey
<1>4. /\ bindingResults' = [bindingResults EXCEPT ![w] = Streamed(n)]
      /\ streamValues' = [streamValues EXCEPT ![w] = n]
      /\ bindingResults \in [Bound -> [asked : CacheKeys \cup {NoValue},
                                       event : 1..MaxPushes \cup {NoValue}]]
      /\ streamValues \in [Bound -> 1..MaxPushes \cup {NoValue}]
  BY DEF BindInv, BindTypeOK
<1>5. OldStraddles'
  BY <1>1, <1>4 DEF BindInv, OldStraddles
<1>6. ResultsOfSource'
  <2>1. CacheKey' = CacheKey /\ UNCHANGED <<bindingVersion, source, crossed>>
    BY DEF CacheKey
  <2>2. bindingVersion = CacheKey => source[w] = "stream"
    <3>1. PICK l \in listeners : l.widget = w
      OBVIOUS
    <3>2. streamSubs[w] # NoValue
      BY <3>1 DEF BindInv, ListenersAreSubs, Listener
    <3>3. QED
      BY <3>2, <1>1, KeyTyped DEF BindInv, SubsOfDocument
  <2>3. QED
    BY <2>1, <2>2, <1>1, <1>4 DEF BindInv, ResultsOfSource
<1>7. QED
  BY <1>2, <1>3, <1>5, <1>6 DEF BindInv

\* The answer of a request.
LEMMA ResultKeeps == ASSUME BindInv, NEW f \in flights, ResultArrives(f) PROVE BindInv'
<1> USE DEF ResultArrives, board, streams
<1> DEFINE w == f.widget
<1>1. /\ BindTypeOK /\ w \in Bound /\ f.key \in CacheKeys
      /\ Answered(f.key).asked = f.key /\ Answered(f.key).event = NoValue
      /\ Answered(f.key) \in [asked : CacheKeys \cup {NoValue}, event : 1..MaxPushes \cup {NoValue}]
  BY BindingsAssumption DEF BindInv, BindTypeOK, Answered, Nothing
<1>2. BindTypeOK'
  <2>1. /\ flights' \subseteq [widget : Bound, key : CacheKeys]
        /\ bindingLoads' \subseteq Bound /\ crossed' \subseteq Bound
        /\ bindingResults' \in [Bound -> [asked : CacheKeys \cup {NoValue},
                                          event : 1..MaxPushes \cup {NoValue}]]
    BY <1>1 DEF BindTypeOK
  <2>2. QED
    BY <2>1, <1>1 DEF BindTypeOK
<1>3. KeyReached' /\ SubsOfDocument' /\ ListenersAreSubs' /\ Rendered'
  BY DEF BindInv, KeyReached, SubsOfDocument, ListenersAreSubs, Rendered
<1>4. /\ bindingResults' = [bindingResults EXCEPT ![w] = Answered(f.key)]
      /\ bindingResults \in [Bound -> [asked : CacheKeys \cup {NoValue},
                                       event : 1..MaxPushes \cup {NoValue}]]
      /\ CacheKey' = CacheKey /\ UNCHANGED <<bindingVersion, source, streamValues, straddled>>
  BY DEF BindInv, BindTypeOK, CacheKey
<1>5. LoadsAwaited'
  BY <1>4 DEF BindInv, LoadsAwaited, Awaited
<1>6. OldStraddles'
  <2>1. \A g \in flights' : g.key = bindingVersion \/ g.widget \in straddled
    BY DEF BindInv, OldStraddles
  <2>2. \A v \in Bound : \/ bindingResults'[v].asked \in {NoValue, bindingVersion}
                         \/ v \in straddled
    BY <1>1, <1>4 DEF BindInv, OldStraddles
  <2>3. QED
    BY <2>1, <2>2, <1>4 DEF OldStraddles
<1>8. ResultsOfSource'
  BY <1>1, <1>4 DEF BindInv, ResultsOfSource
<1>9. QED
  BY <1>2, <1>3, <1>5, <1>6, <1>8 DEF BindInv

\* The element leaves the page.
LEMMA StopKeeps == ASSUME BindInv, StopView PROVE BindInv'
<1> USE DEF StopView, board, cache, bindHistory
<1>1. BindTypeOK'
  BY DEF BindInv, BindTypeOK
<1>2. KeyReached' /\ LoadsAwaited' /\ OldStraddles' /\ Rendered'
  BY DEF BindInv, KeyReached, LoadsAwaited, Awaited, OldStraddles, Rendered, CacheKey
<1>3. SubsOfDocument'
  BY DEF SubsOfDocument
<1>4. ListenersAreSubs'
  BY DEF BindInv, ListenersAreSubs
<1>5. ResultsOfSource'
  BY DEF BindInv, ResultsOfSource, CacheKey
<1>6. QED
  BY <1>1, <1>2, <1>3, <1>4, <1>5 DEF BindInv

\* A render: the subscriptions of the tab, and the requests of what it does not know.
LEMMA RenderKeeps == ASSUME BindInv, Render PROVE BindInv'
<1> USE DEF Render, board
<1> DEFINE same == bindingVersion = CacheKey
           event(w) == w \in Missing /\ source[w] = "stream" /\ streamValues'[w] # NoValue
<1>1. /\ BindTypeOK
      /\ CacheKey \in CacheKeys /\ CacheKey # NoValue
      /\ CacheKey[1] = workspaceVersion /\ CacheKey[2] = dataVersion
      /\ workspaceVersion \in Nat /\ dataVersion \in Nat
      /\ CacheKey' = CacheKey /\ bindingVersion' = CacheKey
      /\ OnTab' = OnTab
  <2>1. BindTypeOK
    BY DEF BindInv
  <2>2. workspaceVersion \in Nat /\ dataVersion \in Nat
    BY <2>1 DEF BindTypeOK
  <2>3. CacheKey' = CacheKey /\ bindingVersion' = CacheKey
    BY DEF CacheKey
  <2>4. OnTab' = OnTab
    BY DEF OnTab
  <2>5. QED
    BY <2>1, <2>2, <2>3, <2>4, KeyTyped
<1>2. /\ OnTab \subseteq Bound /\ Missing \subseteq OnTab /\ Asked \subseteq Missing
      /\ Wanted \subseteq Bound /\ Wanted \subseteq OnTab /\ Dropped \subseteq Bound
      /\ Loading \subseteq bindingLoads
  BY DEF OnTab, Missing, Asked, Wanted, Dropped, Loading
<1>3. Kept \in [Bound -> [asked : CacheKeys \cup {NoValue}, event : 1..MaxPushes \cup {NoValue}]]
  BY <1>1 DEF Kept, BindTypeOK, Nothing
<1>4. \A w \in Bound : /\ streamValues'[w] \in {NoValue, streamValues[w]}
                       /\ streamValues'[w] \in 1..MaxPushes \cup {NoValue}
  BY <1>1 DEF Reconcile, BindTypeOK
<1>5. \A n \in 1..MaxPushes : /\ Streamed(n).asked = NoValue /\ Streamed(n).event = n
                              /\ Streamed(n) \in [asked : CacheKeys \cup {NoValue},
                                                  event : 1..MaxPushes \cup {NoValue}]
                              /\ Streamed(n) # Nothing
  BY KeyTyped, <1>1 DEF Streamed, Nothing
<1>6. \A w \in Bound : /\ event(w) => /\ bindingResults'[w] = Streamed(streamValues'[w])
                                      /\ streamValues'[w] \in 1..MaxPushes
                       /\ ~ event(w) => bindingResults'[w] = Kept[w]
  BY <1>4
<1>7. BindTypeOK'
  <2>1. streamSubs' \in [Bound -> 0..MaxVersion \cup {NoValue}]
    BY <1>1 DEF Reconcile, BindTypeOK
  <2>2. streamValues' \in [Bound -> 1..MaxPushes \cup {NoValue}]
    BY <1>1 DEF Reconcile, BindTypeOK
  <2>3. listeners' \subseteq [widget : Bound, made : 0..MaxVersion]
    BY <1>1, <1>2 DEF Reconcile, Unlistened, Listener, BindTypeOK
  <2>4. bindingResults' \in [Bound -> [asked : CacheKeys \cup {NoValue},
                                       event : 1..MaxPushes \cup {NoValue}]]
    <3>1. \A w \in Bound : bindingResults'[w] \in [asked : CacheKeys \cup {NoValue},
                                                   event : 1..MaxPushes \cup {NoValue}]
      BY <1>3, <1>5, <1>6
    <3>2. QED
      BY <3>1
  <2>5. bindingLoads' \subseteq Bound
    BY <1>1, <1>2 DEF BindTypeOK
  <2>6. flights' \subseteq [widget : Bound, key : CacheKeys]
    BY <1>1, <1>2 DEF BindTypeOK
  <2>7. straddled' \subseteq Bound
    BY <1>1 DEF BindTypeOK
  <2>8. QED
    BY <2>1, <2>2, <2>3, <2>4, <2>5, <2>6, <2>7, <1>1 DEF BindTypeOK
<1>8. KeyReached'
  BY <1>1 DEF KeyReached
<1>9. LoadsAwaited'
  <2> SUFFICES ASSUME NEW w \in bindingLoads'
               PROVE  Awaited(w)' /\ source[w] # "stream"
    BY DEF LoadsAwaited
  <2>1. CASE w \in Asked
    <3>1. [widget |-> w, key |-> CacheKey] \in flights'
      BY <2>1
    <3>2. QED
      BY <3>1, <2>1 DEF Awaited, Asked
  <2>2. CASE w \in Loading
    <3>1. same /\ w \in bindingLoads
      BY <2>2 DEF Loading
    <3>2. QED
      BY <3>1 DEF BindInv, LoadsAwaited, Awaited
  <2>3. QED
    BY <2>1, <2>2
<1>10. OldStraddles'
  <2>1. ASSUME NEW f \in flights' PROVE f.key = CacheKey \/ f.widget \in straddled'
    <3>1. CASE f \in flights
      BY <3>1 DEF BindInv, OldStraddles
    <3>2. CASE f \notin flights
      BY <3>2
    <3>3. QED
      BY <3>1, <3>2
  <2>2. ASSUME NEW w \in Bound
        PROVE  bindingResults'[w].asked \in {NoValue, CacheKey} \/ w \in straddled'
    <3>1. CASE event(w)
      BY <3>1, <1>5, <1>6
    <3>2. CASE ~ event(w) /\ ~ same
      BY <3>2, <1>6 DEF Kept, Nothing
    <3>3. CASE ~ event(w) /\ same
      BY <3>3, <1>6 DEF Kept, BindInv, OldStraddles
    <3>4. QED
      BY <3>1, <3>2, <3>3
  <2>3. QED
    BY <2>1, <2>2, <1>1 DEF OldStraddles
<1>11. \A w \in Bound : streamSubs'[w] = IF w \in Wanted THEN workspaceVersion ELSE NoValue
  BY DEF Reconcile
<1>12. SubsOfDocument'
  <2>1. \A w \in Wanted : source[w] = "stream"
    BY DEF Wanted
  <2>2. QED
    BY <2>1, <1>1, <1>11 DEF SubsOfDocument
<1>13. ListenersAreSubs'
  <2>1. workspaceVersion # NoValue
    BY <1>1, KeyTyped DEF BindTypeOK
  <2>2. {w \in Bound : streamSubs'[w] # NoValue} = Wanted
    BY <2>1, <1>2, <1>11
  <2>3. Unlistened \subseteq {Listener(w, workspaceVersion) : w \in Wanted}
    <3> SUFFICES ASSUME NEW l \in Unlistened
                 PROVE  \E w \in Wanted : l = Listener(w, workspaceVersion)
      OBVIOUS
    <3>1. PICK w \in Bound : streamSubs[w] # NoValue /\ l = Listener(w, streamSubs[w])
      BY DEF Unlistened, BindInv, ListenersAreSubs
    <3>2. w \notin Dropped
      BY <3>1 DEF Unlistened
    <3>3. QED
      BY <3>1, <3>2 DEF Dropped
  <2>4. listeners' = {Listener(w, workspaceVersion) : w \in Wanted}
    BY <2>3 DEF Reconcile
  <2>5. {Listener(w, streamSubs'[w]) : w \in Wanted} = {Listener(w, workspaceVersion) : w \in Wanted}
    BY <1>2, <1>11
  <2>6. QED
    BY <2>2, <2>4, <2>5 DEF ListenersAreSubs
<1>14. \A w \in Bound : Kept[w] # Nothing => same /\ Kept[w] = bindingResults[w]
  BY DEF Kept
<1>15. ResultsOfSource'
  <2> SUFFICES ASSUME NEW w \in Bound
               PROVE  /\ source[w] = "rpc" => bindingResults'[w].event = NoValue
                      /\ source[w] = "stream" /\ w \notin crossed /\ streamValues'[w] # NoValue =>
                           bindingResults'[w] \in {Nothing, Streamed(streamValues'[w])}
    BY DEF ResultsOfSource
  <2>1. CASE event(w)
    BY <2>1, <1>6
  <2>2. CASE ~ event(w) /\ Kept[w] = Nothing
    BY <2>2, <1>6 DEF Nothing
  <2>3. CASE ~ event(w) /\ Kept[w] # Nothing
    <3>1. same /\ bindingResults'[w] = bindingResults[w]
      BY <2>3, <1>6, <1>14
    <3>2. QED
      BY <3>1, <1>4 DEF BindInv, ResultsOfSource
  <2>4. QED
    BY <2>1, <2>2, <2>3
<1>17. Rendered'
  <2> SUFFICES ASSUME NEW w \in OnTab
               PROVE  /\ source[w] = "rpc" /\ ~ Awaited(w)' =>
                           /\ bindingResults'[w] # Nothing
                           /\ w \notin straddled' => bindingResults'[w] = Answered(CacheKey)
                      /\ source[w] = "stream" /\ streamValues'[w] # NoValue /\ w \notin crossed =>
                           bindingResults'[w] = Streamed(streamValues'[w])
    BY <1>1 DEF Rendered
  <2>w. w \in Bound
    BY <1>2
  <2>1. ASSUME source[w] = "rpc", ~ Awaited(w)'
        PROVE  /\ bindingResults'[w] # Nothing
               /\ w \notin straddled' => bindingResults'[w] = Answered(CacheKey)
    <3>1. w \notin Asked
      <4>1. ASSUME w \in Asked PROVE [widget |-> w, key |-> CacheKey] \in flights'
        BY <4>1
      <4>2. QED
        BY <4>1, <2>1 DEF Awaited
    <3>2. w \notin Loading
      <4>1. ASSUME w \in Loading PROVE Awaited(w)
        BY <4>1, <1>2 DEF BindInv, LoadsAwaited
      <4>2. Awaited(w) => Awaited(w)'
        BY DEF Awaited
      <4>3. QED
        BY <4>1, <4>2, <2>1
    <3>3. Kept[w] # Nothing /\ ~ event(w)
      BY <3>1, <3>2, <2>1 DEF Missing, Asked
    <3>4. same /\ bindingResults'[w] = bindingResults[w] /\ straddled' = straddled
      BY <3>3, <2>w, <1>6, <1>14
    <3>5. bindingResults[w].event = NoValue
      BY <3>4, <2>w, <2>1 DEF BindInv, ResultsOfSource
    <3>6. bindingResults[w] = [asked |-> bindingResults[w].asked, event |-> NoValue]
      BY <3>5, <2>w, <1>1 DEF BindTypeOK
    <3>7. ASSUME w \notin straddled PROVE bindingResults[w] = Answered(CacheKey)
      <4>1. bindingResults[w].asked \in {NoValue, CacheKey}
        BY <3>4, <3>7, <2>w DEF BindInv, OldStraddles
      <4>2. bindingResults[w] # Nothing
        BY <3>3, <3>4, <2>w, <1>14
      <4>3. QED
        BY <4>1, <4>2, <3>6 DEF Answered, Nothing
    <3>8. QED
      BY <3>3, <3>4, <3>7, <2>w, <1>14
  <2>2. ASSUME source[w] = "stream", streamValues'[w] # NoValue, w \notin crossed
        PROVE  bindingResults'[w] = Streamed(streamValues'[w])
    <3>1. CASE w \in Missing
      BY <3>1, <2>2, <2>w, <1>6
    <3>2. CASE w \notin Missing
      <4>1. same
        BY <3>2, <2>w, <1>14 DEF Missing, Loading
      <4>2. w \notin Loading
        BY <4>1, <2>2, <1>2 DEF BindInv, LoadsAwaited
      <4>3. Kept[w] # Nothing
        BY <3>2, <4>2 DEF Missing
      <4>4. streamValues'[w] = streamValues[w] /\ bindingResults'[w] = bindingResults[w]
        BY <4>3, <3>2, <2>2, <2>w, <1>4, <1>6, <1>14
      <4>5. bindingResults[w] # Nothing
        BY <4>3, <2>w, <1>14
      <4>6. QED
        BY <4>1, <4>4, <4>5, <2>2, <2>w DEF BindInv, ResultsOfSource
    <3>3. QED
      BY <3>1, <3>2
  <2>3. QED
    BY <2>1, <2>2
<1>18. QED
  BY <1>7, <1>8, <1>9, <1>10, <1>12, <1>13, <1>15, <1>17 DEF BindInv

LEMMA BindNextInv == ASSUME BindInv, [BindNext]_bindVars PROVE BindInv'
<1>t. BindTypeOK
  BY DEF BindInv
<1>1. CASE Render
  BY <1>1, RenderKeeps
<1>2. CASE \E f \in flights : ResultArrives(f)
  BY <1>2, ResultKeeps
<1>3. CASE \E w \in Bound : Push(w)
  BY <1>3, PushKeeps
<1>4. CASE \E w \in Bound : \E src \in {"rpc", "stream"} : EditDocument(w, src)
  <2>1. PICK w \in Bound, src \in {"rpc", "stream"} : EditDocument(w, src)
    BY <1>4
  <2>2. BindTypeOK'
    BY <2>1, <1>t, BindingsAssumption DEF EditDocument, BindTypeOK, cache, streams, bindHistory
  <2>3. QED
    BY <2>1, <2>2, BoardChangeKeeps DEF EditDocument
<1>5. CASE PollTick
  <2>1. BindTypeOK'
    BY <1>5, <1>t, BindingsAssumption DEF PollTick, BindTypeOK, cache, streams, bindHistory
  <2>2. QED
    BY <1>5, <2>1, BoardChangeKeeps DEF PollTick
<1>6. CASE \E t \in BoardTabs : SelectTab(t)
  <2>1. BindTypeOK'
    BY <1>6, <1>t DEF SelectTab, BindTypeOK, cache, streams, bindHistory
  <2>2. QED
    BY <1>6, <2>1, BoardChangeKeeps DEF SelectTab
<1>7. CASE \E up \in BOOLEAN : Connect(up)
  <2>1. BindTypeOK'
    BY <1>7, <1>t DEF Connect, BindTypeOK, cache, streams, bindHistory
  <2>2. QED
    BY <1>7, <2>1, BoardChangeKeeps DEF Connect
<1>8. CASE StopView
  BY <1>8, StopKeeps
<1>9. CASE UNCHANGED bindVars
  BY SMTT(40), <1>9 DEF bindVars, BindInv, BindTypeOK, KeyReached, LoadsAwaited, Awaited, OldStraddles,
              SubsOfDocument, ListenersAreSubs, ResultsOfSource, Rendered, OnTab, CacheKey
<1>10. QED
  BY <1>1, <1>2, <1>3, <1>4, <1>5, <1>6, <1>7, <1>8, <1>9 DEF BindNext

\* Every reachable state of the cache satisfies its invariant.
THEOREM BindingsInvariant == BindSpec => []BindInv
  BY BindInitInv, BindNextInv, PTL DEF BindSpec

\* The cache of the bindings is honest: nobody waits in vain, nothing of an older document is
\* shown but what straddled the change, and the streams are the ones of the shown tab
\* (ensureBindings, reconcileStreamSubscriptions).
THEOREM CacheHonestHolds == BindSpec => []CacheHonest
  BY BindingsInvariant, BindInvHonest, PTL

-----------------------------------------------------------------------------
(***************************************************************************)
(* The notes pads                                                          *)
(***************************************************************************)
\* The shown element was made, and so were those with a timer; a made element has a widget.
PadsMade ==
  /\ Showing => cell.pad \in 1..made
  /\ \A p \in Pads : Armed(p) => p \in 1..made
  /\ \A p \in 1..made : pad[p].widget \in Notes

\* Timers are armed one after the other, by the edits.
ArmedApart ==
  /\ \A p \in Pads : timers[p].armed <= edits
  /\ \A p, q \in Pads : Armed(p) /\ timers[p].armed = timers[q].armed => p = q

\* What is under way for w: the timers of its elements and the saves of its state.
ArmedFor(w) == {p \in Pads : Armed(p) /\ pad[p].widget = w}
SavesFor(w) == {i \in DOMAIN saves : saves[i].widget = w}

\* The last that is under way for a widget's state is the last text typed for it.
LatestUnderWay ==
  \A w \in Notes :
    /\ \A p \in ArmedFor(w) :
         (\A q \in ArmedFor(w) : timers[q].armed <= timers[p].armed) => timers[p].text = latest[w]
    /\ ArmedFor(w) = {} =>
         \A i \in SavesFor(w) : (\A j \in SavesFor(w) : j <= i) => saves[i].text = latest[w]
    /\ ArmedFor(w) = {} /\ SavesFor(w) = {} => w \in refused \/ kept[w] = latest[w]

TypedShown == \A p \in Pads : pad[p].dirty => pad[p].text = typed[p]

\* A record that was written has a text somebody typed.
WrittenTexts == \A w \in Notes : file[w].version > 0 => file[w].text \in Texts

\* Nobody has read a version that is not written yet.
PeerNotAhead ==
  \A w \in Notes \ unread : /\ peer[w].version <= file[w].version
                            /\ peer[w].version = file[w].version => peer[w].text = file[w].text

PadInv ==
  /\ PadTypeOK
  /\ PadsMade
  /\ ArmedApart
  /\ LatestUnderWay
  /\ TypedShown
  /\ WrittenTexts
  /\ PeerNotAhead

LEMMA PadInvKeeps == PadInv => EditsKept
<1> SUFFICES ASSUME PadInv PROVE EditsKept
  OBVIOUS
<1>1. \A p \in Pads : pad[p].dirty => pad[p].text = typed[p]
  BY DEF PadInv, TypedShown
<1>2. ASSUME \A p \in Pads : ~ Armed(p), saves = <<>>, NEW w \in Notes
      PROVE  w \in refused \/ kept[w] = latest[w]
  BY <1>2 DEF PadInv, LatestUnderWay, ArmedFor, SavesFor
<1>3. VersionNamesText
  BY DEF PadInv, PeerNotAhead, VersionNamesText
<1>4. QED
  BY <1>1, <1>2, <1>3 DEF EditsKept

LEMMA PadInitInv == PadInit => PadInv
<1> SUFFICES ASSUME PadInit PROVE PadInv
  OBVIOUS
<1>1. PadTypeOK
  BY PadAssumption DEF PadInit, PadTypeOK, Records, NoRecord
<1>2. \A p \in Pads : ~ Armed(p)
  BY DEF PadInit, Armed
<1>3. PadsMade /\ ArmedApart
  BY <1>2, PadAssumption DEF PadInit, PadsMade, ArmedApart, Showing, NoTimer
<1>4. LatestUnderWay
  BY <1>2 DEF PadInit, LatestUnderWay, ArmedFor, SavesFor
<1>5. TypedShown /\ WrittenTexts /\ PeerNotAhead
  BY DEF PadInit, TypedShown, WrittenTexts, PeerNotAhead, NoRecord
<1>6. QED
  BY <1>1, <1>3, <1>4, <1>5 DEF PadInv

\* The element on the page, and the state its accessor is bound to.
LEMMA ShownPad ==
    ASSUME PadInv, Showing
    PROVE  cell.pad \in Pads /\ cell.pad \in 1..made /\ pad[cell.pad].widget \in Notes
  BY PadAssumption DEF PadInv, PadsMade, PadTypeOK, Pads

LEMMA ArmedMade ==
    ASSUME PadInv, NEW p \in Pads, Armed(p)
    PROVE  /\ p \in 1..made /\ pad[p].widget \in Notes
           /\ timers[p].armed \in 1..MaxEdits /\ timers[p].text \in Texts
  BY DEF PadInv, PadsMade, PadTypeOK, Armed

\* What does not touch timers, saves and what was stored leaves what is under way.
LEMMA UnderWayKept ==
    ASSUME LatestUnderWay, UNCHANGED <<timers, saves, latest, kept, refused>>,
           \A p \in Pads : Armed(p) => pad'[p].widget = pad[p].widget
    PROVE  LatestUnderWay'
<1>1. \A w \in Notes : ArmedFor(w)' = ArmedFor(w) /\ SavesFor(w)' = SavesFor(w)
  BY DEF ArmedFor, SavesFor, Armed
<1>2. QED
  BY <1>1 DEF LatestUnderWay

\* Steps of the board and of another client that change no timer and no save.
LEMMA QuietPadKeeps ==
    ASSUME PadInv, PadTypeOK',
           UNCHANGED <<timers, saves, edits, typed, latest, kept, refused, unread>>,
           made' \in {made, made + 1},
           Showing' => cell.pad' \in 1..made',
           \A p \in 1..made' : pad'[p].widget \in Notes,
           \A p \in 1..made : pad'[p].widget = pad[p].widget,
           \A p \in Pads : pad'[p].dirty => pad[p].dirty /\ pad'[p].text = pad[p].text,
           \/ UNCHANGED <<file, peer>>
           \/ \E w \in Notes : UNCHANGED file /\ peer' = [peer EXCEPT ![w] = file[w]]
           \/ \E w \in Notes, text \in Texts :
                /\ file' = Written(w, text)
                /\ peer' = [peer EXCEPT ![w] = file'[w]]
    PROVE  PadInv'
<1>1. made \in Nat /\ PadTypeOK
  BY DEF PadInv, PadTypeOK
<1>2. PadsMade'
  <2>1. \A p \in Pads : Armed(p)' => p \in 1..made'
    BY <1>1 DEF PadInv, PadsMade, Armed
  <2>2. QED
    BY <2>1 DEF PadsMade
<1>3. ArmedApart'
  BY DEF PadInv, ArmedApart, Armed
<1>4. LatestUnderWay'
  BY UnderWayKept DEF PadInv, PadsMade
<1>5. TypedShown'
  BY DEF PadInv, TypedShown
<1>6. PeerNotAhead'
  <2>1. CASE UNCHANGED <<file, peer>>
    BY <2>1 DEF PadInv, PeerNotAhead
  <2>2. CASE \E w \in Notes : UNCHANGED file /\ peer' = [peer EXCEPT ![w] = file[w]]
    BY <2>2, <1>1 DEF PadInv, PeerNotAhead, PadTypeOK, Records
  <2>3. ASSUME NEW w \in Notes, NEW text \in Texts, file' = Written(w, text),
               peer' = [peer EXCEPT ![w] = file'[w]]
        PROVE  PeerNotAhead'
    <3>1. \A v \in Notes : file'[v].version \in Nat
      BY DEF PadTypeOK, Records
    <3>2. peer'[w] = file'[w]
      BY <2>3, <1>1 DEF PadTypeOK
    <3>3. \A v \in Notes \ {w} : file'[v] = file[v] /\ peer'[v] = peer[v]
      BY <2>3, <1>1 DEF PadTypeOK, Written
    <3>4. QED
      BY <3>1, <3>2, <3>3 DEF PadInv, PeerNotAhead
  <2>4. QED
    BY <2>1, <2>2, <2>3
<1>7. WrittenTexts'
  <2>1. CASE UNCHANGED file
    BY <2>1 DEF PadInv, WrittenTexts
  <2>2. ASSUME NEW w \in Notes, NEW text \in Texts, file' = Written(w, text) PROVE WrittenTexts'
    BY <2>2, <1>1 DEF PadInv, WrittenTexts, Written, PadTypeOK
  <2>3. QED
    BY <2>1, <2>2
<1>8. QED
  BY <1>2, <1>3, <1>4, <1>5, <1>6, <1>7 DEF PadInv

\* The operator types.
LEMMA TypeKeeps == ASSUME PadInv, NEW text \in Texts, Type(text) PROVE PadInv'
<1>p. PICK p0 \in Pads : p0 = cell.pad /\ p0 \in 1..made /\ pad[p0].widget \in Notes
  BY ShownPad DEF Type
<1>w. PICK w0 \in Notes : w0 = pad[p0].widget
  BY <1>p
<1>e. PICK n \in 1..MaxEdits : n = edits + 1
  <2>1. edits \in Nat /\ edits < MaxEdits /\ MaxEdits \in Nat
    BY PadAssumption DEF PadInv, PadTypeOK, Type
  <2>2. QED
    BY <2>1
<1> DEFINE tm == [armed |-> n, text |-> text]
<1>1. PadTypeOK /\ p0 \in Pads /\ p0 \in 1..made /\ w0 \in Notes /\ n = edits + 1 /\ n \in 1..MaxEdits
  BY <1>p, <1>w, <1>e DEF PadInv
<1>2. /\ pad' = [pad EXCEPT ![p0].text = text, ![p0].dirty = TRUE]
      /\ timers' = [timers EXCEPT ![p0] = tm]
      /\ typed' = [typed EXCEPT ![p0] = text]
      /\ latest' = [latest EXCEPT ![w0] = text]
      /\ edits' = n
      /\ UNCHANGED <<file, cell, made, saves, loads, peer, fails, others, kept, refused, unread>>
  BY <1>p, <1>w, <1>e DEF Type
<1>3. tm # NoTimer /\ tm.armed = n /\ tm.text = text
  BY <1>1 DEF NoTimer
<1>4. \A p \in Pads : /\ pad'[p].widget = pad[p].widget
                      /\ p # p0 => pad'[p] = pad[p] /\ timers'[p] = timers[p] /\ typed'[p] = typed[p]
  BY <1>1, <1>2 DEF PadTypeOK
<1>5. timers'[p0] = tm /\ pad'[p0].dirty /\ pad'[p0].text = text /\ typed'[p0] = text
  BY <1>1, <1>2 DEF PadTypeOK
<1>6. \A p \in Pads : Armed(p)' <=> p = p0 \/ Armed(p)
  BY <1>3, <1>4, <1>5 DEF Armed, NoTimer
<1>7. PadTypeOK'
  <2>1. pad' \in [Pads -> [widget : Notes \cup {NoPad}, text : Texts \cup {Seed},
                           persisted : BOOLEAN, dirty : BOOLEAN]]
    <3>1. [pad[p0] EXCEPT !.text = text, !.dirty = TRUE]
            \in [widget : Notes \cup {NoPad}, text : Texts \cup {Seed},
                 persisted : BOOLEAN, dirty : BOOLEAN]
      <4>1. pad[p0] \in [widget : Notes \cup {NoPad}, text : Texts \cup {Seed},
                         persisted : BOOLEAN, dirty : BOOLEAN]
        BY <1>1 DEF PadTypeOK
      <4>2. QED
        BY <4>1
    <3>2. pad' = [pad EXCEPT ![p0] = [pad[p0] EXCEPT !.text = text, !.dirty = TRUE]]
      BY <1>1, <1>2 DEF PadTypeOK
    <3>3. QED
      BY <3>1, <3>2, <1>1 DEF PadTypeOK
  <2>2. timers' \in [Pads -> [armed : 1..MaxEdits, text : Texts] \cup {NoTimer}]
    <3>1. tm \in [armed : 1..MaxEdits, text : Texts]
      BY <1>1
    <3>2. timers \in [Pads -> [armed : 1..MaxEdits, text : Texts] \cup {NoTimer}]
      BY <1>1 DEF PadTypeOK
    <3>3. QED
      BY <3>1, <3>2, <1>2
  <2>3. typed' \in [Pads -> Texts \cup {NoText}] /\ latest' \in [Notes -> Texts \cup {NoText}]
    <3>1. typed \in [Pads -> Texts \cup {NoText}] /\ latest \in [Notes -> Texts \cup {NoText}]
      BY <1>1 DEF PadTypeOK
    <3>2. QED
      BY <3>1, <1>2
  <2>4. edits' \in 0..MaxEdits
    BY <1>1, <1>2
  <2>5. QED
    BY <2>1, <2>2, <2>3, <2>4, <1>1, <1>2 DEF PadTypeOK
<1>8. PadsMade'
  BY SMTT(40), <1>1, <1>2, <1>4, <1>6, PadAssumption DEF PadInv, PadsMade, Showing, PadTypeOK, Pads
<1>9. ArmedApart'
  <2>1. edits \in Nat /\ \A p \in Pads : timers[p].armed \in Int /\ timers[p].armed <= edits
    BY <1>1 DEF PadInv, ArmedApart, PadTypeOK, NoTimer
  <2>2. \A p \in Pads : timers'[p].armed <= edits'
    BY <2>1, <1>1, <1>2, <1>3, <1>4, <1>5
  <2>3. ASSUME NEW p \in Pads, NEW q \in Pads, Armed(p)', timers'[p].armed = timers'[q].armed
        PROVE  p = q
    <3>1. CASE p = p0 \/ q = p0
      BY <3>1, <2>1, <2>3, <1>1, <1>3, <1>4, <1>5
    <3>2. CASE p # p0 /\ q # p0
      BY <3>2, <2>3, <1>4, <1>6 DEF PadInv, ArmedApart
    <3>3. QED
      BY <3>1, <3>2
  <2>4. QED
    BY <2>2, <2>3 DEF ArmedApart
<1>10. LatestUnderWay'
  <2>1. \A w \in Notes : SavesFor(w)' = SavesFor(w)
    BY <1>2 DEF SavesFor
  <2>2. ArmedFor(w0)' = ArmedFor(w0) \cup {p0} /\ \A w \in Notes \ {w0} : ArmedFor(w)' = ArmedFor(w)
    BY <1>w, <1>1, <1>4, <1>6 DEF ArmedFor
  <2>3. ASSUME NEW p \in ArmedFor(w0)', \A q \in ArmedFor(w0)' : timers'[q].armed <= timers'[p].armed
        PROVE  timers'[p].text = latest'[w0]
    <3>1. n <= timers'[p].armed /\ p \in Pads
      <4>1. p0 \in ArmedFor(w0)' /\ timers'[p0].armed = n
        BY <2>2, <1>3, <1>5
      <4>2. n <= timers'[p].armed
        BY <4>1, <2>3
      <4>3. p \in ArmedFor(w0) \cup {p0}
        BY <2>2
      <4>4. ArmedFor(w0) \subseteq Pads
        BY DEF ArmedFor
      <4>5. QED
        BY <4>2, <4>3, <4>4
    <3>2. p = p0
      <4>1. p # p0 => timers'[p].armed <= edits /\ timers'[p].armed \in Int
        <5>1. timers[p] \in [armed : 1..MaxEdits, text : Texts] \cup {NoTimer}
          BY <3>1, <1>1 DEF PadTypeOK
        <5>2. timers[p].armed \in Int
          BY <5>1 DEF NoTimer
        <5>3. timers[p].armed <= edits
          BY <3>1 DEF PadInv, ArmedApart
        <5>4. QED
          BY <5>2, <5>3, <3>1, <1>4
      <4>2. QED
        BY <3>1, <4>1, <1>1 DEF PadTypeOK
    <3>3. QED
      BY <3>2, <1>1, <1>2, <1>3, <1>5 DEF PadTypeOK
  <2>4. ASSUME NEW w \in Notes, w # w0
        PROVE  /\ \A p \in ArmedFor(w)' : timers'[p] = timers[p] /\ p \in ArmedFor(w)
               /\ latest'[w] = latest[w] /\ kept'[w] = kept[w]
    <3>1. \A p \in ArmedFor(w) : p # p0 /\ p \in Pads
      BY <2>4, <1>w DEF ArmedFor
    <3>2. QED
      BY <3>1, <2>2, <2>4, <1>1, <1>2, <1>4 DEF PadTypeOK
  <2>5. \A w \in Notes \ {w0} :
          /\ \A p \in ArmedFor(w) :
               (\A q \in ArmedFor(w) : timers'[q].armed <= timers'[p].armed) =>
                 timers'[p].text = latest'[w]
          /\ ArmedFor(w) = {} =>
               \A i \in SavesFor(w) : (\A j \in SavesFor(w) : j <= i) => saves[i].text = latest'[w]
          /\ ArmedFor(w) = {} /\ SavesFor(w) = {} => w \in refused \/ kept[w] = latest'[w]
    BY <2>2, <2>4, <1>2 DEF PadInv, LatestUnderWay
  <2>6. ArmedFor(w0)' # {}
    BY <2>2
  <2>7. ASSUME NEW w \in Notes
        PROVE  /\ \A p \in ArmedFor(w)' :
                    (\A q \in ArmedFor(w)' : timers'[q].armed <= timers'[p].armed) =>
                      timers'[p].text = latest'[w]
               /\ ArmedFor(w)' = {} =>
                    \A i \in SavesFor(w)' : (\A j \in SavesFor(w)' : j <= i) =>
                      saves'[i].text = latest'[w]
               /\ ArmedFor(w)' = {} /\ SavesFor(w)' = {} => w \in refused' \/ kept'[w] = latest'[w]
    <3>1. CASE w = w0
      BY <3>1, <2>3, <2>6
    <3>2. CASE w # w0
      BY <3>2, <2>1, <2>2, <2>5, <1>2
    <3>3. QED
      BY <3>1, <3>2
  <2>8. QED
    BY <2>7 DEF LatestUnderWay
<1>11. TypedShown'
  BY <1>4, <1>5 DEF PadInv, TypedShown
<1>12. PeerNotAhead' /\ WrittenTexts'
  BY <1>2 DEF PadInv, PeerNotAhead, WrittenTexts
<1>13. QED
  BY <1>7, <1>8, <1>9, <1>10, <1>11, <1>12 DEF PadInv

\* A debounce fires.
LEMMA SaveKeeps == ASSUME PadInv, NEW p0 \in Pads, Save(p0) PROVE PadInv'
<1>w. PICK w0 \in Notes, text \in Texts : w0 = pad[p0].widget /\ text = timers[p0].text
  BY ArmedMade DEF Due, Save
<1>1. /\ PadTypeOK /\ Armed(p0) /\ w0 \in Notes /\ text \in Texts
      /\ \A q \in Pads : Armed(q) => timers[p0].armed <= timers[q].armed
  BY <1>w DEF Due, Save, PadInv
<1>2. /\ saves' = Append(saves, [widget |-> w0, text |-> text])
      /\ timers' = [timers EXCEPT ![p0] = NoTimer]
      /\ UNCHANGED <<file, cell, pad, made, loads, peer, edits, fails, others, typed, latest, kept,
                     refused, unread>>
  BY <1>w DEF Save, padBounds, padHistory
<1>3. \A p \in Pads : /\ Armed(p)' <=> p # p0 /\ Armed(p)
                      /\ p # p0 => timers'[p] = timers[p]
  BY <1>1, <1>2 DEF Armed, PadTypeOK
<1>4. PadTypeOK'
  <2>1. timers' \in [Pads -> [armed : 1..MaxEdits, text : Texts] \cup {NoTimer}]
    BY <1>1, <1>2 DEF PadTypeOK
  <2>2. saves' \in Seq([widget : Notes, text : Texts])
    BY <1>1, <1>2 DEF PadTypeOK
  <2>3. QED
    BY <2>1, <2>2, <1>1, <1>2 DEF PadTypeOK
<1>5. PadsMade'
  BY <1>2, <1>3 DEF PadInv, PadsMade, Showing
<1>6. ArmedApart'
  <2>1. timers'[p0].armed = 0 /\ edits \in Nat
    BY <1>1, <1>2 DEF NoTimer, PadTypeOK
  <2>2. \A p \in Pads : timers'[p].armed <= edits'
    BY <2>1, <1>2, <1>3 DEF PadInv, ArmedApart
  <2>3. ASSUME NEW p \in Pads, NEW q \in Pads, Armed(p)', timers'[p].armed = timers'[q].armed
        PROVE  p = q
    <3>1. timers[p].armed \in 1..MaxEdits /\ p # p0 /\ Armed(p)
      BY <2>3, <1>3, ArmedMade
    <3>2. q # p0
      BY <3>1, <2>1, <2>3, <1>3
    <3>3. QED
      BY <3>1, <3>2, <2>3, <1>3 DEF PadInv, ArmedApart
  <2>4. QED
    BY <2>2, <2>3 DEF ArmedApart
<1>7. LatestUnderWay'
  <2>1. \A w \in Notes \ {w0} : SavesFor(w)' = SavesFor(w) /\ ArmedFor(w)' = ArmedFor(w)
    <3>1. \A w \in Notes \ {w0} : SavesFor(w)' = SavesFor(w)
      BY <1>1, <1>2 DEF SavesFor, PadTypeOK
    <3>2. \A w \in Notes \ {w0} : ArmedFor(w)' = ArmedFor(w)
      BY <1>w, <1>2, <1>3 DEF ArmedFor
    <3>3. QED
      BY <3>1, <3>2
  <2>2. ArmedFor(w0)' = ArmedFor(w0) \ {p0} /\ p0 \in ArmedFor(w0)
    BY <1>w, <1>1, <1>2, <1>3 DEF ArmedFor
  <2>3. Len(saves) + 1 \in SavesFor(w0)' /\ saves'[Len(saves) + 1].text = text
    BY <1>1, <1>2 DEF SavesFor, PadTypeOK
  <2>4. ASSUME NEW p \in ArmedFor(w0)', \A q \in ArmedFor(w0)' : timers'[q].armed <= timers'[p].armed
        PROVE  timers'[p].text = latest'[w0]
    <3>1. p \in ArmedFor(w0) /\ p # p0 /\ timers'[p] = timers[p]
      BY <2>2, <1>3 DEF ArmedFor
    <3>2. \A q \in ArmedFor(w0) : timers[q].armed <= timers[p].armed
      BY <3>1, <2>2, <2>4, <1>1, <1>3 DEF ArmedFor
    <3>3. QED
      BY <3>1, <3>2, <1>1, <1>2 DEF PadInv, LatestUnderWay
  <2>5. ASSUME ArmedFor(w0)' = {}, NEW i \in SavesFor(w0)', \A j \in SavesFor(w0)' : j <= i
        PROVE  saves'[i].text = latest'[w0]
    <3>1. text = latest[w0]
      <4>1. \A q \in ArmedFor(w0) : timers[q].armed <= timers[p0].armed
        <5>1. \A q \in ArmedFor(w0) : q = p0
          BY <2>2, <2>5
        <5>2. timers[p0].armed \in 1..MaxEdits
          BY <1>1, ArmedMade
        <5>3. QED
          BY <5>1, <5>2
      <4>2. QED
        BY <4>1, <2>2, <1>1, <1>w DEF PadInv, LatestUnderWay
    <3>2. i = Len(saves) + 1
      <4>1. Len(saves) + 1 <= i
        BY <2>3, <2>5
      <4>2. i \in 1..(Len(saves) + 1) /\ Len(saves) \in Nat
        BY <1>1, <1>2 DEF SavesFor, PadTypeOK
      <4>3. QED
        BY <4>1, <4>2
    <3>3. QED
      BY <3>1, <3>2, <2>3, <1>2
  <2>6. \A w \in Notes \ {w0} : /\ \A i \in SavesFor(w) : saves'[i] = saves[i]
                                /\ \A p \in ArmedFor(w) : timers'[p] = timers[p]
    BY <2>2, <1>1, <1>2, <1>3 DEF SavesFor, ArmedFor, PadTypeOK
  <2>7. QED
    <3>1. ASSUME NEW w \in Notes \ {w0}
          PROVE  /\ \A p \in ArmedFor(w)' :
                      (\A q \in ArmedFor(w)' : timers'[q].armed <= timers'[p].armed) =>
                        timers'[p].text = latest'[w]
                 /\ ArmedFor(w)' = {} =>
                      \A i \in SavesFor(w)' : (\A j \in SavesFor(w)' : j <= i) =>
                        saves'[i].text = latest'[w]
                 /\ ArmedFor(w)' = {} /\ SavesFor(w)' = {} => w \in refused' \/ kept'[w] = latest'[w]
      <4>1. /\ \A p \in ArmedFor(w) :
                 (\A q \in ArmedFor(w) : timers[q].armed <= timers[p].armed) =>
                   timers[p].text = latest[w]
            /\ ArmedFor(w) = {} =>
                 \A i \in SavesFor(w) : (\A j \in SavesFor(w) : j <= i) =>
                   saves[i].text = latest[w]
            /\ ArmedFor(w) = {} /\ SavesFor(w) = {} => w \in refused \/ kept[w] = latest[w]
        BY DEF PadInv, LatestUnderWay
      <4>2. SavesFor(w)' = SavesFor(w) /\ ArmedFor(w)' = ArmedFor(w)
        BY <2>1
      <4>3. ASSUME NEW p \in ArmedFor(w), \A q \in ArmedFor(w) : timers'[q].armed <= timers'[p].armed
            PROVE  timers'[p].text = latest'[w]
        BY <4>1, <4>3, <2>6, <1>2
      <4>4. ASSUME ArmedFor(w) = {}, NEW i \in SavesFor(w), \A j \in SavesFor(w) : j <= i
            PROVE  saves'[i].text = latest'[w]
        BY <4>1, <4>4, <2>6, <1>2
      <4>5. ArmedFor(w) = {} /\ SavesFor(w) = {} => w \in refused' \/ kept'[w] = latest'[w]
        BY <4>1, <1>2
      <4>6. QED
        BY <4>2, <4>3, <4>4, <4>5
    <3>2. SavesFor(w0)' # {}
      BY <2>3
    <3>3. QED
      BY <3>1, <3>2, <2>4, <2>5 DEF LatestUnderWay
<1>8. TypedShown' /\ WrittenTexts' /\ PeerNotAhead'
  BY <1>2 DEF PadInv, TypedShown, WrittenTexts, PeerNotAhead
<1>9. QED
  BY <1>4, <1>5, <1>6, <1>7, <1>8 DEF PadInv

\* The store takes the next save, or refuses it: what was under way for its widget and is
\* done was the last, or more is to come.
LEMMA TakenKeeps ==
    ASSUME PadInv, saves # << >>, saves' = Tail(saves), UNCHANGED <<timers, pad, latest>>,
           NEW h \in Notes, NEW text \in Texts, h = Head(saves).widget, text = Head(saves).text,
           \/ kept' = [kept EXCEPT ![h] = text] /\ refused' = refused \ {h}
           \/ UNCHANGED kept /\ refused' = refused \cup {h}
    PROVE  LatestUnderWay'
<1>1. PadTypeOK /\ saves \in Seq([widget : Notes, text : Texts])
  BY DEF PadInv, PadTypeOK
<1>2. /\ Len(saves) \in Nat /\ Len(saves) >= 1 /\ Len(saves') = Len(saves) - 1
      /\ \A i \in 1..Len(saves') : saves'[i] = saves[i + 1]
      /\ DOMAIN saves' = 1..Len(saves') /\ DOMAIN saves = 1..Len(saves)
      /\ saves[1].widget = h /\ saves[1].text = text
  BY <1>1
<1>3. \A w \in Notes : \A i \in 1..Len(saves') : i \in SavesFor(w)' <=> i + 1 \in SavesFor(w)
  BY <1>2 DEF SavesFor
<1>4. \A w \in Notes : ArmedFor(w)' = ArmedFor(w)
  BY DEF ArmedFor, Armed
<1> SUFFICES ASSUME NEW w \in Notes
             PROVE  /\ \A p \in ArmedFor(w)' :
                         (\A q \in ArmedFor(w)' : timers'[q].armed <= timers'[p].armed) =>
                           timers'[p].text = latest'[w]
                    /\ ArmedFor(w)' = {} =>
                         \A i \in SavesFor(w)' : (\A j \in SavesFor(w)' : j <= i) =>
                           saves'[i].text = latest'[w]
                    /\ ArmedFor(w)' = {} /\ SavesFor(w)' = {} =>
                         w \in refused' \/ kept'[w] = latest'[w]
  BY DEF LatestUnderWay
<1>5. /\ \A p \in ArmedFor(w) :
           (\A q \in ArmedFor(w) : timers[q].armed <= timers[p].armed) => timers[p].text = latest[w]
      /\ ArmedFor(w) = {} =>
           \A i \in SavesFor(w) : (\A j \in SavesFor(w) : j <= i) => saves[i].text = latest[w]
      /\ ArmedFor(w) = {} /\ SavesFor(w) = {} => w \in refused \/ kept[w] = latest[w]
  BY DEF PadInv, LatestUnderWay
<1>6. SavesFor(w) \subseteq 1..Len(saves) /\ SavesFor(w)' \subseteq 1..Len(saves')
  BY <1>2 DEF SavesFor
<1>7. ASSUME ArmedFor(w) = {}, NEW i \in SavesFor(w)', \A j \in SavesFor(w)' : j <= i
      PROVE  saves'[i].text = latest[w]
  <2>1. i \in 1..Len(saves') /\ i + 1 \in SavesFor(w)
    BY <1>3, <1>6
  <2>2. ASSUME NEW j \in SavesFor(w) PROVE j <= i + 1
    <3>1. CASE j = 1
      BY <3>1, <2>1, <1>2
    <3>2. CASE j # 1
      <4>1. j - 1 \in 1..Len(saves') /\ (j - 1) + 1 = j
        BY <3>2, <1>2, <1>6
      <4>2. j - 1 \in SavesFor(w)'
        BY <4>1, <1>3
      <4>3. j - 1 <= i
        BY <4>2, <1>7
      <4>4. QED
        BY <4>1, <4>3, <2>1, <1>2
    <3>3. QED
      BY <3>1, <3>2
  <2>3. saves[i + 1].text = latest[w]
    BY <2>1, <2>2, <1>5, <1>7
  <2>4. QED
    BY <2>1, <2>3, <1>2
<1>8. ASSUME ArmedFor(w) = {}, SavesFor(w)' = {} PROVE w \in refused' \/ kept'[w] = latest[w]
  <2>1. \A j \in SavesFor(w) : j = 1
    <3> SUFFICES ASSUME NEW j \in SavesFor(w), j # 1 PROVE FALSE
      OBVIOUS
    <3>1. j - 1 \in 1..Len(saves') /\ (j - 1) + 1 = j
      BY <1>2, <1>6
    <3>2. j - 1 \in SavesFor(w)'
      BY <3>1, <1>3
    <3>3. QED
      BY <3>2, <1>8
  <2>2. CASE w = h
    <3>1. 1 \in SavesFor(w)
      BY <2>2, <1>2 DEF SavesFor
    <3>2. text = latest[w]
      BY <3>1, <2>1, <1>2, <1>5, <1>8
    <3>3. QED
      BY <2>2, <3>2, <1>1 DEF PadTypeOK
  <2>3. CASE w # h
    <3>1. SavesFor(w) = {}
      BY <2>1, <2>3, <1>2 DEF SavesFor
    <3>2. QED
      BY <3>1, <2>3, <1>1, <1>5, <1>8 DEF PadTypeOK
  <2>4. QED
    BY <2>2, <2>3
<1>9. QED
  BY <1>4, <1>5, <1>7, <1>8

LEMMA HeadOf == ASSUME NEW S, NEW q \in Seq(S), q # << >> PROVE Head(q) \in S
  OBVIOUS

\* The next save: its widget and its text.
LEMMA NextSave ==
    ASSUME PadInv, saves # << >>
    PROVE  Head(saves).widget \in Notes /\ Head(saves).text \in Texts
<1>1. saves \in Seq([widget : Notes, text : Texts])
  BY DEF PadInv, PadTypeOK
<1>2. Head(saves) \in [widget : Notes, text : Texts]
  BY <1>1, HeadOf
<1>3. QED
  BY <1>2

\* WriteState and WriteAnew: the record of the next save is written, with a higher version
\* unless it could not be read.
LEMMA WriteKeeps ==
    ASSUME PadInv, saves # << >>,
           NEW h \in Notes, NEW text \in Texts, h = Head(saves).widget, text = Head(saves).text,
           NEW rec \in Records, file' = [file EXCEPT ![h] = rec], rec.text = text,
           \/ rec.version = file[h].version + 1 /\ UNCHANGED <<unread, fails>>
           \/ /\ unread' = unread \cup {h}
              /\ fails < MaxFails /\ fails' = fails + 1,
           kept' = [kept EXCEPT ![h] = text],
           refused' = refused \ {h},
           saves' = Tail(saves),
           UNCHANGED <<cell, pad, made, timers, loads, peer, edits, others, typed, latest>>
    PROVE  PadInv'
<1>1. PadTypeOK /\ fails \in 0..MaxFails /\ MaxFails \in Nat
  BY PadAssumption DEF PadInv, PadTypeOK
<1>2. PadTypeOK'
  <2>1. file' \in [Notes -> Records] /\ kept' \in [Notes -> Texts \cup {NoText}]
    BY <1>1 DEF PadTypeOK
  <2>2. saves' \in Seq([widget : Notes, text : Texts])
    BY <1>1 DEF PadTypeOK
  <2>3. fails' \in 0..MaxFails
    BY <1>1
  <2>4. refused' \subseteq Notes /\ unread' \subseteq Notes
    BY <1>1 DEF PadTypeOK
  <2>5. QED
    BY <2>1, <2>2, <2>3, <2>4, <1>1 DEF PadTypeOK
<1>3. PadsMade' /\ ArmedApart' /\ TypedShown'
  BY DEF PadInv, PadsMade, ArmedApart, TypedShown, Armed, Showing
<1>4. LatestUnderWay'
  BY TakenKeeps
<1>5. PeerNotAhead'
  <2> SUFFICES ASSUME NEW w \in Notes \ unread'
               PROVE  /\ peer[w].version <= file'[w].version
                      /\ peer[w].version = file'[w].version => peer[w].text = file'[w].text
    BY DEF PeerNotAhead
  <2>1. w \notin unread /\ peer[w].version <= file[w].version
        /\ (peer[w].version = file[w].version => peer[w].text = file[w].text)
    BY DEF PadInv, PeerNotAhead
  <2>2. CASE w = h
    <3>1. file'[w] = rec /\ rec.version = file[w].version + 1
      BY <2>2, <1>1 DEF PadTypeOK
    <3>2. file[w].version \in Nat /\ peer[w].version \in Nat
      BY <1>1 DEF PadTypeOK, Records
    <3>3. QED
      BY <3>1, <3>2, <2>1
  <2>3. CASE w # h
    BY <2>1, <2>3, <1>1 DEF PadTypeOK
  <2>4. QED
    BY <2>2, <2>3
<1>6. WrittenTexts'
  <2>1. file'[h] = rec /\ \A w \in Notes \ {h} : file'[w] = file[w]
    BY <1>1 DEF PadTypeOK
  <2>2. QED
    BY <2>1 DEF PadInv, WrittenTexts
<1>7. QED
  BY <1>2, <1>3, <1>4, <1>5, <1>6 DEF PadInv

LEMMA PadNextInv == ASSUME PadInv, [PadNext]_padVars PROVE PadInv'
<1>t. /\ PadTypeOK /\ made \in Nat /\ made <= MaxPads /\ MaxPads \in Nat
      /\ \A p \in Pads : Armed(p) => p \in 1..made
      /\ \A p \in 1..made : pad[p].widget \in Notes /\ p \in Pads
  BY PadAssumption DEF PadInv, PadTypeOK, PadsMade, Pads
<1> DEFINE Pad == [widget : Notes \cup {NoPad}, text : Texts \cup {Seed},
                   persisted : BOOLEAN, dirty : BOOLEAN]
<1>p. pad \in [Pads -> Pad]
  BY <1>t DEF PadTypeOK
<1>1. ASSUME NEW w \in Notes, MakePad(w) PROVE PadInv'
  <2>1. PICK n \in Pads : n = made + 1 /\ n \notin 1..made /\ 1..n = (1..made) \cup {n}
    <3>1. made + 1 \in Pads
      BY <1>1, <1>t DEF MakePad, Pads
    <3>2. made + 1 \notin 1..made /\ 1..(made + 1) = (1..made) \cup {made + 1}
      BY <1>t
    <3>3. QED
      BY <3>1, <3>2
  <2> DEFINE new == [widget |-> w, text |-> Seed, persisted |-> FALSE, dirty |-> FALSE]
  <2>2. /\ cell' = [pad |-> n, widget |-> w]
        /\ pad' = [pad EXCEPT ![n] = new]
        /\ loads' = loads \cup {n} /\ made' = n
        /\ UNCHANGED <<file, timers, saves, peer, edits, fails, others, typed, latest, kept, refused,
                       unread>>
    BY <1>1, <2>1 DEF MakePad, padBounds, padHistory
  <2>3. new \in Pad /\ new.widget = w /\ new.dirty = FALSE
    OBVIOUS
  <2>4. pad' \in [Pads -> Pad] /\ pad'[n] = new /\ \A p \in Pads \ {n} : pad'[p] = pad[p]
    BY <1>p, <2>1, <2>2, <2>3
  <2>5. PadTypeOK'
    <3>1. made' \in 0..MaxPads /\ loads' \subseteq 1..made'
      BY <1>t, <2>1, <2>2 DEF PadTypeOK, Pads
    <3>2. cell' \in [pad : Pads \cup {NoPad}, widget : Notes \cup {NoPad}]
      BY <2>1, <2>2
    <3>3. QED
      BY <1>t, <2>2, <2>4, <3>1, <3>2 DEF PadTypeOK
  <2>6. \A p \in 1..made' : pad'[p].widget \in Notes
    BY <1>t, <2>1, <2>2, <2>3, <2>4
  <2>7. \A p \in 1..made : pad'[p].widget = pad[p].widget
    BY <1>t, <2>1, <2>4
  <2>8. \A p \in Pads : pad'[p].dirty => pad[p].dirty /\ pad'[p].text = pad[p].text
    BY <2>3, <2>4
  <2>9. cell'.pad \in 1..made'
    BY <1>t, <2>1, <2>2
  <2>10. QED
    BY <2>1, <2>2, <2>5, <2>6, <2>7, <2>8, <2>9, QuietPadKeeps
<1>2. ASSUME NEW w \in Notes, Rerender(w) PROVE PadInv'
  <2>1. PICK p0 \in Pads : p0 = cell.pad /\ p0 \in 1..made
    BY <1>2, ShownPad DEF Rerender
  <2>2. /\ cell' = [cell EXCEPT !.widget = w]
        /\ pad' = IF pad[p0].persisted \/ pad[p0].dirty THEN pad
                  ELSE [pad EXCEPT ![p0].text = Seed]
        /\ UNCHANGED <<file, made, timers, saves, loads, peer, edits, fails, others, typed, latest,
                       kept, refused, unread>>
    BY <1>2, <2>1 DEF Rerender, padBounds, padHistory
  <2>3. [pad[p0] EXCEPT !.text = Seed] \in Pad
    <3>1. pad[p0] \in Pad
      BY <1>p, <2>1
    <3>2. QED
      BY <3>1
  <2>4. /\ pad' \in [Pads -> Pad]
        /\ \A p \in Pads : pad'[p].widget = pad[p].widget
        /\ \A p \in Pads : pad'[p].dirty => pad[p].dirty /\ pad'[p].text = pad[p].text
    <3>1. CASE pad[p0].persisted \/ pad[p0].dirty
      BY <3>1, <1>p, <2>2
    <3>2. CASE ~ (pad[p0].persisted \/ pad[p0].dirty)
      <4>1. pad' = [pad EXCEPT ![p0] = [pad[p0] EXCEPT !.text = Seed]]
        BY <3>2, <2>1, <2>2, <1>p
      <4>2. \A p \in Pads \ {p0} : pad'[p] = pad[p]
        BY <4>1, <1>p
      <4>3. pad'[p0] = [pad[p0] EXCEPT !.text = Seed]
        BY <4>1, <1>p, <2>1
      <4>4. pad'[p0].widget = pad[p0].widget /\ pad'[p0].dirty = pad[p0].dirty
        BY <4>3, <1>p, <2>1
      <4>5. pad' \in [Pads -> Pad]
        BY <4>1, <1>p, <2>3
      <4>6. QED
        BY <4>2, <4>4, <4>5, <3>2
    <3>3. QED
      BY <3>1, <3>2
  <2>5. cell' \in [pad : Pads \cup {NoPad}, widget : Notes \cup {NoPad}] /\ cell'.pad = p0
    BY <1>t, <2>1, <2>2 DEF PadTypeOK
  <2>6. PadTypeOK'
    BY <1>t, <2>2, <2>4, <2>5 DEF PadTypeOK
  <2>7. QED
    BY <1>t, <2>1, <2>2, <2>4, <2>5, <2>6, QuietPadKeeps
<1>3. ASSUME NEW w \in Notes, PeerReads(w) PROVE PadInv'
  <2>1. /\ peer' = [peer EXCEPT ![w] = file[w]]
        /\ UNCHANGED <<file, cell, pad, made, timers, saves, loads, edits, fails, others, typed,
                       latest, kept, refused, unread>>
    BY <1>3 DEF PeerReads, padBounds, padHistory
  <2>2. PadTypeOK'
    BY <1>t, <2>1 DEF PadTypeOK
  <2>3. Showing' => cell'.pad \in 1..made'
    BY <2>1 DEF PadInv, PadsMade, Showing
  <2>4. QED
    BY <1>t, <2>1, <2>2, <2>3, QuietPadKeeps
<1>4. CASE DropPad
  <2>1. /\ cell' = [pad |-> NoPad, widget |-> NoPad]
        /\ UNCHANGED <<file, pad, made, timers, saves, loads, peer, edits, fails, others, typed,
                       latest, kept, refused, unread>>
    BY <1>4 DEF DropPad, padBounds, padHistory
  <2>2. PadTypeOK'
    BY <1>t, <2>1 DEF PadTypeOK
  <2>3. ~ Showing'
    BY <2>1 DEF Showing
  <2>4. QED
    BY <1>t, <2>1, <2>2, <2>3, QuietPadKeeps
<1>5. ASSUME NEW text \in Texts, Type(text) PROVE PadInv'
  BY <1>5, TypeKeeps
<1>6. ASSUME NEW text \in Texts, NEW w \in Notes, PeerWrites(w, text) PROVE PadInv'
  <2>1. /\ others < MaxOthers /\ others' = others + 1
        /\ file' = Written(w, text)
        /\ peer' = [peer EXCEPT ![w] = file'[w]]
        /\ UNCHANGED <<cell, pad, made, timers, saves, loads, edits, fails, typed, latest, kept,
                       refused, unread>>
    BY <1>6 DEF PeerWrites, padHistory
  <2>2. file' \in [Notes -> Records]
    BY <1>t, <2>1 DEF PadTypeOK, Written, Records
  <2>3. peer' \in [Notes -> Records] /\ others' \in 0..MaxOthers
    <3>1. file'[w] \in Records /\ peer \in [Notes -> Records]
      BY <1>t, <2>2 DEF PadTypeOK
    <3>2. others \in 0..MaxOthers /\ MaxOthers \in Nat
      BY <1>t, PadAssumption DEF PadTypeOK
    <3>3. QED
      BY <3>1, <3>2, <2>1
  <2>4. PadTypeOK'
    BY <1>t, <2>1, <2>2, <2>3 DEF PadTypeOK
  <2>5. Showing' => cell'.pad \in 1..made'
    BY <2>1 DEF PadInv, PadsMade, Showing
  <2>6. QED
    BY <1>t, <2>1, <2>4, <2>5, QuietPadKeeps
<1>7. CASE WriteState
  <2>1. PICK h \in Notes, text \in Texts : h = Head(saves).widget /\ text = Head(saves).text
    BY <1>7, NextSave DEF WriteState
  <2>2. [version |-> file[h].version + 1, text |-> text] \in Records
    BY <1>t DEF PadTypeOK, Records
  <2>3. file' = [file EXCEPT ![h] = [version |-> file[h].version + 1, text |-> text]]
    BY <1>7, <1>t, <2>1 DEF WriteState, Written, PadTypeOK
  <2>4. /\ saves # << >> /\ kept' = [kept EXCEPT ![h] = text] /\ refused' = refused \ {h}
        /\ saves' = Tail(saves)
        /\ UNCHANGED <<cell, pad, made, timers, loads, peer, edits, fails, others, typed, latest,
                       unread>>
    BY <1>7, <2>1 DEF WriteState, padBounds
  <2>5. QED
    BY <2>1, <2>2, <2>3, <2>4, WriteKeeps
<1>8. CASE WriteAnew
  <2>1. PICK h \in Notes, text \in Texts : h = Head(saves).widget /\ text = Head(saves).text
    BY <1>8, NextSave DEF WriteAnew
  <2>2. [version |-> 1, text |-> text] \in Records
    BY DEF Records
  <2>3. /\ file' = [file EXCEPT ![h] = [version |-> 1, text |-> text]]
        /\ unread' = unread \cup {h} /\ fails < MaxFails /\ fails' = fails + 1
        /\ saves # << >> /\ kept' = [kept EXCEPT ![h] = text] /\ refused' = refused \ {h}
        /\ saves' = Tail(saves)
        /\ UNCHANGED <<cell, pad, made, timers, loads, peer, edits, others, typed, latest>>
    BY <1>8, <2>1 DEF WriteAnew
  <2>4. QED
    BY <2>1, <2>2, <2>3, WriteKeeps
<1>9. CASE WriteRefused
  <2>1. PICK h \in Notes, text \in Texts : h = Head(saves).widget /\ text = Head(saves).text
    BY <1>9, NextSave DEF WriteRefused
  <2>2. /\ saves # << >> /\ saves' = Tail(saves) /\ refused' = refused \cup {h}
        /\ fails < MaxFails /\ fails' = fails + 1
        /\ UNCHANGED <<file, cell, pad, made, timers, loads, peer, edits, others, typed, latest,
                       kept, unread>>
    BY <1>9, <2>1 DEF WriteRefused
  <2>3. PadTypeOK'
    <3>1. saves' \in Seq([widget : Notes, text : Texts]) /\ fails' \in 0..MaxFails
      BY <1>t, <2>2, PadAssumption DEF PadTypeOK
    <3>2. QED
      BY <1>t, <2>2, <3>1 DEF PadTypeOK
  <2>4. PadsMade' /\ ArmedApart' /\ TypedShown' /\ WrittenTexts' /\ PeerNotAhead'
    BY <2>2 DEF PadInv, PadsMade, ArmedApart, TypedShown, WrittenTexts, PeerNotAhead, Armed, Showing
  <2>5. LatestUnderWay'
    BY <2>1, <2>2, TakenKeeps
  <2>6. QED
    BY <2>3, <2>4, <2>5 DEF PadInv
<1>10. ASSUME NEW p0 \in Pads, Save(p0) PROVE PadInv'
  BY <1>10, SaveKeeps
<1>11. ASSUME NEW p0 \in Pads, Hydrate(p0) \/ HydrateFails(p0) PROVE PadInv'
  <2>1. /\ loads' \subseteq loads
        /\ UNCHANGED <<file, cell, made, timers, saves, peer, edits, fails, others, typed, latest,
                       kept, refused, unread>>
    BY <1>11 DEF Hydrate, HydrateFails, padBounds, padHistory
  <2>2. \/ pad' = pad
        \/ /\ ~ pad[p0].dirty /\ file[pad[p0].widget].version > 0
           /\ pad' = [pad EXCEPT ![p0].persisted = TRUE, ![p0].text = file[pad[p0].widget].text]
    BY <1>11 DEF Hydrate, HydrateFails
  <2>3. /\ pad' \in [Pads -> Pad]
        /\ \A p \in Pads : pad'[p].widget = pad[p].widget
        /\ \A p \in Pads : pad'[p].dirty => pad[p].dirty /\ pad'[p].text = pad[p].text
    <3>1. CASE pad' = pad
      BY <3>1, <1>p
    <3>2. CASE pad' # pad
      <4>1. p0 \in loads
        BY <1>11, <3>2 DEF Hydrate, HydrateFails
      <4>2. pad[p0].widget \in Notes
        BY <4>1, <1>t DEF PadTypeOK
      <4>3. PICK text \in Texts : text = file[pad[p0].widget].text
        BY <4>2, <3>2, <2>2 DEF PadInv, WrittenTexts
      <4>4. [pad[p0] EXCEPT !.persisted = TRUE, !.text = text] \in Pad
        <5>1. pad[p0] \in Pad
          BY <1>p
        <5>2. QED
          BY <5>1
      <4>5. pad' = [pad EXCEPT ![p0] = [pad[p0] EXCEPT !.persisted = TRUE, !.text = text]]
        BY <4>3, <3>2, <2>2, <1>p
      <4>6. \A p \in Pads \ {p0} : pad'[p] = pad[p]
        BY <4>5, <1>p
      <4>7. pad'[p0] = [pad[p0] EXCEPT !.persisted = TRUE, !.text = text]
        BY <4>5, <1>p
      <4>8. pad'[p0].widget = pad[p0].widget /\ pad'[p0].dirty = pad[p0].dirty
        BY <4>7, <1>p
      <4>9. ~ pad[p0].dirty
        BY <3>2, <2>2
      <4>10. pad' \in [Pads -> Pad]
        BY <4>4, <4>5, <1>p
      <4>11. QED
        BY <4>6, <4>8, <4>9, <4>10
    <3>3. QED
      BY <3>1, <3>2
  <2>4. PadTypeOK'
    BY <1>t, <2>1, <2>3 DEF PadTypeOK
  <2>5. Showing' => cell'.pad \in 1..made'
    BY <2>1 DEF PadInv, PadsMade, Showing
  <2>6. \A p \in 1..made' : pad'[p].widget \in Notes
    BY <1>t, <2>1, <2>3
  <2>7. QED
    BY <1>t, <2>1, <2>3, <2>4, <2>5, <2>6, QuietPadKeeps
<1>12. CASE UNCHANGED padVars
  <2>1. UNCHANGED <<file, cell, pad, made, timers, saves, loads, peer, edits, fails, others, typed,
                    latest, kept, refused, unread>>
    BY <1>12 DEF padVars, padBounds, padHistory
  <2>2. PadTypeOK'
    BY <1>t, <2>1 DEF PadTypeOK
  <2>3. Showing' => cell'.pad \in 1..made'
    BY <2>1 DEF PadInv, PadsMade, Showing
  <2>4. QED
    BY <1>t, <2>1, <2>2, <2>3, QuietPadKeeps
<1>13. QED
  BY <1>1, <1>2, <1>3, <1>4, <1>5, <1>6, <1>7, <1>8, <1>9, <1>10, <1>11, <1>12 DEF PadNext

\* Every reachable state of the pads satisfies their invariant.
THEOREM PadsInvariant == PadSpec => []PadInv
  BY PadInitInv, PadNextInv, PTL DEF PadSpec

\* No edit of a notes pad is lost or replaced by a late load, and no conditional write of
\* another client covers a text it has not read (notes.ts, writeWidgetState).
THEOREM EditsKeptHolds == PadSpec => []EditsKept
  BY PadsInvariant, PadInvKeeps, PTL

-----------------------------------------------------------------------------
(***************************************************************************)
(* The bridges of custom widgets                                           *)
(*                                                                         *)
(* BridgeHonest is not inductive: that a window never overflows follows    *)
(* from what the page remembers of it being what really happened in it     *)
(* (WindowsTrue), and from every open dialog having a place in the budget  *)
(* before it is confirmed (PromptsCounted).                                *)
(***************************************************************************)
Askers == Bridges \cup {Form(k) : k \in Forms}

\* Who asks is a bridge of the page or a form; only what waits for data has a timer.
JobsFit ==
  \A r \in Requests :
    /\ job[r].at # "idle" => job[r].by \in Askers
    /\ job[r].timer => job[r].at = "resolving" /\ job[r].by \in Bridges

FramesFit == \A f \in Frames : Mounted(f) => Bridge(f) \in Bridges

\* The stamps of a window: finitely many, none of the future, numbered at each time.
Counted(stamps) ==
  /\ stamps \subseteq Stamps /\ IsFiniteSet(stamps)
  /\ \A s \in stamps : s.at <= now /\ s.nth < Cardinality({u \in stamps : u.at = s.at})

\* What the page remembers of a window is what happened in it.
WindowsTrue ==
  /\ \A n \in Names : Counted(shouts[n]) /\ Recent(pubs[n]) = Recent(shouts[n])
  /\ \A k \in Keys : Counted(sends[k]) /\ Recent(rate[k].stamps) = Recent(sends[k])

Asking(k) == {r \in Requests : job[r].at = "asking" /\ Key(job[r].by) = k}

\* A dialog that is open has a place in the budget, but for one per freed lock.
PromptsCounted ==
  \A k \in Keys :
    Cardinality(Recent(sends[k])) + Cardinality(Asking(k)) <= PromptMax + freed[k]

BridgeInv ==
  /\ TypeOK
  /\ JobsFit
  /\ FramesFit
  /\ AnsweredOnce
  /\ NothingDangles
  /\ WindowsTrue
  /\ PromptsCounted
  /\ BudgetsHold

LEMMA BridgeInvHonest == BridgeInv => BridgeHonest
  BY DEF BridgeInv, BridgeHonest

-----------------------------------------------------------------------------
(* Rolling windows.                                                        *)

LEMMA RecentTwice == ASSUME NEW S PROVE Recent(Recent(S)) = Recent(S)
  BY DEF Recent

\* The stamp of a call at this time.
Fresh(S) == [at |-> now, nth |-> Cardinality({s \in S : s.at = now})]

LEMMA ClockMoves == TypeOK => now \in Nat /\ now > now - Window /\ Window \in Nat /\ now <= MaxTime
  BY BridgeAssumption DEF TypeOK

LEMMA RecentStamped ==
    ASSUME TypeOK, NEW A
    PROVE  Recent(Stamped(A)) = Recent(A) \cup {Fresh(A)} /\ Stamped(A) = A \cup {Fresh(A)}
<1>1. Fresh(A).at = now /\ now > now - Window
  BY ClockMoves DEF Fresh
<1>2. Stamped(A) = A \cup {Fresh(A)}
  BY DEF Stamped, Fresh
<1>3. QED
  BY <1>1, <1>2 DEF Recent

\* Two windows with the same recent calls number the next one alike.
LEMMA FreshAlike ==
    ASSUME TypeOK, NEW A, NEW B, Recent(A) = Recent(B)
    PROVE  Fresh(A) = Fresh(B)
<1>1. {s \in A : s.at = now} = {s \in B : s.at = now}
  BY ClockMoves DEF Recent
<1>2. QED
  BY <1>1 DEF Fresh

LEMMA StampFields == \A s \in Stamps : s.at \in Int /\ s.nth \in Nat
  BY BridgeAssumption DEF Stamps

\* A stamp more is one call more.
LEMMA StampedCounted ==
    ASSUME TypeOK, NEW S, Counted(S)
    PROVE  /\ Counted(Stamped(S))
           /\ Fresh(S) \in Stamps /\ Fresh(S) \notin S /\ Fresh(S).at = now
           /\ IsFiniteSet(Recent(S))
           /\ Cardinality(Recent(Stamped(S))) = Cardinality(Recent(S)) + 1
<1> DEFINE At(t) == {u \in S : u.at = t}
           new == Fresh(S)
<1>1. IsFiniteSet(S) /\ S \subseteq Stamps /\ now \in 0..MaxTime
  BY DEF Counted, TypeOK
<1>2. IsFiniteSet(At(now)) /\ Cardinality(At(now)) \in Nat
  <2>1. At(now) \in SUBSET S
    OBVIOUS
  <2>2. QED
    BY <2>1, <1>1, FS_Subset, FS_CardinalityType
<1>c. PICK c \in Nat : c = Cardinality(At(now))
  BY <1>2
<1>3. new = [at |-> now, nth |-> c]
  BY <1>c DEF Fresh
<1>4. new \in Stamps /\ new.at = now /\ new.nth = c
  BY <1>1, <1>3 DEF Stamps
<1>5. new \notin S
  <2> SUFFICES ASSUME new \in S PROVE FALSE
    OBVIOUS
  <2>1. new.nth < Cardinality({u \in S : u.at = new.at})
    BY DEF Counted
  <2>2. new.nth < c
    BY <2>1, <1>4, <1>c
  <2>3. QED
    BY <2>2, <1>4
<1>6. Stamped(S) = S \cup {new}
  BY RecentStamped
<1>7. Counted(Stamped(S))
  <2>1. Stamped(S) \subseteq Stamps /\ IsFiniteSet(Stamped(S))
    BY <1>1, <1>4, <1>6, FS_AddElement
  <2>2. ASSUME NEW s \in Stamped(S)
        PROVE  s.at <= now /\ s.nth < Cardinality({u \in Stamped(S) : u.at = s.at})
    <3>1. CASE s.at # now
      <4>1. {u \in Stamped(S) : u.at = s.at} = {u \in S : u.at = s.at}
        BY <3>1, <1>4, <1>6
      <4>2. s \in S
        BY <3>1, <1>4, <1>6
      <4>3. QED
        BY <4>1, <4>2 DEF Counted
    <3>2. CASE s.at = now
      <4>1. {u \in Stamped(S) : u.at = s.at} = At(now) \cup {new} /\ new \notin At(now)
        BY <3>2, <1>4, <1>5, <1>6
      <4>2. Cardinality({u \in Stamped(S) : u.at = s.at}) = c + 1
        <5>1. Cardinality(At(now) \cup {new}) = Cardinality(At(now)) + 1
          <6> HIDE DEF At, new
          <6>1. QED
            BY <4>1, <1>2, FS_AddElement
        <5>2. QED
          BY <4>1, <5>1, <1>c
      <4>3. s.nth <= c /\ s.nth \in Nat
        <5>1. CASE s = new
          BY <5>1, <1>4
        <5>2. CASE s # new
          <6>1. s \in S
            BY <5>2, <1>6
          <6>2. s.nth < Cardinality({u \in S : u.at = s.at})
            BY <6>1 DEF Counted
          <6>3. s.nth < c
            BY <6>2, <3>2, <1>c
          <6>4. s.nth \in Nat
            BY <6>1, <1>1, StampFields
          <6>5. QED
            BY <6>3, <6>4
        <5>3. QED
          BY <5>1, <5>2
      <4>4. QED
        BY <4>2, <4>3, <3>2, <1>1
    <3>3. QED
      BY <3>1, <3>2
  <2>3. QED
    BY <2>1, <2>2 DEF Counted
<1>8. Recent(S) \in SUBSET S
  BY DEF Recent
<1>9. IsFiniteSet(Recent(S))
  BY <1>1, <1>8, FS_Subset
<1>10. Cardinality(Recent(S) \cup {new}) = Cardinality(Recent(S)) + 1
  BY <1>5, <1>8, <1>9, FS_AddElement
<1>11. QED
  BY <1>4, <1>5, <1>7, <1>9, <1>10, RecentStamped

\* The window that ends now is the recent one, and the earlier ones do not change any more.
LEMMA WithinNow ==
    ASSUME TypeOK, NEW S, Counted(S)
    PROVE  Within(S, now) = Recent(S)
  BY DEF Counted, Within, Recent

LEMMA WithinFinite ==
    ASSUME NEW S, IsFiniteSet(S), NEW t
    PROVE  IsFiniteSet(Within(S, t)) /\ Cardinality(Within(S, t)) \in Nat
<1>1. Within(S, t) \in SUBSET S
  BY DEF Within
<1>2. QED
  BY <1>1, FS_Subset, FS_CardinalityType

LEMMA StampedBudget ==
    ASSUME TypeOK, NEW S, Counted(S), NEW b \in Nat,
           \A t \in 0..now : Cardinality(Within(S, t)) <= b,
           Cardinality(Recent(S)) + 1 <= b
    PROVE  \A t \in 0..now : Cardinality(Within(Stamped(S), t)) <= b
<1> SUFFICES ASSUME NEW t \in 0..now PROVE Cardinality(Within(Stamped(S), t)) <= b
  OBVIOUS
<1>1. CASE t = now
  BY <1>1, StampedCounted, WithinNow
<1>2. CASE t # now
  <2>1. ~ (now <= t)
    BY <1>2, ClockMoves
  <2>2. Within(Stamped(S), t) = Within(S, t)
    BY <2>1, StampedCounted, RecentStamped DEF Within
  <2>3. QED
    BY <2>2
<1>3. QED
  BY <1>1, <1>2

LEMMA TickWindow ==
    ASSUME TypeOK, NEW S, Counted(S), now' = now + 1, NEW b \in Nat,
           \A t \in 0..now : Cardinality(Within(S, t)) <= b
    PROVE  /\ Counted(S)'
           /\ Recent(S)' \subseteq Recent(S) /\ Cardinality(Recent(S)') <= Cardinality(Recent(S))
           /\ \A t \in 0..now' : Cardinality(Within(S, t)) <= b
<1>1. now \in Nat /\ Window \in Nat /\ IsFiniteSet(S)
  BY ClockMoves DEF Counted
<1>2. \A s \in S : s.at \in Int /\ s.at <= now
  BY StampFields DEF Counted
<1>3. Counted(S)'
  BY <1>1, <1>2 DEF Counted
<1>4. Recent(S)' \subseteq Recent(S)
  BY <1>1, <1>2 DEF Recent
<1>5. IsFiniteSet(Recent(S)) /\ Cardinality(Recent(S)') <= Cardinality(Recent(S))
  BY <1>4, StampedCounted, FS_Subset
<1>6. ASSUME NEW t \in 0..now' PROVE Cardinality(Within(S, t)) <= b
  <2>1. CASE t \in 0..now
    BY <2>1
  <2>2. CASE t = now + 1
    <3>1. Within(S, t) \in SUBSET Within(S, now) /\ now \in 0..now
      BY <1>1, <1>2, <2>2 DEF Within
    <3>2. Cardinality(Within(S, t)) <= Cardinality(Within(S, now))
      BY <3>1, <1>1, WithinFinite, FS_Subset
    <3>3. Cardinality(Within(S, now)) <= b
      BY <3>1
    <3>4. Cardinality(Within(S, t)) \in Nat /\ Cardinality(Within(S, now)) \in Nat
      BY <1>1, WithinFinite
    <3>5. QED
      BY <3>2, <3>3, <3>4
  <2>3. QED
    BY <2>1, <2>2, <1>1
<1>7. QED
  BY <1>3, <1>4, <1>5, <1>6

-----------------------------------------------------------------------------
(* Requests.                                                               *)

Job == [by : Bridges \cup {Form(k) : k \in Forms} \cup {Nobody},
        kind : {"none", "theme", "data", "state", "prompt"}, at : Steps,
        timer : BOOLEAN, told : Seq(Answers)]

\* What a request may become: asked by somebody, answered once at most, its timer that of a
\* living bridge without an answer yet.
Sound(j) ==
  /\ j.at # "idle" => j.by \in Askers
  /\ Len(j.told) <= 1
  /\ j.timer => /\ j.at = "resolving" /\ j.by \in Bridges
                /\ ~ Disposed(j.by) /\ j.told = << >>

LEMMA JobTyped == TypeOK => job \in [Requests -> Job]
  BY DEF TypeOK, Job

LEMMA KeyOfAsker == ASSUME NEW who \in Askers PROVE Key(who) \in Keys /\ who # Nobody
<1>1. CASE who \in Bridges
  BY <1>1, BridgeAssumption DEF Bridges, Key, Keys, Names, Nobody
<1>2. CASE who \in {Form(k) : k \in Forms}
  BY <1>2, BridgeAssumption DEF Form, Key, Keys, Nobody
<1>3. QED
  BY <1>1, <1>2 DEF Askers

LEMMA JobStep ==
    ASSUME BridgeInv, NEW r \in Requests, NEW j \in Job, Sound(j),
           job' = [job EXCEPT ![r] = j], UNCHANGED frame
    PROVE  job' \in [Requests -> Job] /\ JobsFit' /\ AnsweredOnce'
<1>1. job \in [Requests -> Job] /\ JobsFit /\ AnsweredOnce
  BY JobTyped DEF BridgeInv
<1>2. job' \in [Requests -> Job] /\ job'[r] = j /\ \A q \in Requests \ {r} : job'[q] = job[q]
  BY <1>1
<1>3. \A b : Disposed(b)' <=> Disposed(b)
  BY DEF Disposed, Mounted
<1>4. JobsFit'
  BY <1>1, <1>2 DEF JobsFit, Sound
<1>5. AnsweredOnce'
  BY <1>1, <1>2, <1>3 DEF AnsweredOnce, Sound
<1>6. QED
  BY <1>2, <1>4, <1>5

\* A handler's answer, given to a request that was made.
LEMMA SayIs ==
    ASSUME BridgeInv, NEW r \in Requests, job[r].at # "idle",
           NEW at \in Steps, NEW what \in Answers
    PROVE  \E j \in Job : /\ Say(r, at, what) = [job EXCEPT ![r] = j]
                          /\ Sound(j) /\ j.by = job[r].by /\ j.at = at
<1>1. job \in [Requests -> Job] /\ JobsFit /\ AnsweredOnce
  BY JobTyped DEF BridgeInv
<1>2. PICK old \in Job : old = job[r]
  BY <1>1
<1>3. /\ Len(old.told) <= 1 /\ old.told \in Seq(Answers) /\ Len(old.told) \in Nat
      /\ old.by \in Askers
  BY <1>1, <1>2 DEF AnsweredOnce, JobsFit, Job
<1> DEFINE told == IF old.told # << >> \/ Disposed(old.by) THEN old.told
                   ELSE Append(old.told, what)
           j == [old EXCEPT !.at = at, !.timer = FALSE, !.told = told]
<1>4. told \in Seq(Answers) /\ Len(told) <= 1
  <2>1. CASE old.told # << >> \/ Disposed(old.by)
    BY <2>1, <1>3
  <2>2. CASE ~ (old.told # << >> \/ Disposed(old.by))
    <3>1. old.told = << >> /\ told = Append(old.told, what)
      BY <2>2
    <3>2. told = Append(<< >>, what)
      BY <3>1
    <3>3. Append(<< >>, what) \in Seq(Answers) /\ Len(Append(<< >>, what)) = 1
      OBVIOUS
    <3> HIDE DEF told
    <3>4. QED
      BY <3>2, <3>3
  <2>3. QED
    BY <2>1, <2>2
<1>5. j \in Job
  <2> HIDE DEF told
  <2>1. QED
    BY <1>4 DEF Job
<1>6. j.by = old.by /\ j.at = at /\ j.timer = FALSE /\ j.told = told
  <2> HIDE DEF told
  <2>1. QED
    BY DEF Job
<1>7. Say(r, at, what) = [job EXCEPT ![r] = j]
  BY <1>1, <1>2 DEF Say, Job
<1>8. Sound(j)
  BY <1>3, <1>4, <1>6 DEF Sound
<1>9. QED
  BY <1>2, <1>5, <1>6, <1>7, <1>8

\* What is answered before anything was awaited.
LEMMA RefuseIs ==
    ASSUME NEW r \in Requests, NEW who \in Askers,
           NEW kind \in {"none", "theme", "data", "state", "prompt"}, NEW what \in Answers
    PROVE  \E j \in Job : /\ Refuse(r, who, kind, what) = [job EXCEPT ![r] = j]
                          /\ Sound(j) /\ j.by = who /\ j.at = "over"
<1> DEFINE j == [by |-> who, kind |-> kind, at |-> "over", timer |-> FALSE, told |-> <<what>>]
<1>1. j \in Job
  BY DEF Job, Askers, Steps
<1>2. Sound(j)
  BY DEF Sound
<1>3. Refuse(r, who, kind, what) = [job EXCEPT ![r] = j]
  BY DEF Refuse
<1>4. QED
  BY <1>1, <1>2, <1>3

\* What is awaited: a request as it is made of an idle one.
LEMMA IdleJob == Idle \in Job /\ Idle.at = "idle" /\ Idle.timer = FALSE /\ Idle.told = << >>
  BY DEF Idle, Job, Steps

LEMMA WaitIs ==
    ASSUME NEW who \in Askers, NEW kind \in {"data", "state", "prompt"},
           NEW at \in {"resolving", "asking"}
    PROVE  LET j == [Idle EXCEPT !.by = who, !.kind = kind, !.at = at]
           IN  j \in Job /\ Sound(j) /\ j.by = who /\ j.at = at
<1> DEFINE j == [Idle EXCEPT !.by = who, !.kind = kind, !.at = at]
<1>1. j \in Job
  BY IdleJob DEF Job, Askers, Steps
<1>2. j.by = who /\ j.at = at /\ j.timer = FALSE /\ j.told = << >>
  BY IdleJob DEF Job
<1>3. Sound(j)
  <2> HIDE DEF j
  <2>1. QED
    BY <1>2 DEF Sound
<1>4. QED
  BY <1>1, <1>2, <1>3

LEMMA WaitTimedIs ==
    ASSUME NEW who \in Bridges, ~ Disposed(who), NEW kind \in {"data", "state", "prompt"}
    PROVE  LET j == [Idle EXCEPT !.by = who, !.kind = kind, !.at = "resolving",
                                 !.timer = TRUE]
           IN  j \in Job /\ Sound(j) /\ j.by = who /\ j.at = "resolving"
<1> DEFINE j == [Idle EXCEPT !.by = who, !.kind = kind, !.at = "resolving", !.timer = TRUE]
<1>1. j \in Job
  BY IdleJob DEF Job, Steps
<1>2. j.by = who /\ j.at = "resolving" /\ j.timer = TRUE /\ j.told = << >>
  BY IdleJob DEF Job
<1>3. Sound(j)
  <2> HIDE DEF j
  <2>1. QED
    BY <1>2 DEF Sound, Askers
<1>4. QED
  BY <1>1, <1>2, <1>3

-----------------------------------------------------------------------------
(* The budgets of the prompts.                                             *)

Waits(j, k) == j.at \in {"asking", "sending"} /\ Key(j.by) = k
Asks(j, k) == j.at = "asking" /\ Key(j.by) = k

LEMMA OpenSizes ==
    ASSUME NEW k
    PROVE  /\ IsFiniteSet(Open(k)) /\ Cardinality(Open(k)) \in Nat
           /\ IsFiniteSet(Asking(k)) /\ Cardinality(Asking(k)) \in Nat
           /\ Cardinality(Asking(k)) <= Cardinality(Open(k))
<1>1. Open(k) \in SUBSET Requests /\ Asking(k) \in SUBSET Open(k)
  BY DEF Open, Asking
<1>2. IsFiniteSet(Open(k))
  BY <1>1, BridgeAssumption, FS_Subset
<1>3. QED
  BY <1>1, <1>2, FS_Subset, FS_CardinalityType

\* One request changes, so the open ones of a key change by it at most.
LEMMA OpenAfter ==
    ASSUME TypeOK, NEW r \in Requests, NEW j, job' = [job EXCEPT ![r] = j], NEW k
    PROVE  /\ Cardinality(Open(k)') =
                Cardinality(Open(k)) + (IF Waits(j, k) THEN 1 ELSE 0)
                                     - (IF Waits(job[r], k) THEN 1 ELSE 0)
           /\ Cardinality(Asking(k)') =
                Cardinality(Asking(k)) + (IF Asks(j, k) THEN 1 ELSE 0)
                                       - (IF Asks(job[r], k) THEN 1 ELSE 0)
<1>1. job'[r] = j /\ \A q \in Requests \ {r} : job'[q] = job[q]
  BY JobTyped
<1>2. /\ Open(k)' \ {r} = Open(k) \ {r}
      /\ r \in Open(k) <=> Waits(job[r], k)
      /\ r \in Open(k)' <=> Waits(j, k)
  <2>1. \A q : q \in Open(k) <=> q \in Requests /\ Waits(job[q], k)
    BY DEF Open, Waits
  <2>2. \A q : q \in Open(k)' <=> q \in Requests /\ Waits(job'[q], k)
    BY DEF Open, Waits, Key
  <2>3. QED
    BY <2>1, <2>2, <1>1
<1>3. /\ Asking(k)' \ {r} = Asking(k) \ {r}
      /\ r \in Asking(k) <=> Asks(job[r], k)
      /\ r \in Asking(k)' <=> Asks(j, k)
  <2>1. \A q : q \in Asking(k) <=> q \in Requests /\ Asks(job[q], k)
    BY DEF Asking, Asks
  <2>2. \A q : q \in Asking(k)' <=> q \in Requests /\ Asks(job'[q], k)
    BY DEF Asking, Asks, Key
  <2>3. QED
    BY <2>1, <2>2, <1>1
<1>4. /\ IsFiniteSet(Open(k)) /\ Cardinality(Open(k)) \in Nat
      /\ IsFiniteSet(Asking(k)) /\ Cardinality(Asking(k)) \in Nat
  BY OpenSizes
<1>5. /\ IsFiniteSet(Open(k)') /\ Cardinality(Open(k)') \in Nat
      /\ IsFiniteSet(Asking(k)') /\ Cardinality(Asking(k)') \in Nat
  <2>1. Open(k)' \in SUBSET Requests /\ Asking(k)' \in SUBSET Requests
    BY DEF Open, Asking
  <2>2. QED
    BY <2>1, BridgeAssumption, FS_Subset, FS_CardinalityType
<1>6. Cardinality(Open(k) \ {r}) = Cardinality(Open(k)) - (IF Waits(job[r], k) THEN 1 ELSE 0)
  <2>1. Cardinality(Open(k) \ {r}) = IF r \in Open(k) THEN Cardinality(Open(k)) - 1 ELSE Cardinality(Open(k))
    BY <1>4, FS_RemoveElement
  <2>2. QED
    BY <2>1, <1>2, <1>4
<1>7. Cardinality(Open(k)' \ {r}) = Cardinality(Open(k)') - (IF Waits(j, k) THEN 1 ELSE 0)
  <2>1. Cardinality(Open(k)' \ {r}) = IF r \in Open(k)' THEN Cardinality(Open(k)') - 1 ELSE Cardinality(Open(k)')
    BY <1>5, FS_RemoveElement
  <2>2. QED
    BY <2>1, <1>2, <1>5
<1>8. Cardinality(Asking(k) \ {r}) = Cardinality(Asking(k)) - (IF Asks(job[r], k) THEN 1 ELSE 0)
  <2>1. Cardinality(Asking(k) \ {r}) = IF r \in Asking(k) THEN Cardinality(Asking(k)) - 1 ELSE Cardinality(Asking(k))
    BY <1>4, FS_RemoveElement
  <2>2. QED
    BY <2>1, <1>3, <1>4
<1>9. Cardinality(Asking(k)' \ {r}) = Cardinality(Asking(k)') - (IF Asks(j, k) THEN 1 ELSE 0)
  <2>1. Cardinality(Asking(k)' \ {r}) = IF r \in Asking(k)' THEN Cardinality(Asking(k)') - 1 ELSE Cardinality(Asking(k)')
    BY <1>5, FS_RemoveElement
  <2>2. QED
    BY <2>1, <1>3, <1>5
<1>10. Cardinality(Open(k)') - (IF Waits(j, k) THEN 1 ELSE 0)
         = Cardinality(Open(k)) - (IF Waits(job[r], k) THEN 1 ELSE 0)
  BY <1>2, <1>6, <1>7
<1>11. Cardinality(Asking(k)') - (IF Asks(j, k) THEN 1 ELSE 0)
         = Cardinality(Asking(k)) - (IF Asks(job[r], k) THEN 1 ELSE 0)
  BY <1>3, <1>8, <1>9
<1>12. QED
  BY <1>4, <1>5, <1>10, <1>11

\* What a key's budget is about, in numbers.
LEMMA BudgetOf ==
    ASSUME BridgeInv, NEW k \in Keys
    PROVE  /\ freed[k] \in Nat
           /\ Counted(sends[k]) /\ Recent(rate[k].stamps) = Recent(sends[k])
           /\ Cardinality(Recent(sends[k])) \in Nat
           /\ Cardinality(Recent(sends[k])) + Cardinality(Asking(k)) <= PromptMax + freed[k]
           /\ Cardinality(Open(k)) <= freed[k] + (IF rate[k].inFlight THEN 1 ELSE 0)
           /\ \A t \in 0..now : Cardinality(Within(sends[k], t)) <= PromptMax + freed[k]
<1>1. Counted(sends[k]) /\ Recent(rate[k].stamps) = Recent(sends[k])
  BY DEF BridgeInv, WindowsTrue
<1>2. Recent(sends[k]) \in SUBSET sends[k] /\ IsFiniteSet(sends[k])
  BY <1>1 DEF Recent, Counted
<1>3. QED
  BY <1>1, <1>2, FS_Subset, FS_CardinalityType DEF BridgeInv, TypeOK, PromptsCounted, BudgetsHold

\* The rest of what a handler of a request leaves alone.
LEMMA RestKept ==
    ASSUME BridgeInv, job' \in [Requests -> Job], JobsFit', AnsweredOnce',
           UNCHANGED <<granted, now, frame, bus, shouts, freed>>,
           rate' \in [Keys -> [stamps : SUBSET Stamps, inFlight : BOOLEAN]],
           sends' \in [Keys -> SUBSET Stamps],
           \A k \in Keys : Counted(sends'[k]) /\ Recent(rate'[k].stamps) = Recent(sends'[k]),
           \A k \in Keys :
             /\ Cardinality(Recent(sends'[k])) + Cardinality(Asking(k)') <= PromptMax + freed[k]
             /\ Cardinality(Open(k)') <= freed[k] + (IF rate'[k].inFlight THEN 1 ELSE 0)
             /\ \A t \in 0..now : Cardinality(Within(sends'[k], t)) <= PromptMax + freed[k]
    PROVE  BridgeInv'
<1>1. UNCHANGED <<granted, now, frame, subs, pubs, heard, shouts, freed>>
  BY DEF bus
<1>2. TypeOK'
  <2>1. job' \in [Requests -> [by : Bridges \cup {Form(k) : k \in Forms} \cup {Nobody},
                             kind : {"none", "theme", "data", "state", "prompt"}, at : Steps,
                             timer : BOOLEAN, told : Seq(Answers)]]
    BY DEF Job
  <2>2. QED
    BY <1>1, <2>1 DEF BridgeInv, TypeOK
<1>3. FramesFit'
  BY <1>1 DEF BridgeInv, FramesFit, Mounted, Bridge
<1>4. NothingDangles'
  BY <1>1 DEF BridgeInv, NothingDangles, Mounted, Bridge
<1>5. WindowsTrue'
  <2>1. \A n \in Names : Counted(shouts[n])' /\ Recent(pubs[n])' = Recent(shouts[n])'
    <3>1. \A n \in Names : Counted(shouts[n]) /\ Recent(pubs[n]) = Recent(shouts[n])
      BY DEF BridgeInv, WindowsTrue
    <3>2. QED
      BY SMTT(40), <1>1, <3>1 DEF Counted, Recent
  <2>2. \A k \in Keys : Counted(sends'[k]) /\ Recent(rate'[k].stamps) = Recent(sends'[k])
    OBVIOUS
  <2>3. \A k \in Keys : Counted(sends[k])' /\ Recent(rate[k].stamps)' = Recent(sends[k])'
    BY <1>1, <2>2 DEF Counted, Recent
  <2>4. QED
    BY <2>1, <2>3 DEF WindowsTrue
<1>6. PromptsCounted'
  BY <1>1 DEF PromptsCounted, Recent
<1>7. BudgetsHold'
  <2>1. \A n \in Names, t \in 0..now' : Cardinality(Within(shouts'[n], t)) <= PublishMax
    BY <1>1 DEF BridgeInv, BudgetsHold
  <2>2. QED
    BY <1>1, <2>1 DEF BudgetsHold
<1>8. QED
  BY <1>2, <1>3, <1>4, <1>5, <1>6, <1>7 DEF BridgeInv

\* A request that asks nobody, or waits for data: the budgets are not touched.
LEMMA QuietRequest ==
    ASSUME BridgeInv, NEW r \in Requests, NEW j \in Job, Sound(j),
           job' = [job EXCEPT ![r] = j],
           j.at \notin {"asking", "sending"}, job[r].at \notin {"asking", "sending"},
           UNCHANGED <<granted, now, frame, rate, bus, history>>
    PROVE  BridgeInv'
<1>1. UNCHANGED <<granted, now, frame, rate, bus, sends, shouts, freed>>
  BY DEF history
<1>2. job' \in [Requests -> Job] /\ JobsFit' /\ AnsweredOnce'
  BY <1>1, JobStep
<1>3. ASSUME NEW k \in Keys
      PROVE  Cardinality(Open(k)') = Cardinality(Open(k))
             /\ Cardinality(Asking(k)') = Cardinality(Asking(k))
  <2>1. ~ Waits(j, k) /\ ~ Waits(job[r], k) /\ ~ Asks(j, k) /\ ~ Asks(job[r], k)
    BY DEF Waits, Asks
  <2>2. TypeOK
    BY DEF BridgeInv
  <2>3. /\ Cardinality(Open(k)') = Cardinality(Open(k)) + 0 - 0
        /\ Cardinality(Asking(k)') = Cardinality(Asking(k)) + 0 - 0
    BY <2>1, <2>2, OpenAfter
  <2>4. QED
    BY <2>3, OpenSizes
<1>4. /\ rate \in [Keys -> [stamps : SUBSET Stamps, inFlight : BOOLEAN]]
      /\ sends \in [Keys -> SUBSET Stamps]
  BY DEF BridgeInv, TypeOK
<1>5. \A k \in Keys :
        /\ Counted(sends'[k]) /\ Recent(rate'[k].stamps) = Recent(sends'[k])
        /\ Cardinality(Recent(sends'[k])) + Cardinality(Asking(k)') <= PromptMax + freed[k]
        /\ Cardinality(Open(k)') <= freed[k] + (IF rate'[k].inFlight THEN 1 ELSE 0)
        /\ \A t \in 0..now : Cardinality(Within(sends'[k], t)) <= PromptMax + freed[k]
  BY <1>1, <1>3, BudgetOf
<1>6. QED
  BY <1>1, <1>2, <1>4, <1>5, RestKept

\* What a child asks that is no prompt, or is refused as one.
LEMMA GetThemeKeeps ==
    ASSUME BridgeInv, NEW f \in Frames, NEW r \in Requests,
           GetTheme(f, r) \/ SendPromptDenied(f, r) \/ UseState(f, r)
             \/ \E allowed \in BOOLEAN : GetData(f, r, allowed)
    PROVE  BridgeInv'
<1>1. /\ Mounted(f) /\ job[r] = Idle /\ UNCHANGED <<granted, now, frame, rate, bus, history>>
      /\ job[r].at \notin {"asking", "sending"}
  <2>1. Mounted(f) /\ job[r] = Idle /\ UNCHANGED <<granted, now, frame, rate, bus, history>>
    <3>1. CASE GetTheme(f, r)
      BY <3>1 DEF GetTheme
    <3>2. CASE SendPromptDenied(f, r)
      BY <3>2 DEF SendPromptDenied
    <3>3. CASE UseState(f, r)
      BY <3>3 DEF UseState
    <3>4. CASE \E allowed \in BOOLEAN : GetData(f, r, allowed)
      BY <3>4 DEF GetData
    <3>5. QED
      BY <3>1, <3>2, <3>3, <3>4
  <2>2. QED
    BY <2>1, IdleJob
<1>2. Bridge(f) \in Askers /\ Bridge(f) \in Bridges /\ ~ Disposed(Bridge(f))
  BY <1>1 DEF BridgeInv, FramesFit, Askers, Disposed, Bridge
<1>3. CASE \E kind \in {"theme", "data", "state", "prompt"}, what \in Answers :
             job' = Refuse(r, Bridge(f), kind, what)
  <2>1. PICK kind \in {"theme", "data", "state", "prompt"}, what \in Answers :
          job' = Refuse(r, Bridge(f), kind, what)
    BY <1>3
  <2>2. PICK j \in Job : job' = [job EXCEPT ![r] = j] /\ Sound(j) /\ j.at = "over"
    BY <2>1, <1>2, RefuseIs
  <2>3. QED
    BY <1>1, <2>2, QuietRequest
<1>4. ASSUME NEW j \in Job, Sound(j), j.at = "resolving", job' = [job EXCEPT ![r] = j]
      PROVE  BridgeInv'
  BY <1>1, <1>4, QuietRequest
<1>5. CASE GetTheme(f, r) \/ SendPromptDenied(f, r)
  BY <1>3, <1>5 DEF GetTheme, SendPromptDenied, Answers
<1>6. CASE UseState(f, r)
  <2>1. CASE "state:persist" \in granted[Name[f]]
    <3> DEFINE j == [Idle EXCEPT !.by = Bridge(f), !.kind = "state", !.at = "resolving"]
    <3>1. job' = [job EXCEPT ![r] = j]
      BY <2>1, <1>6 DEF UseState
    <3>2. j \in Job /\ Sound(j) /\ j.at = "resolving"
      BY <1>2, WaitIs
    <3> HIDE DEF j
    <3>3. QED
      BY <3>1, <3>2, <1>4
  <2>2. CASE "state:persist" \notin granted[Name[f]]
    BY <2>2, <1>3, <1>6 DEF UseState, Answers
  <2>3. QED
    BY <2>1, <2>2
<1>7. ASSUME NEW allowed \in BOOLEAN, GetData(f, r, allowed) PROVE BridgeInv'
  <2>1. CASE allowed
    <3> DEFINE j == [Idle EXCEPT !.by = Bridge(f), !.kind = "data", !.at = "resolving",
                                 !.timer = TRUE]
    <3>1. job' = [job EXCEPT ![r] = j]
      BY <2>1, <1>7 DEF GetData
    <3>2. j \in Job /\ Sound(j) /\ j.at = "resolving"
      BY <1>2, WaitTimedIs
    <3> HIDE DEF j
    <3>3. QED
      BY <3>1, <3>2, <1>4
  <2>2. CASE ~ allowed
    BY <2>2, <1>3, <1>7 DEF GetData, Answers
  <2>3. QED
    BY <2>1, <2>2
<1>8. QED
  BY <1>5, <1>6, <1>7

\* The server's answer, and the timer.
LEMMA ResolveKeeps ==
    ASSUME BridgeInv, NEW r \in Requests,
           TimeOut(r) \/ \E what \in {"data", "state", "resolve_failed"} : Resolve(r, what)
    PROVE  BridgeInv'
<1>1. /\ job[r].at = "resolving"
      /\ UNCHANGED <<granted, now, frame, rate, bus, history>>
      /\ \E at \in {"over", "resolving"}, what \in Answers : job' = Say(r, at, what)
  BY DEF BridgeInv, JobsFit, TimeOut, Resolve, Answers
<1>2. PICK at \in {"over", "resolving"}, what \in Answers : job' = Say(r, at, what)
  BY <1>1
<1>3. PICK j \in Job : job' = [job EXCEPT ![r] = j] /\ Sound(j) /\ j.at = at
  BY <1>1, <1>2, SayIs DEF Steps
<1>4. QED
  BY <1>1, <1>3, QuietRequest

\* A prompt that goes one step on.
LEMMA AdvanceIs ==
    ASSUME BridgeInv, NEW r \in Requests, job[r].at \in {"asking", "sending"},
           NEW at \in {"sending", "over"}
    PROVE  \E j \in Job : /\ [job EXCEPT ![r].at = at] = [job EXCEPT ![r] = j]
                          /\ Sound(j) /\ j.by = job[r].by /\ j.at = at
<1>1. job \in [Requests -> Job] /\ JobsFit /\ AnsweredOnce
  BY JobTyped DEF BridgeInv
<1>2. PICK old \in Job : old = job[r]
  BY <1>1
<1>3. Len(old.told) <= 1 /\ old.by \in Askers /\ ~ old.timer
  BY <1>1, <1>2 DEF AnsweredOnce, JobsFit
<1> DEFINE j == [old EXCEPT !.at = at]
<1>4. j \in Job
  BY DEF Job, Steps
<1>5. j.by = old.by /\ j.at = at /\ j.timer = old.timer /\ j.told = old.told
  BY DEF Job
<1>6. Sound(j)
  <2> HIDE DEF j
  <2>1. QED
    BY <1>3, <1>5 DEF Sound
<1>7. [job EXCEPT ![r].at = at] = [job EXCEPT ![r] = j]
  BY <1>1, <1>2
<1>8. QED
  BY <1>2, <1>4, <1>5, <1>6, <1>7

\* A handler of a prompt touches the budget of one key: what it owes that key.
LEMMA PromptStep ==
    ASSUME BridgeInv, NEW r \in Requests, NEW j \in Job, Sound(j),
           job' = [job EXCEPT ![r] = j],
           UNCHANGED <<granted, now, frame, bus, shouts, freed>>,
           NEW k \in Keys, NEW window \in [stamps : SUBSET Stamps, inFlight : BOOLEAN],
           rate' = [rate EXCEPT ![k] = window],
           NEW sent \in SUBSET Stamps, sends' = [sends EXCEPT ![k] = sent],
           Counted(sent) /\ Recent(window.stamps) = Recent(sent),
           \A l \in Keys \ {k} :
             ~ Waits(j, l) /\ ~ Waits(job[r], l) /\ ~ Asks(j, l) /\ ~ Asks(job[r], l),
           Cardinality(Recent(sent)) + Cardinality(Asking(k)') <= PromptMax + freed[k],
           Cardinality(Open(k)') <= freed[k] + (IF window.inFlight THEN 1 ELSE 0),
           \A t \in 0..now : Cardinality(Within(sent, t)) <= PromptMax + freed[k]
    PROVE  BridgeInv'
<1>1. /\ rate \in [Keys -> [stamps : SUBSET Stamps, inFlight : BOOLEAN]]
      /\ sends \in [Keys -> SUBSET Stamps] /\ TypeOK
  BY DEF BridgeInv, TypeOK
<1>2. /\ rate' \in [Keys -> [stamps : SUBSET Stamps, inFlight : BOOLEAN]]
      /\ sends' \in [Keys -> SUBSET Stamps]
      /\ rate'[k] = window /\ sends'[k] = sent
      /\ \A l \in Keys \ {k} : rate'[l] = rate[l] /\ sends'[l] = sends[l]
  BY <1>1
<1>3. job' \in [Requests -> Job] /\ JobsFit' /\ AnsweredOnce'
  BY JobStep
<1>4. ASSUME NEW l \in Keys \ {k}
      PROVE  Cardinality(Open(l)') = Cardinality(Open(l))
             /\ Cardinality(Asking(l)') = Cardinality(Asking(l))
  <2>1. /\ Cardinality(Open(l)') = Cardinality(Open(l)) + 0 - 0
        /\ Cardinality(Asking(l)') = Cardinality(Asking(l)) + 0 - 0
    BY <1>1, OpenAfter
  <2>2. QED
    BY <2>1, OpenSizes
<1>5. ASSUME NEW l \in Keys
      PROVE  /\ Counted(sends'[l]) /\ Recent(rate'[l].stamps) = Recent(sends'[l])
             /\ Cardinality(Recent(sends'[l])) + Cardinality(Asking(l)') <= PromptMax + freed[l]
             /\ Cardinality(Open(l)') <= freed[l] + (IF rate'[l].inFlight THEN 1 ELSE 0)
             /\ \A t \in 0..now : Cardinality(Within(sends'[l], t)) <= PromptMax + freed[l]
  <2>1. CASE l = k
    BY <2>1, <1>2
  <2>2. CASE l # k
    BY <2>2, <1>2, <1>4, BudgetOf
  <2>3. QED
    BY <2>1, <2>2
<1>6. QED
  BY <1>2, <1>3, <1>5, RestKept

\* The gate drops the stamps that left the window, and refuses or takes the lock.
LEMMA GateKeeps ==
    ASSUME BridgeInv, NEW r \in Requests, NEW who \in Askers, Gate(r, who)
    PROVE  BridgeInv'
<1>1. PICK k \in Keys : k = Key(who)
  BY KeyOfAsker
<1> DEFINE window == [stamps |-> Recent(rate[k].stamps),
                      inFlight |-> rate[k].inFlight \/ ~ Limited(k)]
<1>2. /\ job[r] = Idle
      /\ rate' = [rate EXCEPT ![k] = window]
      /\ UNCHANGED <<granted, now, frame, bus, sends, shouts, freed>>
  BY <1>1 DEF Gate, history
<1>3. /\ rate \in [Keys -> [stamps : SUBSET Stamps, inFlight : BOOLEAN]]
      /\ sends \in [Keys -> SUBSET Stamps] /\ TypeOK
  BY DEF BridgeInv, TypeOK
<1>4. PICK lock \in BOOLEAN : lock = rate[k].inFlight
  BY <1>3
<1>5. window \in [stamps : SUBSET Stamps, inFlight : BOOLEAN]
  BY <1>3, <1>4 DEF Recent
<1>6. Recent(window.stamps) = Recent(sends[k])
  BY RecentTwice, BudgetOf
<1>7. sends' = [sends EXCEPT ![k] = sends[k]] /\ sends[k] \in SUBSET Stamps
  BY <1>2, <1>3
<1>8. \A l : ~ Waits(job[r], l) /\ ~ Asks(job[r], l)
  BY <1>2, IdleJob DEF Waits, Asks
<1> HIDE DEF window
<1>9. CASE Limited(k)
  <2>1. job' = Refuse(r, who, "prompt", "rate_limited")
    BY <1>1, <1>9 DEF Gate
  <2>2. PICK j \in Job : job' = [job EXCEPT ![r] = j] /\ Sound(j) /\ j.at = "over"
    BY <2>1, RefuseIs DEF Answers
  <2>3. \A l : ~ Waits(j, l) /\ ~ Asks(j, l)
    BY <2>2 DEF Waits, Asks
  <2>4. /\ Cardinality(Open(k)') = Cardinality(Open(k)) + 0 - 0
        /\ Cardinality(Asking(k)') = Cardinality(Asking(k)) + 0 - 0
    BY <2>2, <2>3, <1>3, <1>8, OpenAfter
  <2>5. Cardinality(Open(k)') = Cardinality(Open(k)) /\ Cardinality(Asking(k)') = Cardinality(Asking(k))
    BY <2>4, OpenSizes
  <2>6. window.inFlight = rate[k].inFlight
    BY <1>4, <1>9 DEF window
  <2>7. /\ \A l \in Keys \ {k} :
             ~ Waits(j, l) /\ ~ Waits(job[r], l) /\ ~ Asks(j, l) /\ ~ Asks(job[r], l)
        /\ Cardinality(Recent(sends[k])) + Cardinality(Asking(k)') <= PromptMax + freed[k]
        /\ Cardinality(Open(k)') <= freed[k] + (IF window.inFlight THEN 1 ELSE 0)
    BY <1>8, <2>3, <2>5, <2>6, BudgetOf
  <2>8. Counted(sends[k]) /\ \A t \in 0..now : Cardinality(Within(sends[k], t)) <= PromptMax + freed[k]
    BY BudgetOf
  <2>9. QED
    BY <1>2, <1>5, <1>6, <1>7, <2>2, <2>7, <2>8, PromptStep
<1>10. CASE ~ Limited(k)
  <2> DEFINE j == [Idle EXCEPT !.by = who, !.kind = "prompt", !.at = "asking"]
  <2>1. job' = [job EXCEPT ![r] = j]
    BY <1>1, <1>10 DEF Gate
  <2>2. j \in Job /\ Sound(j) /\ j.by = who /\ j.at = "asking"
    BY WaitIs
  <2> HIDE DEF j
  <2>4. \A l : (Waits(j, l) <=> l = k) /\ (Asks(j, l) <=> l = k)
    BY <1>1, <2>2 DEF Waits, Asks
  <2>5. /\ Cardinality(Open(k)') = Cardinality(Open(k)) + 1 - 0
        /\ Cardinality(Asking(k)') = Cardinality(Asking(k)) + 1 - 0
    BY <2>1, <2>4, <1>3, <1>8, OpenAfter
  <2>6. ~ rate[k].inFlight /\ ~ (Cardinality(Recent(sends[k])) >= PromptMax)
    BY <1>10, BudgetOf DEF Limited
  <2>7. window.inFlight
    BY <1>4, <1>10 DEF window
  <2>8. Cardinality(Open(k)) <= freed[k] /\ freed[k] \in Nat
    BY <2>6, BudgetOf
  <2>9. /\ Cardinality(Recent(sends[k])) + Cardinality(Asking(k)') <= PromptMax + freed[k]
        /\ Cardinality(Open(k)') <= freed[k] + 1
    BY <2>5, <2>6, <2>8, OpenSizes, BudgetOf, BridgeAssumption
  <2>10. /\ \A l \in Keys \ {k} :
              ~ Waits(j, l) /\ ~ Waits(job[r], l) /\ ~ Asks(j, l) /\ ~ Asks(job[r], l)
         /\ Cardinality(Open(k)') <= freed[k] + (IF window.inFlight THEN 1 ELSE 0)
    BY <1>8, <2>4, <2>7, <2>9
  <2>11. Counted(sends[k]) /\ \A t \in 0..now : Cardinality(Within(sends[k], t)) <= PromptMax + freed[k]
    BY BudgetOf
  <2>12. QED
    BY <1>2, <1>5, <1>6, <1>7, <2>1, <2>2, <2>9, <2>10, <2>11, PromptStep
<1>11. QED
  BY <1>9, <1>10

\* A declined dialog and an answered dispatch free the lock, a confirmed dialog is stamped.
LEMMA DeclineKeeps ==
    ASSUME BridgeInv, NEW r \in Requests,
           Decline(r) \/ \E ok \in BOOLEAN : Sent(r, ok)
    PROVE  BridgeInv'
<1>1. /\ job[r].at \in {"asking", "sending"}
      /\ rate' = Unlocked(Key(job[r].by))
      /\ UNCHANGED <<granted, now, frame, bus, sends, shouts, freed>>
  BY DEF Decline, Sent, history
<1>2. \E j \in Job : job' = [job EXCEPT ![r] = j] /\ Sound(j) /\ j.by = job[r].by /\ j.at = "over"
  <2>1. job[r].at # "idle"
    BY <1>1
  <2>2. CASE \E what \in Answers : job' = Say(r, "over", what)
    BY <2>1, <2>2, SayIs DEF Steps
  <2>3. CASE job' = [job EXCEPT ![r].at = "over"]
    BY <1>1, <2>3, AdvanceIs
  <2>4. CASE Decline(r)
    BY <2>2, <2>4 DEF Decline, Answers
  <2>5. ASSUME NEW ok \in BOOLEAN, Sent(r, ok)
        PROVE  \/ job' = [job EXCEPT ![r].at = "over"]
               \/ job' = Say(r, "over", "resolve_failed")
    BY <2>5 DEF Sent
  <2>6. "resolve_failed" \in Answers
    BY DEF Answers
  <2>7. QED
    BY <2>2, <2>3, <2>4, <2>5, <2>6
<1>3. PICK j \in Job :
         job' = [job EXCEPT ![r] = j] /\ Sound(j) /\ j.by = job[r].by /\ j.at = "over"
  BY <1>2
<1>4. job[r].by \in Askers
  BY <1>1 DEF BridgeInv, JobsFit
<1>5. PICK k \in Keys : k = Key(job[r].by)
  BY <1>4, KeyOfAsker
<1>6. /\ rate \in [Keys -> [stamps : SUBSET Stamps, inFlight : BOOLEAN]]
      /\ sends \in [Keys -> SUBSET Stamps] /\ TypeOK
  BY DEF BridgeInv, TypeOK
<1> DEFINE window == [rate[k] EXCEPT !.inFlight = FALSE]
<1>7. /\ rate' = [rate EXCEPT ![k] = window]
      /\ window \in [stamps : SUBSET Stamps, inFlight : BOOLEAN]
      /\ window.stamps = rate[k].stamps /\ window.inFlight = FALSE
  <2>1. rate[k] \in [stamps : SUBSET Stamps, inFlight : BOOLEAN]
    BY <1>6
  <2>2. rate' = [rate EXCEPT ![k] = window]
    BY <1>1, <1>5, <1>6 DEF Unlocked
  <2>3. QED
    BY <2>1, <2>2
<1> HIDE DEF window
<1>8. sends' = [sends EXCEPT ![k] = sends[k]] /\ sends[k] \in SUBSET Stamps
  BY <1>1, <1>6
<1>9. /\ \A l : ~ Waits(j, l) /\ ~ Asks(j, l)
      /\ \A l \in Keys \ {k} : ~ Waits(job[r], l) /\ ~ Asks(job[r], l)
      /\ Waits(job[r], k)
  BY <1>1, <1>3, <1>5 DEF Waits, Asks
<1>10. /\ Cardinality(Open(k)') = Cardinality(Open(k)) + 0 - 1
       /\ Cardinality(Asking(k)') <= Cardinality(Asking(k)) /\ Cardinality(Asking(k)') \in Int
  <2>1. Cardinality(Open(k)') = Cardinality(Open(k)) + 0 - 1
    BY <1>3, <1>6, <1>9, OpenAfter
  <2>2. Cardinality(Asking(k)') =
          Cardinality(Asking(k)) + 0 - (IF Asks(job[r], k) THEN 1 ELSE 0)
    BY <1>3, <1>6, <1>9, OpenAfter
  <2>3. QED
    BY <2>1, <2>2, OpenSizes
<1>11. /\ freed[k] \in Nat /\ Cardinality(Recent(sends[k])) \in Nat
       /\ Cardinality(Open(k)) <= freed[k] + 1
  <2>1. Cardinality(Open(k)) <= freed[k] + (IF rate[k].inFlight THEN 1 ELSE 0)
    BY BudgetOf
  <2>2. QED
    BY <2>1, BudgetOf, OpenSizes
<1>12. Cardinality(Open(k)') <= freed[k] + (IF window.inFlight THEN 1 ELSE 0)
  BY <1>7, <1>10, <1>11, OpenSizes
<1>13. Cardinality(Recent(sends[k])) + Cardinality(Asking(k)') <= PromptMax + freed[k]
  <2>1. Cardinality(Recent(sends[k])) + Cardinality(Asking(k)) <= PromptMax + freed[k]
    BY BudgetOf
  <2>2. QED
    BY <1>10, <1>11, <2>1, OpenSizes, BridgeAssumption
<1>14. /\ Counted(sends[k]) /\ Recent(window.stamps) = Recent(sends[k])
       /\ \A t \in 0..now : Cardinality(Within(sends[k], t)) <= PromptMax + freed[k]
  BY <1>7, BudgetOf
<1>15. QED
  BY <1>1, <1>3, <1>7, <1>8, <1>9, <1>12, <1>13, <1>14, PromptStep

LEMMA ConfirmKeeps ==
    ASSUME BridgeInv, NEW r \in Requests, Confirm(r)
    PROVE  BridgeInv'
<1>1. /\ job[r].at = "asking"
      /\ rate' = [rate EXCEPT ![Key(job[r].by)].stamps = Stamped(@)]
      /\ sends' = [sends EXCEPT ![Key(job[r].by)] = Stamped(@)]
      /\ job' = [job EXCEPT ![r].at = "sending"]
      /\ UNCHANGED <<granted, now, frame, bus, shouts, freed>>
  BY DEF Confirm
<1>2. PICK j \in Job :
         job' = [job EXCEPT ![r] = j] /\ Sound(j) /\ j.by = job[r].by /\ j.at = "sending"
  BY <1>1, AdvanceIs
<1>3. job[r].by \in Askers
  BY <1>1 DEF BridgeInv, JobsFit
<1>4. PICK k \in Keys : k = Key(job[r].by)
  BY <1>3, KeyOfAsker
<1>5. /\ rate \in [Keys -> [stamps : SUBSET Stamps, inFlight : BOOLEAN]]
      /\ sends \in [Keys -> SUBSET Stamps] /\ TypeOK
  BY DEF BridgeInv, TypeOK
<1> DEFINE window == [rate[k] EXCEPT !.stamps = Stamped(rate[k].stamps)]
<1>6. Recent(rate[k].stamps) = Recent(sends[k]) /\ Counted(sends[k])
  BY BudgetOf
<1>7. Fresh(rate[k].stamps) = Fresh(sends[k]) /\ Fresh(sends[k]) \in Stamps
  BY <1>5, <1>6, FreshAlike, StampedCounted
<1>8. /\ rate[k] \in [stamps : SUBSET Stamps, inFlight : BOOLEAN]
      /\ Stamped(rate[k].stamps) \in SUBSET Stamps /\ Stamped(sends[k]) \in SUBSET Stamps
  BY <1>5, <1>7, RecentStamped
<1>9. /\ rate' = [rate EXCEPT ![k] = window]
      /\ window \in [stamps : SUBSET Stamps, inFlight : BOOLEAN]
      /\ window.stamps = Stamped(rate[k].stamps) /\ window.inFlight = rate[k].inFlight
      /\ sends' = [sends EXCEPT ![k] = Stamped(sends[k])]
  <2>1. rate' = [rate EXCEPT ![k] = window]
    BY <1>1, <1>4, <1>5
  <2>2. sends' = [sends EXCEPT ![k] = Stamped(sends[k])]
    BY <1>1, <1>4, <1>5
  <2>3. QED
    BY <1>8, <2>1, <2>2
<1> HIDE DEF window
<1>10. Counted(Stamped(sends[k])) /\ Recent(window.stamps) = Recent(Stamped(sends[k]))
  <2>1. Counted(Stamped(sends[k]))
    BY <1>5, <1>6, StampedCounted
  <2>2. Recent(Stamped(rate[k].stamps)) = Recent(rate[k].stamps) \cup {Fresh(rate[k].stamps)}
    BY <1>5, RecentStamped
  <2>3. Recent(Stamped(sends[k])) = Recent(sends[k]) \cup {Fresh(sends[k])}
    BY <1>5, RecentStamped
  <2>4. QED
    BY <1>6, <1>7, <1>9, <2>1, <2>2, <2>3
<1>11. /\ \A l \in Keys \ {k} :
            ~ Waits(j, l) /\ ~ Waits(job[r], l) /\ ~ Asks(j, l) /\ ~ Asks(job[r], l)
       /\ Waits(j, k) /\ Waits(job[r], k) /\ ~ Asks(j, k) /\ Asks(job[r], k)
  BY <1>1, <1>2, <1>4 DEF Waits, Asks
<1>12. /\ Cardinality(Open(k)') = Cardinality(Open(k)) + 1 - 1
       /\ Cardinality(Asking(k)') = Cardinality(Asking(k)) + 0 - 1
  BY <1>2, <1>5, <1>11, OpenAfter
<1>13. Cardinality(Open(k)') <= freed[k] + (IF window.inFlight THEN 1 ELSE 0)
  <2>1. Cardinality(Open(k)') = Cardinality(Open(k))
    BY <1>12, OpenSizes
  <2>2. QED
    BY <1>9, <2>1, BudgetOf
<1>14. Cardinality(Recent(Stamped(sends[k]))) = Cardinality(Recent(sends[k])) + 1
  BY <1>5, <1>6, StampedCounted
<1>15. PICK n \in Nat, a \in Nat, b \in Nat :
         n = Cardinality(Recent(sends[k])) /\ a = Cardinality(Asking(k)) /\ b = PromptMax + freed[k]
  BY BudgetOf, OpenSizes, BridgeAssumption
<1>16. n + a <= b
  BY <1>15, BudgetOf
<1>17. Cardinality(Recent(Stamped(sends[k]))) + Cardinality(Asking(k)') <= PromptMax + freed[k]
  BY <1>12, <1>14, <1>15, <1>16
<1>18. a >= 1
  <2>1. r \in Asking(k)
    BY <1>1, <1>4 DEF Asking
  <2>2. Asking(k) # {} /\ IsFiniteSet(Asking(k))
    BY <2>1, OpenSizes
  <2>3. Cardinality(Asking(k)) # 0
    BY <2>2, FS_EmptySet
  <2>4. QED
    BY <2>3, <1>15
<1>19. \A t \in 0..now : Cardinality(Within(Stamped(sends[k]), t)) <= PromptMax + freed[k]
  <2>1. \A t \in 0..now : Cardinality(Within(sends[k], t)) <= b
    BY <1>15, BudgetOf
  <2>2. Cardinality(Recent(sends[k])) + 1 <= b
    BY <1>15, <1>16, <1>18
  <2>3. \A t \in 0..now : Cardinality(Within(Stamped(sends[k]), t)) <= b
    BY <1>5, <1>6, <2>1, <2>2, StampedBudget
  <2>4. QED
    BY <1>15, <2>3
<1>20. QED
  BY ZenonT(60), <1>1, <1>2, <1>8, <1>9, <1>10, <1>11, <1>13, <1>17, <1>19, PromptStep

-----------------------------------------------------------------------------
(* The frames and the bus.                                                 *)

\* Who subscribed, channel by channel.
LEMMA DanglesNothing ==
    NothingDangles <=>
      /\ \A s : s \in subs <=> \E f \in Frames : /\ Mounted(f)
                               /\ \E c \in frame[f].channels :
                                    s = Subscription(frame[f].tab, c, Bridge(f))
      /\ \A f \in Frames : Mounted(f) => \A m \in heard[f] : m.tab = frame[f].tab
  BY DEF NothingDangles

\* What a handler that touches no request and no window leaves alone.
LEMMA BudgetsKept ==
    ASSUME BridgeInv, UNCHANGED <<now, rate, pubs, job, history>>
    PROVE  WindowsTrue' /\ PromptsCounted' /\ BudgetsHold'
<1>1. UNCHANGED <<now, rate, pubs, job, sends, shouts, freed>>
  BY DEF history
<1>2. WindowsTrue'
  BY <1>1 DEF BridgeInv, WindowsTrue, Counted, Recent
<1>3. \A k \in Keys : Open(k)' = Open(k) /\ Asking(k)' = Asking(k)
  BY <1>1 DEF Open, Asking, Key
<1>4. PromptsCounted'
  BY <1>1, <1>3 DEF BridgeInv, PromptsCounted, Recent
<1>5. BudgetsHold'
  BY <1>1, <1>3 DEF BridgeInv, BudgetsHold
<1>6. QED
  BY <1>2, <1>4, <1>5

\* A request of a bridge that keeps its mount keeps its timer and its answers.
LEMMA JobsKept ==
    ASSUME BridgeInv, UNCHANGED job,
           \A b \in Bridges : ~ Disposed(b) => ~ Disposed(b)'
    PROVE  JobsFit' /\ AnsweredOnce'
<1>1. JobsFit'
  BY DEF BridgeInv, JobsFit
<1>2. ASSUME NEW r \in Requests
      PROVE  /\ Len(job[r].told) <= 1
             /\ job[r].timer => ~ Disposed(job[r].by)' /\ job[r].told = << >>
  <2>1. Len(job[r].told) <= 1 /\ (job[r].timer => job[r].told = << >>)
    BY DEF BridgeInv, AnsweredOnce
  <2>2. CASE job[r].timer
    <3>1. PICK b \in Bridges : b = job[r].by
      BY <2>2 DEF BridgeInv, JobsFit
    <3>2. ~ Disposed(b)'
      BY <2>2, <3>1 DEF BridgeInv, AnsweredOnce
    <3>3. job'[r].by = b
      BY <3>1
    <3>4. ~ Disposed(job[r].by)'
      BY <3>2, <3>3 DEF Disposed, Mounted
    <3>5. QED
      BY <2>1, <3>4
  <2>3. QED
    BY <2>1, <2>2
<1>3. AnsweredOnce'
  BY <1>2 DEF AnsweredOnce
<1>4. QED
  BY <1>1, <1>3

Frame == [mount : 0..MaxMounts, tab : Tabs \cup {NoTab}, channels : SUBSET Channels]

LEMMA FrameTyped ==
    ASSUME BridgeInv, NEW f \in Frames
    PROVE  /\ frame \in [Frames -> Frame] /\ frame[f] \in Frame
           /\ Mounted(f) => frame[f].tab \in Tabs
  BY DEF BridgeInv, TypeOK, Frame, Mounted

LEMMA MountKeeps ==
    ASSUME BridgeInv, NEW f \in Frames, NEW t \in Tabs, Mount(f, t)
    PROVE  BridgeInv'
<1>1. /\ ~ Mounted(f) /\ frame[f].mount < MaxMounts
      /\ UNCHANGED <<granted, now, subs, rate, pubs, job, sends, shouts, freed, history>>
      /\ heard' = [heard EXCEPT ![f] = {}]
  BY DEF Mount, history
<1>2. PICK m \in 0..MaxMounts : m = frame[f].mount
  BY FrameTyped DEF Frame
<1>3. m + 1 \in 1..MaxMounts
  BY <1>1, <1>2, BridgeAssumption
<1> DEFINE new == [mount |-> m + 1, tab |-> t, channels |-> {}]
<1>4. frame' = [frame EXCEPT ![f] = new]
  BY <1>2, FrameTyped DEF Mount
<1>5. new \in Frame /\ frame \in [Frames -> Frame]
  BY <1>3, FrameTyped DEF Frame
<1>6. new.mount = m + 1 /\ new.tab = t /\ new.channels = {}
  OBVIOUS
<1> HIDE DEF new
<1>7. /\ frame' \in [Frames -> Frame] /\ frame'[f] = new
      /\ \A g \in Frames \ {f} : frame'[g] = frame[g]
  BY <1>4, <1>5
<1>8. t # NoTab
  BY BridgeAssumption
<1>9. /\ Mounted(f)' /\ Bridge(f)' = [frame |-> f, mount |-> m + 1]
      /\ \A g \in Frames \ {f} : (Mounted(g)' <=> Mounted(g)) /\ Bridge(g)' = Bridge(g)
  BY <1>6, <1>7, <1>8 DEF Mounted, Bridge
<1>10. TypeOK'
  <2>1. heard' \in [Frames -> SUBSET [tab : Tabs, channel : Channels]]
    BY <1>1 DEF BridgeInv, TypeOK
  <2>2. frame' \in [Frames -> [mount : 0..MaxMounts, tab : Tabs \cup {NoTab},
                               channels : SUBSET Channels]]
    BY <1>7 DEF Frame
  <2>3. QED
    BY <1>1, <2>1, <2>2 DEF BridgeInv, TypeOK
<1>11. JobsFit' /\ AnsweredOnce'
  <2>1. ASSUME NEW b \in Bridges, ~ Disposed(b) PROVE ~ Disposed(b)'
    <3>1. b.frame \in Frames /\ Mounted(b.frame) /\ frame[b.frame].mount = b.mount
      BY <2>1 DEF Disposed, Bridges
    <3>2. b.frame # f
      BY <1>1, <3>1
    <3>3. QED
      BY <1>7, <1>9, <3>1, <3>2 DEF Disposed
  <2>2. QED
    BY <1>1, <2>1, JobsKept
<1>12. FramesFit'
  <2>1. [frame |-> f, mount |-> m + 1] \in Bridges
    BY <1>3 DEF Bridges
  <2>2. QED
    BY <1>9, <2>1 DEF BridgeInv, FramesFit
<1>13. NothingDangles'
  <2>1. \A s : s \in subs' <=> \E g \in Frames : /\ Mounted(g)'
                               /\ \E c \in frame'[g].channels :
                                    s = Subscription(frame'[g].tab, c, Bridge(g)')
    <3>1. \A s : s \in subs <=> \E g \in Frames : /\ Mounted(g)
                               /\ \E c \in frame[g].channels :
                                    s = Subscription(frame[g].tab, c, Bridge(g))
      BY DanglesNothing DEF BridgeInv
    <3>2. frame'[f].channels = {} /\ ~ Mounted(f) /\ subs' = subs
      BY <1>1, <1>6, <1>7
    <3>3. QED
      BY <1>7, <1>9, <3>1, <3>2
  <2>2. \A g \in Frames : Mounted(g)' => \A w \in heard'[g] : w.tab = frame'[g].tab
    <3>1. heard'[f] = {} /\ \A g \in Frames \ {f} : heard'[g] = heard[g]
      BY <1>1 DEF BridgeInv, TypeOK
    <3>2. QED
      BY <1>7, <1>9, <3>1 DEF BridgeInv, NothingDangles
  <2>3. QED
    BY <2>1, <2>2 DEF NothingDangles, Mounted, Bridge, Subscription
<1>14. QED
  BY <1>1, <1>10, <1>11, <1>12, <1>13, BudgetsKept DEF BridgeInv

\* The lock of the frame's name is freed, its timers and its subscriptions are gone.
LEMMA DetachKeeps ==
    ASSUME BridgeInv, NEW f \in Frames, Detach(f)
    PROVE  BridgeInv'
<1> DEFINE b == Bridge(f)
           new == [frame[f] EXCEPT !.tab = NoTab, !.channels = {}]
           n == Name[f]
<1>1. /\ Mounted(f)
      /\ subs' = Without(b)
      /\ job' = TimersCleared(b)
      /\ UNCHANGED <<granted, now, pubs, heard, sends, shouts>>
  BY DEF Detach
<1>2. /\ rate \in [Keys -> [stamps : SUBSET Stamps, inFlight : BOOLEAN]]
      /\ freed \in [Keys -> Nat] /\ job \in [Requests -> Job]
      /\ frame \in [Frames -> Frame] /\ n \in Keys
  BY JobTyped, FrameTyped DEF BridgeInv, TypeOK, Keys, Names
<1>3. /\ frame' \in [Frames -> Frame] /\ frame'[f] = new /\ new.tab = NoTab
      /\ new.channels = {}
      /\ \A g \in Frames \ {f} : frame'[g] = frame[g]
  <2>1. new \in Frame /\ new.tab = NoTab /\ new.channels = {}
    <3>1. frame[f] \in Frame
      BY <1>2
    <3>2. QED
      BY <3>1 DEF Frame
  <2>2. frame' = [frame EXCEPT ![f] = new]
    BY <1>2 DEF Detach
  <2> HIDE DEF new
  <2>3. QED
    BY <1>2, <2>1, <2>2
<1>4. /\ ~ Mounted(f)'
      /\ \A g \in Frames \ {f} : (Mounted(g)' <=> Mounted(g)) /\ Bridge(g)' = Bridge(g)
  BY <1>3 DEF Mounted, Bridge
<1>5. /\ rate' \in [Keys -> [stamps : SUBSET Stamps, inFlight : BOOLEAN]]
      /\ \A k \in Keys : rate'[k].stamps = rate[k].stamps
      /\ ~ rate'[n].inFlight
      /\ \A k \in Keys \ {n} : rate'[k] = rate[k]
  <2>1. rate' = [rate EXCEPT ![n] = [rate[n] EXCEPT !.inFlight = FALSE]]
    BY <1>2 DEF Detach
  <2>2. rate[n] \in [stamps : SUBSET Stamps, inFlight : BOOLEAN]
    BY <1>2
  <2>3. /\ [rate[n] EXCEPT !.inFlight = FALSE] \in [stamps : SUBSET Stamps, inFlight : BOOLEAN]
        /\ [rate[n] EXCEPT !.inFlight = FALSE].stamps = rate[n].stamps
        /\ [rate[n] EXCEPT !.inFlight = FALSE].inFlight = FALSE
    BY <2>2
  <2>4. QED
    BY <1>2, <2>1, <2>3
<1>6. /\ freed' \in [Keys -> Nat]
      /\ freed'[n] = freed[n] + (IF rate[n].inFlight THEN 1 ELSE 0)
      /\ \A k \in Keys \ {n} : freed'[k] = freed[k]
  <2>1. freed' = [freed EXCEPT ![n] = IF rate[n].inFlight THEN freed[n] + 1 ELSE freed[n]]
    BY <1>2 DEF Detach
  <2>2. QED
    BY <1>2, <2>1
<1>7. /\ job' \in [Requests -> Job]
      /\ \A r \in Requests : /\ job'[r].by = job[r].by /\ job'[r].at = job[r].at
                             /\ job'[r].told = job[r].told
                             /\ job'[r].timer <=> job[r].timer /\ job[r].by # b
  <2>1. ASSUME NEW r \in Requests
        PROVE  /\ TimersCleared(b)[r] \in Job
               /\ TimersCleared(b)[r].by = job[r].by /\ TimersCleared(b)[r].at = job[r].at
               /\ TimersCleared(b)[r].told = job[r].told
               /\ TimersCleared(b)[r].timer <=> job[r].timer /\ job[r].by # b
    <3>1. PICK old \in Job : old = job[r]
      BY <1>2
    <3>2. CASE old.by = b
      <4>1. TimersCleared(b)[r] = [old EXCEPT !.timer = FALSE]
        BY <3>1, <3>2 DEF TimersCleared
      <4>2. [old EXCEPT !.timer = FALSE] \in Job
        BY DEF Job
      <4>3. /\ [old EXCEPT !.timer = FALSE].by = old.by /\ [old EXCEPT !.timer = FALSE].at = old.at
            /\ [old EXCEPT !.timer = FALSE].told = old.told
            /\ [old EXCEPT !.timer = FALSE].timer = FALSE
        BY DEF Job
      <4>4. QED
        BY <3>1, <3>2, <4>1, <4>2, <4>3
    <3>3. CASE old.by # b
      BY <3>1, <3>3 DEF TimersCleared
    <3>4. QED
      BY <3>2, <3>3
  <2>2. DOMAIN TimersCleared(b) = Requests
    BY DEF TimersCleared
  <2>3. TimersCleared(b) \in [Requests -> Job]
    BY <2>1 DEF TimersCleared
  <2>4. QED
    BY <1>1, <2>1, <2>3
<1>8. \A c \in Bridges : c # b /\ ~ Disposed(c) => ~ Disposed(c)'
  <2> SUFFICES ASSUME NEW c \in Bridges, c # b, ~ Disposed(c) PROVE ~ Disposed(c)'
    OBVIOUS
  <2>1. c.frame \in Frames /\ Mounted(c.frame) /\ frame[c.frame].mount = c.mount
    BY DEF Disposed, Bridges
  <2>2. c = [frame |-> c.frame, mount |-> c.mount]
    BY DEF Bridges
  <2>3. c.frame # f
    BY <2>1, <2>2 DEF Bridge
  <2>4. QED
    BY <1>3, <1>4, <2>1, <2>3 DEF Disposed
<1>9. TypeOK'
  <2>1. frame' \in [Frames -> [mount : 0..MaxMounts, tab : Tabs \cup {NoTab},
                               channels : SUBSET Channels]]
    BY <1>3 DEF Frame
  <2>2. job' \in [Requests -> [by : Bridges \cup {Form(k) : k \in Forms} \cup {Nobody},
                             kind : {"none", "theme", "data", "state", "prompt"}, at : Steps,
                             timer : BOOLEAN, told : Seq(Answers)]]
    BY <1>7 DEF Job
  <2>3. subs' \subseteq [tab : Tabs, channel : Channels, who : Bridges]
    BY <1>1 DEF Without, BridgeInv, TypeOK
  <2>4. QED
    BY <1>1, <1>5, <1>6, <2>1, <2>2, <2>3 DEF BridgeInv, TypeOK
<1>10. JobsFit'
  BY <1>7 DEF BridgeInv, JobsFit
<1>11. AnsweredOnce'
  <2>1. ASSUME NEW r \in Requests
        PROVE  /\ Len(job'[r].told) <= 1
               /\ job'[r].timer => ~ Disposed(job[r].by)' /\ job'[r].told = << >>
    <3>1. Len(job'[r].told) <= 1 /\ (job'[r].timer => job'[r].told = << >>)
      BY <1>7 DEF BridgeInv, AnsweredOnce
    <3>2. CASE job'[r].timer
      <4>1. job[r].timer /\ job[r].by # b /\ job'[r].by = job[r].by
        BY <1>7, <3>2
      <4>2. PICK c \in Bridges : c = job[r].by
        BY <4>1 DEF BridgeInv, JobsFit
      <4>3. ~ Disposed(c)
        BY <4>1, <4>2 DEF BridgeInv, AnsweredOnce
      <4>4. ~ Disposed(c)' /\ job'[r].by = c
        BY <1>8, <4>1, <4>2, <4>3
      <4>5. ~ Disposed(job[r].by)'
        BY <4>4 DEF Disposed, Mounted
      <4>6. QED
        BY <3>1, <4>5
    <3>3. QED
      BY <3>1, <3>2
  <2>2. QED
    BY <2>1 DEF AnsweredOnce
<1>12. FramesFit'
  BY <1>3, <1>4 DEF BridgeInv, FramesFit
<1>13. NothingDangles'
  <2>1. \A s : s \in subs <=> \E g \in Frames : /\ Mounted(g)
                               /\ \E c \in frame[g].channels :
                                    s = Subscription(frame[g].tab, c, Bridge(g))
    BY DanglesNothing DEF BridgeInv
  <2>2. \A g \in Frames \ {f} : Bridge(g) # b
    BY DEF Bridge
  <2>3. \A t, c, w : Subscription(t, c, w).who = w
    BY DEF Subscription
  <2>4. ASSUME NEW s
        PROVE  s \in subs' <=> \E g \in Frames : /\ Mounted(g)'
                               /\ \E c \in frame'[g].channels :
                                    s = Subscription(frame'[g].tab, c, Bridge(g)')
    <3>1. s \in subs' <=> s \in subs /\ s.who # b
      BY <1>1 DEF Without
    <3>2. ASSUME s \in subs'
          PROVE  \E g \in Frames : /\ Mounted(g)'
                               /\ \E c \in frame'[g].channels :
                                    s = Subscription(frame'[g].tab, c, Bridge(g)')
      <4>1. PICK g \in Frames : /\ Mounted(g)
                                /\ \E c \in frame[g].channels :
                                     s = Subscription(frame[g].tab, c, Bridge(g))
        BY <2>1, <3>1, <3>2
      <4>2. g # f
        BY <2>3, <3>1, <3>2, <4>1
      <4>3. QED
        BY <1>3, <1>4, <4>1, <4>2
    <3>3. ASSUME NEW g \in Frames, Mounted(g)', NEW c \in frame'[g].channels,
                 s = Subscription(frame'[g].tab, c, Bridge(g)')
          PROVE  s \in subs'
      <4>1. g # f /\ frame'[g] = frame[g] /\ Bridge(g)' = Bridge(g) /\ Mounted(g)
        BY <1>3, <1>4, <3>3
      <4>2. s = Subscription(frame[g].tab, c, Bridge(g)) /\ c \in frame[g].channels
        BY <3>3, <4>1
      <4>3. QED
        BY <2>1, <2>2, <2>3, <3>1, <4>1, <4>2
    <3>4. QED
      BY <3>2, <3>3
  <2>5. \A g \in Frames : Mounted(g)' => \A w \in heard'[g] : w.tab = frame'[g].tab
    BY <1>1, <1>3, <1>4 DEF BridgeInv, NothingDangles
  <2>6. QED
    BY <2>4, <2>5 DEF NothingDangles, Mounted, Bridge, Subscription
<1>14. WindowsTrue'
  BY <1>1, <1>5 DEF BridgeInv, WindowsTrue, Counted, Recent
<1>15. \A k \in Keys : Open(k)' = Open(k) /\ Asking(k)' = Asking(k)
  BY <1>7 DEF Open, Asking, Key
<1>16. \A k \in Keys : freed[k] \in Nat /\ freed'[k] \in Nat /\ freed[k] <= freed'[k]
  <2>1. ASSUME NEW k \in Keys PROVE freed[k] \in Nat /\ freed'[k] \in Nat /\ freed[k] <= freed'[k]
    BY <1>2, <1>6
  <2>2. QED
    BY <2>1
<1>17. PromptsCounted'
  <2>1. ASSUME NEW k \in Keys
        PROVE  Cardinality(Recent(sends[k])) + Cardinality(Asking(k)) <= PromptMax + freed'[k]
    BY <1>16, BudgetOf, OpenSizes, BridgeAssumption
  <2>2. QED
    BY <1>1, <1>15, <2>1 DEF PromptsCounted, Recent
<1>18. BudgetsHold'
  <2>1. ASSUME NEW k \in Keys
        PROVE  /\ \A t \in 0..now : Cardinality(Within(sends[k], t)) <= PromptMax + freed'[k]
               /\ Cardinality(Open(k)) <= freed'[k] + (IF rate'[k].inFlight THEN 1 ELSE 0)
    <3>1. ASSUME NEW t \in 0..now PROVE Cardinality(Within(sends[k], t)) <= PromptMax + freed'[k]
      <4>1. Cardinality(Within(sends[k], t)) <= PromptMax + freed[k]
        BY BudgetOf
      <4>2. Cardinality(Within(sends[k], t)) \in Nat
        BY BudgetOf, WithinFinite DEF Counted
      <4>3. QED
        BY <1>16, <4>1, <4>2, BridgeAssumption
    <3>2. CASE k = n
      <4>1. PICK i \in Nat : i = freed[k]
        BY <1>16
      <4>2. freed'[k] = i + (IF rate[k].inFlight THEN 1 ELSE 0)
        BY <1>6, <3>2, <4>1
      <4>3. Cardinality(Open(k)) <= i + (IF rate[k].inFlight THEN 1 ELSE 0)
        BY <4>1, BudgetOf
      <4>4. QED
        BY <1>5, <3>1, <3>2, <4>2, <4>3
    <3>3. CASE k # n
      BY <1>5, <1>6, <3>3, BudgetOf
    <3>4. QED
      BY <3>1, <3>2, <3>3
  <2>2. QED
    BY <1>1, <1>15, <2>1 DEF BridgeInv, BudgetsHold, Within
<1>19. QED
  BY <1>9, <1>10, <1>11, <1>12, <1>13, <1>14, <1>17, <1>18 DEF BridgeInv

LEMMA SubscribeKeeps ==
    ASSUME BridgeInv, NEW f \in Frames, NEW c \in Channels,
           Subscribe(f, c) \/ Unsubscribe(f, c)
    PROVE  BridgeInv'
<1>1. /\ Mounted(f)
      /\ UNCHANGED <<granted, now, rate, pubs, job, heard, history>>
      /\ UNCHANGED <<sends, shouts, freed>>
  BY DEF Subscribe, Unsubscribe, OnBus, history
<1> DEFINE t == frame[f].tab
           b == Bridge(f)
           mine == Subscription(t, c, b)
<1>2. PICK chans \in SUBSET Channels :
        /\ \/ chans = frame[f].channels \cup {c} /\ subs' = subs \cup {mine}
           \/ chans = frame[f].channels \ {c} /\ subs' = subs \ {mine}
        /\ frame' = [frame EXCEPT ![f] = [frame[f] EXCEPT !.channels = chans]]
  <2>1. frame \in [Frames -> Frame] /\ frame[f].channels \subseteq Channels
    BY FrameTyped DEF Frame
  <2>2. CASE Subscribe(f, c)
    <3>1. /\ subs' = subs \cup {mine}
          /\ frame' = [frame EXCEPT ![f] = [frame[f] EXCEPT !.channels = frame[f].channels \cup {c}]]
      BY <2>1, <2>2 DEF Subscribe
    <3>2. QED
      BY <2>1, <3>1
  <2>3. CASE Unsubscribe(f, c)
    <3>1. /\ subs' = subs \ {mine}
          /\ frame' = [frame EXCEPT ![f] = [frame[f] EXCEPT !.channels = frame[f].channels \ {c}]]
      BY <2>1, <2>3 DEF Unsubscribe
    <3>2. QED
      BY <2>1, <3>1
  <2>4. QED
    BY <2>2, <2>3
<1> DEFINE new == [frame[f] EXCEPT !.channels = chans]
<1>3. new \in Frame /\ new.mount = frame[f].mount /\ new.tab = t /\ new.channels = chans
  <2>1. frame[f] \in Frame
    BY FrameTyped
  <2>2. QED
    BY <2>1 DEF Frame
<1> HIDE DEF new
<1>4. /\ frame' \in [Frames -> Frame] /\ frame'[f] = new
      /\ \A g \in Frames \ {f} : frame'[g] = frame[g]
  BY <1>2, <1>3, FrameTyped DEF new
<1>5. \A g \in Frames : /\ frame'[g].mount = frame[g].mount /\ frame'[g].tab = frame[g].tab
                        /\ (Mounted(g)' <=> Mounted(g)) /\ Bridge(g)' = Bridge(g)
  BY <1>3, <1>4 DEF Mounted, Bridge
<1>6. b \in Bridges /\ t \in Tabs /\ mine \in [tab : Tabs, channel : Channels, who : Bridges]
  BY <1>1, FrameTyped DEF BridgeInv, FramesFit, Subscription
<1>7. TypeOK'
  <2>1. frame' \in [Frames -> [mount : 0..MaxMounts, tab : Tabs \cup {NoTab},
                               channels : SUBSET Channels]]
    BY <1>4 DEF Frame
  <2>2. subs' \subseteq [tab : Tabs, channel : Channels, who : Bridges]
    BY <1>2, <1>6 DEF BridgeInv, TypeOK
  <2>3. QED
    BY <1>1, <2>1, <2>2 DEF BridgeInv, TypeOK
<1>8. JobsFit' /\ AnsweredOnce'
  <2>1. \A d \in Bridges : Disposed(d)' <=> Disposed(d)
    BY <1>5 DEF Disposed
  <2>2. QED
    BY <1>1, <2>1, JobsKept
<1>9. FramesFit'
  BY <1>5 DEF BridgeInv, FramesFit
<1>10. NothingDangles'
  <2>1. \A s : s \in subs <=> \E g \in Frames : /\ Mounted(g)
                               /\ \E d \in frame[g].channels :
                                    s = Subscription(frame[g].tab, d, Bridge(g))
    BY DanglesNothing DEF BridgeInv
  <2>2. \A d : d \in chans => d = c \/ d \in frame[f].channels
    BY <1>2
  <2>3. \A s : (\E d \in chans : s = Subscription(t, d, b))
                 <=> IF c \in chans
                     THEN s = mine \/ \E d \in frame[f].channels : s = Subscription(t, d, b)
                     ELSE s # mine /\ \E d \in frame[f].channels : s = Subscription(t, d, b)
    <3>1. \A d1, d2 : Subscription(t, d1, b) = Subscription(t, d2, b) => d1 = d2
      BY DEF Subscription
    <3>2. QED
      BY <1>2, <3>1
  <2>4. \A g \in Frames \ {f} : \A d : Subscription(frame[g].tab, d, Bridge(g)) # mine
    BY DEF Subscription, Bridge
  <2>5. ASSUME NEW s
        PROVE  s \in subs' <=> \E g \in Frames : /\ Mounted(g)'
                               /\ \E d \in frame'[g].channels :
                                    s = Subscription(frame'[g].tab, d, Bridge(g)')
    <3>1. (\E d \in frame'[f].channels : s = Subscription(frame'[f].tab, d, Bridge(f)'))
            <=> \E d \in chans : s = Subscription(t, d, b)
      BY <1>3, <1>4, <1>5
    <3>2. \A g \in Frames \ {f} :
            (\E d \in frame'[g].channels : s = Subscription(frame'[g].tab, d, Bridge(g)'))
              <=> \E d \in frame[g].channels : s = Subscription(frame[g].tab, d, Bridge(g))
      BY <1>4, <1>5
    <3>3. s \in subs' <=> IF c \in chans THEN s \in subs \/ s = mine ELSE s \in subs /\ s # mine
      BY <1>2
    <3> DEFINE Others == \E g \in Frames \ {f} : /\ Mounted(g)
                                                 /\ \E d \in frame[g].channels :
                                                      s = Subscription(frame[g].tab, d, Bridge(g))
               Own(chs) == \E d \in chs : s = Subscription(t, d, b)
    <3>4. s \in subs <=> Own(frame[f].channels) \/ Others
      BY <1>1, <2>1
    <3>5. (\E g \in Frames : /\ Mounted(g)'
                             /\ \E d \in frame'[g].channels :
                                  s = Subscription(frame'[g].tab, d, Bridge(g)'))
            <=> Own(chans) \/ Others
      BY <1>1, <1>5, <3>1, <3>2
    <3>6. Others => s # mine
      BY <2>4
    <3>7. Own(chans) <=> IF c \in chans THEN s = mine \/ Own(frame[f].channels)
                         ELSE s # mine /\ Own(frame[f].channels)
      BY <2>3
    <3> HIDE DEF mine, b, t, Others, Own
    <3>8. QED
      BY <3>3, <3>4, <3>5, <3>6, <3>7
  <2>6. \A g \in Frames : Mounted(g)' => \A w \in heard'[g] : w.tab = frame'[g].tab
    BY <1>1, <1>5 DEF BridgeInv, NothingDangles
  <2>7. QED
    BY <2>5, <2>6 DEF NothingDangles, Mounted, Bridge, Subscription
<1>11. QED
  BY <1>1, <1>7, <1>8, <1>9, <1>10, BudgetsKept DEF BridgeInv

\* What a name publishes, or may not.
LEMMA PublishRefusedKeeps ==
    ASSUME BridgeInv, NEW f \in Frames, PublishRefused(f)
    PROVE  BridgeInv'
<1>1. /\ UNCHANGED <<granted, now, frame, subs, rate, job, heard, sends, shouts, freed>>
      /\ pubs' = [pubs EXCEPT ![Name[f]] = Recent(@)]
  BY DEF PublishRefused, history
<1>2. pubs \in [Names -> SUBSET Stamps] /\ Name[f] \in Names
  BY DEF BridgeInv, TypeOK, Names
<1>3. /\ pubs' \in [Names -> SUBSET Stamps]
      /\ \A n \in Names : Recent(pubs'[n]) = Recent(pubs[n])
  <2>1. ASSUME NEW n \in Names
        PROVE  pubs'[n] \in SUBSET Stamps /\ Recent(pubs'[n]) = Recent(pubs[n])
    <3>1. CASE n = Name[f]
      <4>1. pubs'[n] = Recent(pubs[n])
        BY <1>1, <1>2, <3>1
      <4>2. Recent(pubs[n]) \in SUBSET Stamps
        BY <1>2 DEF Recent
      <4>3. QED
        BY <4>1, <4>2, RecentTwice
    <3>2. CASE n # Name[f]
      BY <1>1, <1>2, <3>2
    <3>3. QED
      BY <3>1, <3>2
  <2>2. QED
    BY <1>1, <1>2, <2>1
<1>4. TypeOK'
  BY <1>1, <1>3 DEF BridgeInv, TypeOK
<1>5. JobsFit' /\ AnsweredOnce' /\ FramesFit' /\ NothingDangles'
  <2>1. \A b \in Bridges : Disposed(b)' <=> Disposed(b)
    BY <1>1 DEF Disposed, Mounted
  <2>2. JobsFit' /\ AnsweredOnce'
    BY <1>1, <2>1, JobsKept
  <2>3. QED
    BY <1>1, <2>2 DEF BridgeInv, FramesFit, NothingDangles, Mounted, Bridge
<1>6. WindowsTrue'
  <2>1. \A n \in Names : Counted(shouts[n]) /\ Recent(pubs'[n]) = Recent(shouts[n])
    BY <1>3 DEF BridgeInv, WindowsTrue
  <2>2. \A n \in Names : Counted(shouts[n])' /\ Recent(pubs[n])' = Recent(shouts[n])'
    BY <1>1, <2>1 DEF Counted, Recent
  <2>3. \A k \in Keys : Counted(sends[k])' /\ Recent(rate[k].stamps)' = Recent(sends[k])'
    BY <1>1 DEF BridgeInv, WindowsTrue, Counted, Recent
  <2>4. QED
    BY <2>2, <2>3 DEF WindowsTrue
<1>7. PromptsCounted' /\ BudgetsHold'
  <2>1. \A k \in Keys : Open(k)' = Open(k) /\ Asking(k)' = Asking(k)
    BY <1>1 DEF Open, Asking, Key
  <2>2. PromptsCounted'
    BY <1>1, <2>1 DEF BridgeInv, PromptsCounted, Recent
  <2>3. BudgetsHold'
    BY <1>1, <2>1 DEF BridgeInv, BudgetsHold
  <2>4. QED
    BY <2>2, <2>3
<1>8. QED
  BY <1>4, <1>5, <1>6, <1>7 DEF BridgeInv

LEMMA PublishKeeps ==
    ASSUME BridgeInv, NEW f \in Frames, NEW c \in Channels, Publish(f, c)
    PROVE  BridgeInv'
<1> DEFINE n == Name[f]
<1>1. /\ UNCHANGED <<granted, now, frame, subs, rate, job, sends, freed>>
      /\ pubs' = [pubs EXCEPT ![n] = Stamped(Recent(@))]
      /\ shouts' = [shouts EXCEPT ![n] = Stamped(@)]
      /\ Mounted(f)
      /\ ~ (Cardinality(Recent(pubs[n])) >= PublishMax)
  BY DEF Publish, PublishLimited, OnBus
<1>2. /\ pubs \in [Names -> SUBSET Stamps] /\ shouts \in [Names -> SUBSET Stamps]
      /\ n \in Names /\ TypeOK
  BY DEF BridgeInv, TypeOK, Names
<1>3. Counted(shouts[n]) /\ Recent(pubs[n]) = Recent(shouts[n])
  BY <1>2 DEF BridgeInv, WindowsTrue
<1>4. /\ Fresh(Recent(pubs[n])) = Fresh(shouts[n]) /\ Fresh(shouts[n]) \in Stamps
      /\ Recent(Recent(pubs[n])) = Recent(shouts[n])
  BY <1>2, <1>3, RecentTwice, FreshAlike, StampedCounted
<1>5. /\ Stamped(Recent(pubs[n])) \in SUBSET Stamps /\ Stamped(shouts[n]) \in SUBSET Stamps
      /\ Recent(Stamped(Recent(pubs[n]))) = Recent(Stamped(shouts[n]))
      /\ Counted(Stamped(shouts[n]))
  <2>1. Recent(pubs[n]) \in SUBSET Stamps
    BY <1>2 DEF Recent
  <2>2. /\ Stamped(Recent(pubs[n])) = Recent(pubs[n]) \cup {Fresh(shouts[n])}
        /\ Recent(Stamped(Recent(pubs[n]))) = Recent(shouts[n]) \cup {Fresh(shouts[n])}
    BY <1>2, <1>4, RecentStamped
  <2>3. /\ Stamped(shouts[n]) = shouts[n] \cup {Fresh(shouts[n])}
        /\ Recent(Stamped(shouts[n])) = Recent(shouts[n]) \cup {Fresh(shouts[n])}
    BY <1>2, RecentStamped
  <2>4. QED
    BY <1>2, <1>3, <1>4, <2>1, <2>2, <2>3, StampedCounted
<1>6. /\ pubs' \in [Names -> SUBSET Stamps] /\ shouts' \in [Names -> SUBSET Stamps]
      /\ shouts'[n] = Stamped(shouts[n]) /\ pubs'[n] = Stamped(Recent(pubs[n]))
      /\ \A m \in Names \ {n} : pubs'[m] = pubs[m] /\ shouts'[m] = shouts[m]
  <2>1. /\ pubs' = [pubs EXCEPT ![n] = Stamped(Recent(pubs[n]))]
        /\ shouts' = [shouts EXCEPT ![n] = Stamped(shouts[n])]
    BY <1>1, <1>2
  <2>2. QED
    BY <1>2, <1>5, <2>1
<1>7. \A g \in Frames : frame[g].tab \in Tabs \cup {NoTab}
  BY FrameTyped DEF Frame
<1>8. /\ heard' \in [Frames -> SUBSET [tab : Tabs, channel : Channels]]
      /\ \A g \in Frames : Mounted(g) => \A w \in heard'[g] : w.tab = frame[g].tab
  <2> DEFINE note == [tab |-> frame[f].tab, channel |-> c]
             hears(g) == Mounted(g) /\ Bridge(g) \in Reached(frame[f].tab, c, Bridge(f))
  <2>1. heard' = [g \in Frames |-> IF hears(g) THEN heard[g] \cup {note} ELSE heard[g]]
    BY DEF Publish
  <2>2. note \in [tab : Tabs, channel : Channels] /\ note.tab = frame[f].tab
    BY <1>1, FrameTyped
  <2>3. ASSUME NEW g \in Frames, hears(g) PROVE frame[g].tab = frame[f].tab
    <3>1. PICK s \in subs : s.tab = frame[f].tab /\ s.who = Bridge(g)
      BY <2>3 DEF Reached
    <3>2. PICK h \in Frames : \E d \in frame[h].channels :
                                 s = Subscription(frame[h].tab, d, Bridge(h))
      BY DanglesNothing DEF BridgeInv
    <3>3. s.who = Bridge(h) /\ s.tab = frame[h].tab
      BY <3>2 DEF Subscription
    <3>4. h = g
      BY <3>1, <3>3 DEF Bridge
    <3>5. QED
      BY <3>1, <3>3, <3>4
  <2>4. heard \in [Frames -> SUBSET [tab : Tabs, channel : Channels]]
    BY DEF BridgeInv, TypeOK
  <2>5. \A g \in Frames : Mounted(g) => \A w \in heard[g] : w.tab = frame[g].tab
    BY DEF BridgeInv, NothingDangles
  <2> HIDE DEF note, hears
  <2>6. \A g \in Frames : heard'[g] = IF hears(g) THEN heard[g] \cup {note} ELSE heard[g]
    BY <2>1
  <2>7. heard' \in [Frames -> SUBSET [tab : Tabs, channel : Channels]]
    BY <2>1, <2>2, <2>4
  <2>8. \A g \in Frames : Mounted(g) => \A w \in heard'[g] : w.tab = frame[g].tab
    BY <2>2, <2>3, <2>5, <2>6
  <2>9. QED
    BY <2>7, <2>8
<1>9. TypeOK'
  BY <1>1, <1>6, <1>8 DEF BridgeInv, TypeOK
<1>10. JobsFit' /\ AnsweredOnce' /\ FramesFit'
  <2>1. \A b \in Bridges : Disposed(b)' <=> Disposed(b)
    BY <1>1 DEF Disposed, Mounted
  <2>2. JobsFit' /\ AnsweredOnce'
    BY <1>1, <2>1, JobsKept
  <2>3. QED
    BY <1>1, <2>2 DEF BridgeInv, FramesFit, Mounted, Bridge
<1>11. NothingDangles'
  BY <1>1, <1>8 DEF BridgeInv, NothingDangles, Mounted, Bridge
<1>12. \A m \in Names : Counted(shouts'[m]) /\ Recent(pubs'[m]) = Recent(shouts'[m])
  <2>1. ASSUME NEW m \in Names
        PROVE  Counted(shouts'[m]) /\ Recent(pubs'[m]) = Recent(shouts'[m])
    <3>1. CASE m = n
      BY <1>5, <1>6, <3>1
    <3>2. CASE m # n
      BY <1>6, <3>2 DEF BridgeInv, WindowsTrue
    <3>3. QED
      BY <3>1, <3>2
  <2>2. QED
    BY <2>1
<1>13. WindowsTrue'
  <2>1. \A m \in Names : Counted(shouts[m])' /\ Recent(pubs[m])' = Recent(shouts[m])'
    BY <1>1, <1>12 DEF Counted, Recent
  <2>2. \A k \in Keys : Counted(sends[k])' /\ Recent(rate[k].stamps)' = Recent(sends[k])'
    BY <1>1 DEF BridgeInv, WindowsTrue, Counted, Recent
  <2>3. QED
    BY <2>1, <2>2 DEF WindowsTrue
<1>14. \A k \in Keys : Open(k)' = Open(k) /\ Asking(k)' = Asking(k)
  BY <1>1 DEF Open, Asking, Key
<1>15. PromptsCounted'
  BY <1>1, <1>14 DEF BridgeInv, PromptsCounted, Recent
<1>16. BudgetsHold'
  <2>1. \A t \in 0..now : Cardinality(Within(Stamped(shouts[n]), t)) <= PublishMax
    <3>1. PublishMax \in Nat /\ \A t \in 0..now : Cardinality(Within(shouts[n], t)) <= PublishMax
      BY <1>2, BridgeAssumption DEF BridgeInv, BudgetsHold
    <3>2. Cardinality(Recent(shouts[n])) \in Nat
      BY <1>2, <1>3, StampedCounted, FS_CardinalityType
    <3>3. ~ (Cardinality(Recent(shouts[n])) >= PublishMax)
      BY <1>1, <1>3
    <3>4. Cardinality(Recent(shouts[n])) + 1 <= PublishMax
      BY <3>1, <3>2, <3>3
    <3>5. QED
      BY <1>2, <1>3, <3>1, <3>4, StampedBudget
  <2>2. \A m \in Names, t \in 0..now : Cardinality(Within(shouts'[m], t)) <= PublishMax
    BY <1>6, <2>1 DEF BridgeInv, BudgetsHold
  <2>3. QED
    BY <1>1, <1>14, <2>2 DEF BridgeInv, BudgetsHold
<1>17. QED
  BY <1>9, <1>10, <1>11, <1>13, <1>15, <1>16 DEF BridgeInv

\* Time only takes stamps out of the windows.
LEMMA TickKeeps == ASSUME BridgeInv, Tick PROVE BridgeInv'
<1>1. /\ now < MaxTime /\ now' = now + 1
      /\ UNCHANGED <<granted, frame, rate, job, subs, pubs, heard, sends, shouts, freed>>
  BY DEF Tick, bus, history
<1>2. now \in Nat /\ TypeOK /\ Window \in Nat /\ PublishMax \in Nat /\ PromptMax \in Nat
  BY BridgeAssumption DEF BridgeInv, TypeOK
<1>3. TypeOK'
  BY <1>1, <1>2, BridgeAssumption DEF TypeOK
<1>4. JobsFit' /\ AnsweredOnce' /\ FramesFit' /\ NothingDangles'
  <2>1. \A b \in Bridges : Disposed(b)' <=> Disposed(b)
    BY <1>1 DEF Disposed, Mounted
  <2>2. JobsFit' /\ AnsweredOnce'
    BY <1>1, <2>1, JobsKept
  <2>3. QED
    BY <1>1, <2>2 DEF BridgeInv, FramesFit, NothingDangles, Mounted, Bridge
<1>5. WindowsTrue'
  <2>1. ASSUME NEW A \in SUBSET Stamps
        PROVE  Recent(A)' = {s \in Recent(A) : s.at > now' - Window}
    BY <1>1, <1>2, StampFields DEF Recent
  <2>2. \A n \in Names : Recent(pubs[n])' = Recent(shouts[n])'
    <3>1. ASSUME NEW n \in Names PROVE Recent(pubs[n])' = Recent(shouts[n])'
      <4>1. PICK A \in SUBSET Stamps, B \in SUBSET Stamps :
              A = pubs[n] /\ B = shouts[n] /\ A = pubs'[n] /\ B = shouts'[n]
        BY <1>1, <1>2 DEF TypeOK
      <4>2. Recent(A) = Recent(B)
        BY <4>1 DEF BridgeInv, WindowsTrue
      <4>3. Recent(A)' = Recent(B)'
        BY <2>1, <4>2
      <4>4. QED
        BY <4>1, <4>3 DEF Recent
    <3>2. QED
      BY <3>1
  <2>3. \A k \in Keys : Recent(rate[k].stamps)' = Recent(sends[k])'
    <3>1. ASSUME NEW k \in Keys PROVE Recent(rate[k].stamps)' = Recent(sends[k])'
      <4>1. rate[k].stamps \in SUBSET Stamps /\ sends[k] \in SUBSET Stamps
        BY <1>2 DEF TypeOK
      <4>2. PICK A \in SUBSET Stamps, B \in SUBSET Stamps :
              A = rate[k].stamps /\ B = sends[k] /\ A = rate'[k].stamps /\ B = sends'[k]
        BY <1>1, <4>1
      <4>3. Recent(A) = Recent(B)
        BY <4>2 DEF BridgeInv, WindowsTrue
      <4>4. Recent(A)' = Recent(B)'
        BY <2>1, <4>3
      <4>5. QED
        BY <4>2, <4>4 DEF Recent
    <3>2. QED
      BY <3>1
  <2>4. ASSUME NEW S, Counted(S) PROVE Counted(S)'
    <3>1. \A s \in S : s.at \in Int /\ s.at <= now
      BY <2>4, StampFields DEF Counted
    <3>2. QED
      BY <1>1, <1>2, <2>4, <3>1 DEF Counted
  <2>5. /\ \A n \in Names : Counted(shouts[n]) /\ shouts'[n] = shouts[n]
        /\ \A k \in Keys : Counted(sends[k]) /\ sends'[k] = sends[k]
    BY <1>1 DEF BridgeInv, WindowsTrue
  <2>6. \A n \in Names : Counted(shouts[n])'
    <3>1. ASSUME NEW n \in Names PROVE Counted(shouts[n])'
      <4>1. PICK S : S = shouts[n] /\ S = shouts'[n]
        BY <2>5
      <4>2. Counted(S)'
        BY <2>4, <2>5, <4>1
      <4>3. QED
        BY <4>1, <4>2 DEF Counted
    <3>2. QED
      BY <3>1
  <2>7. \A k \in Keys : Counted(sends[k])'
    <3>1. ASSUME NEW k \in Keys PROVE Counted(sends[k])'
      <4>1. PICK S : S = sends[k] /\ S = sends'[k]
        BY <2>5
      <4>2. Counted(S)'
        BY <2>4, <2>5, <4>1
      <4>3. QED
        BY <4>1, <4>2 DEF Counted
    <3>2. QED
      BY <3>1
  <2>8. QED
    BY <2>2, <2>3, <2>6, <2>7 DEF WindowsTrue
<1>6. \A k \in Keys : Open(k)' = Open(k) /\ Asking(k)' = Asking(k)
  BY <1>1 DEF Open, Asking, Key
<1>7. ASSUME NEW k \in Keys
      PROVE  /\ Cardinality(Recent(sends[k])') + Cardinality(Asking(k)) <= PromptMax + freed[k]
             /\ \A t \in 0..now' : Cardinality(Within(sends[k], t)) <= PromptMax + freed[k]
  <2>1. PICK S : S = sends[k] /\ S = sends'[k]
    BY <1>1
  <2>2. PICK b \in Nat : b = PromptMax + freed[k]
    BY <1>2, BudgetOf
  <2>3. /\ Counted(S) /\ \A t \in 0..now : Cardinality(Within(S, t)) <= b
        /\ Cardinality(Recent(S)) + Cardinality(Asking(k)) <= b
    BY <2>1, <2>2, BudgetOf
  <2>4. /\ Recent(S)' \subseteq Recent(S) /\ Cardinality(Recent(S)') <= Cardinality(Recent(S))
        /\ \A t \in 0..now' : Cardinality(Within(S, t)) <= b
    BY <1>1, <1>2, <2>3, TickWindow
  <2>5. IsFiniteSet(Recent(S)) /\ Cardinality(Recent(S)) \in Nat /\ Cardinality(Recent(S)') \in Nat
    BY <1>2, <2>3, <2>4, StampedCounted, FS_Subset, FS_CardinalityType
  <2>6. Cardinality(Recent(S)') + Cardinality(Asking(k)) <= b
    BY <2>3, <2>4, <2>5, OpenSizes
  <2>7. Recent(sends[k])' = Recent(S)'
    BY <2>1 DEF Recent
  <2>8. QED
    BY <2>1, <2>2, <2>4, <2>6, <2>7
<1>8. PromptsCounted'
  BY <1>1, <1>6, <1>7 DEF PromptsCounted
<1>9. \A n \in Names, t \in 0..now' : Cardinality(Within(shouts[n], t)) <= PublishMax
  <2>1. ASSUME NEW n \in Names
        PROVE  \A t \in 0..now' : Cardinality(Within(shouts[n], t)) <= PublishMax
    <3>1. PICK S : S = shouts[n]
      OBVIOUS
    <3>2. Counted(S) /\ \A t \in 0..now : Cardinality(Within(S, t)) <= PublishMax
      BY <3>1 DEF BridgeInv, WindowsTrue, BudgetsHold
    <3>3. \A t \in 0..now' : Cardinality(Within(S, t)) <= PublishMax
      BY <1>1, <1>2, <3>2, TickWindow
    <3>4. QED
      BY <3>1, <3>3
  <2>2. QED
    BY <2>1
<1>10. BudgetsHold'
  <2>1. \A k \in Keys : Cardinality(Open(k)) <= freed[k] + (IF rate[k].inFlight THEN 1 ELSE 0)
    BY BudgetOf
  <2>2. QED
    BY <1>1, <1>6, <1>7, <1>9, <2>1 DEF BudgetsHold
<1>11. QED
  BY <1>3, <1>4, <1>5, <1>8, <1>10 DEF BridgeInv

-----------------------------------------------------------------------------
(* The bridge is honest.                                                   *)

LEMMA InitKeeps == Init => BridgeInv
<1> SUFFICES ASSUME Init PROVE BridgeInv
  OBVIOUS
<1>1. /\ now = 0 /\ subs = {} /\ granted \in [Names -> Manifests]
      /\ frame = [f \in Frames |-> [mount |-> 0, tab |-> NoTab, channels |-> {}]]
      /\ rate = [k \in Keys |-> [stamps |-> {}, inFlight |-> FALSE]]
      /\ pubs = [n \in Names |-> {}] /\ shouts = [n \in Names |-> {}]
      /\ job = [r \in Requests |-> Idle]
      /\ heard = [f \in Frames |-> {}]
      /\ sends = [k \in Keys |-> {}] /\ freed = [k \in Keys |-> 0]
  BY DEF Init
<1>2. \A f \in Frames : ~ Mounted(f)
  BY <1>1 DEF Mounted
<1>3. \A r \in Requests : job[r] = Idle
  BY <1>1
<1>4. TypeOK
  <2>1. job \in [Requests -> [by : Bridges \cup {Form(k) : k \in Forms} \cup {Nobody},
                             kind : {"none", "theme", "data", "state", "prompt"}, at : Steps,
                             timer : BOOLEAN, told : Seq(Answers)]]
    BY <1>1, IdleJob DEF Job
  <2>2. frame \in [Frames -> [mount : 0..MaxMounts, tab : Tabs \cup {NoTab},
                              channels : SUBSET Channels]]
    BY <1>1, BridgeAssumption
  <2>3. rate \in [Keys -> [stamps : SUBSET Stamps, inFlight : BOOLEAN]]
    BY <1>1
  <2>4. now \in 0..MaxTime
    BY <1>1, BridgeAssumption
  <2>5. /\ subs \subseteq [tab : Tabs, channel : Channels, who : Bridges]
        /\ pubs \in [Names -> SUBSET Stamps] /\ shouts \in [Names -> SUBSET Stamps]
        /\ heard \in [Frames -> SUBSET [tab : Tabs, channel : Channels]]
        /\ sends \in [Keys -> SUBSET Stamps] /\ freed \in [Keys -> Nat]
    BY <1>1
  <2>6. QED
    BY <1>1, <2>1, <2>2, <2>3, <2>4, <2>5 DEF TypeOK
<1>5. JobsFit /\ AnsweredOnce
  BY <1>3, IdleJob DEF JobsFit, AnsweredOnce
<1>6. FramesFit /\ NothingDangles
  BY <1>1, <1>2 DEF FramesFit, NothingDangles
<1>7. Recent({}) = {} /\ \A t : Within({}, t) = {}
  BY DEF Recent, Within
<1>8. Cardinality({}) = 0 /\ IsFiniteSet({})
  BY FS_EmptySet
<1>9. WindowsTrue
  BY <1>1, <1>7, <1>8 DEF WindowsTrue, Counted
<1>10. \A k \in Keys : Open(k) = {} /\ Asking(k) = {}
  BY <1>3, IdleJob DEF Open, Asking
<1>11. /\ \A k \in Keys : sends[k] = {} /\ freed[k] = 0
       /\ \A n \in Names : shouts[n] = {}
       /\ PromptMax \in Nat /\ PublishMax \in Nat
  BY <1>1, BridgeAssumption
<1>12. PromptsCounted
  <2>1. ASSUME NEW k \in Keys
        PROVE  /\ Cardinality(Recent(sends[k])) = 0 /\ Cardinality(Asking(k)) = 0
               /\ freed[k] = 0
    BY <1>7, <1>8, <1>10, <1>11
  <2>2. QED
    BY <1>11, <2>1 DEF PromptsCounted
<1>13. BudgetsHold
  <2>1. \A k \in Keys : /\ Cardinality(Open(k)) = 0 /\ freed[k] = 0
                        /\ \A t : Cardinality(Within(sends[k], t)) = 0
    BY <1>7, <1>8, <1>10, <1>11
  <2>2. \A n \in Names : \A t : Cardinality(Within(shouts[n], t)) = 0
    BY <1>7, <1>8, <1>11
  <2>3. QED
    BY <1>11, <2>1, <2>2 DEF BudgetsHold
<1>14. QED
  BY <1>4, <1>5, <1>6, <1>9, <1>12, <1>13 DEF BridgeInv

LEMMA StutterKeeps == ASSUME BridgeInv, UNCHANGED vars PROVE BridgeInv'
<1>1. UNCHANGED <<granted, now, frame, subs, rate, pubs, job, heard, sends, shouts, freed, history>>
  BY DEF vars, history
<1>2. TypeOK'
  BY <1>1 DEF BridgeInv, TypeOK
<1>3. JobsFit' /\ AnsweredOnce'
  <2>1. \A b \in Bridges : Disposed(b)' <=> Disposed(b)
    BY <1>1 DEF Disposed, Mounted
  <2>2. QED
    BY <1>1, <2>1, JobsKept
<1>4. FramesFit' /\ NothingDangles'
  BY <1>1 DEF BridgeInv, FramesFit, NothingDangles, Mounted, Bridge
<1>5. QED
  BY <1>1, <1>2, <1>3, <1>4, BudgetsKept DEF BridgeInv

\* Every step of every frame, every request and the clock keeps the invariant.
LEMMA StepKeeps == BridgeInv /\ [Next]_vars => BridgeInv'
<1> SUFFICES ASSUME BridgeInv, [Next]_vars PROVE BridgeInv'
  OBVIOUS
<1>1. ASSUME NEW f \in Frames, FrameStep(f) PROVE BridgeInv'
  BY <1>1, MountKeeps, DetachKeeps, SubscribeKeeps, PublishKeeps, PublishRefusedKeeps
     DEF FrameStep
<1>2. ASSUME NEW r \in Requests, Ask(r) PROVE BridgeInv'
  <2>1. ASSUME NEW f \in Frames,
               \/ GetTheme(f, r)
               \/ \E allowed \in BOOLEAN : GetData(f, r, allowed)
               \/ UseState(f, r)
               \/ SendPromptDenied(f, r)
        PROVE  BridgeInv'
    BY <2>1, GetThemeKeeps
  <2>2. ASSUME NEW f \in Frames, SendPrompt(f, r) PROVE BridgeInv'
    <3>1. Bridge(f) \in Askers
      BY <2>2 DEF SendPrompt, BridgeInv, FramesFit, Askers
    <3>2. QED
      BY <2>2, <3>1, GateKeeps DEF SendPrompt
  <2>3. ASSUME NEW k \in Forms, SubmitForm(k, r) PROVE BridgeInv'
    BY <2>3, GateKeeps DEF SubmitForm, Askers
  <2>4. QED
    BY <1>2, <2>1, <2>2, <2>3 DEF Ask
<1>3. ASSUME NEW r \in Requests, Answer(r) PROVE BridgeInv'
  BY <1>3, ResolveKeeps, DeclineKeeps, ConfirmKeeps DEF Answer
<1>4. QED
  BY <1>1, <1>2, <1>3, TickKeeps, StutterKeeps DEF Next

\* What the bridge keeps of the page at every moment is an invariant of it.
THEOREM BridgeInvariant == Spec => []BridgeInv
  BY InitKeeps, StepKeeps, PTL DEF Spec

\* A request is answered once at most and keeps no timer after it, the bus holds
\* exactly what the bridges of the page hold, and no window holds more than the
\* budget of its name but for the dispatches a dispose freed the lock of, for any
\* number of frames, forms, names, requests and mounts (bridge.ts, prompt-gate.ts).
THEOREM BridgeHonestHolds == Spec => []BridgeHonest
  BY BridgeInvariant, BridgeInvHonest, PTL
=============================================================================

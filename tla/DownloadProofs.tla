--------------------------- MODULE DownloadProofs ---------------------------
(***************************************************************************)
(* Proofs about downloads, for every set of downloads, every host and      *)
(* every length of the main queue.                                         *)
(***************************************************************************)
EXTENDS Download, SequenceTheorems, TLAPS

USE HostAssumption, MaxQueueAssumption

(***************************************************************************)
(* The inductive invariant.  What a block will do when it runs depends on  *)
(* what is still behind it in the queue: the question about a download     *)
(* comes once and before the report of its end, and a report of an end is  *)
(* never false.                                                            *)
(***************************************************************************)
QuestionsAreNew(q, it, h, dl) ==
    \A i \in DOMAIN q : q[i].op = "before" =>
        it[q[i].of].asked /\ h[q[i].of].state = "none" /\ q[i].of \notin dl

QuestionsComeOnce(q) ==
    \A i, j \in DOMAIN q :
        q[i].op = "before" /\ q[j].op = "before" /\ q[i].of = q[j].of => i = j

EndsAreTrue(q, it) ==
    \A i \in DOMAIN q : q[i].op = "tick" /\ q[i].state \in Ends => it[q[i].of].state = q[i].state

EndsComeLater(q, it) ==
    \A i \in DOMAIN q : q[i].op = "before" /\ it[q[i].of].state \in Ends =>
        \E j \in DOMAIN q : i < j /\ q[j] = Tick(q[i].of, it[q[i].of].state)

QueueOk(q, it, h, dl) ==
    /\ QuestionsAreNew(q, it, h, dl)
    /\ QuestionsComeOnce(q)
    /\ EndsAreTrue(q, it)
    /\ EndsComeLater(q, it)

UnaskedHasNoHandle ==
    \A d \in Downloads : ~item[d].asked => handle[d].state = "none" /\ d \notin downloads

TrackedIsOpen == \A d \in downloads : handle[d].state \notin Ends

IInv ==
    /\ TypeOK
    /\ QueueOk(queue, item, handle, downloads)
    /\ UnaskedHasNoHandle /\ TrackedIsOpen
    /\ NoFalseEnd /\ FinishedIsDropped /\ DroppedIsOver

-----------------------------------------------------------------------------
(***************************************************************************)
(* The main queue.                                                         *)
(***************************************************************************)
\* Appending to a queue leaves what it holds in place.
LEMMA AppendAt ==
    ASSUME NEW S, NEW q \in Seq(S), NEW b \in S
    PROVE  /\ Append(q, b) \in Seq(S)
           /\ DOMAIN Append(q, b) = DOMAIN q \cup {Len(q) + 1}
           /\ Append(q, b)[Len(q) + 1] = b
           /\ Len(q) + 1 \in Nat
           /\ \A i \in DOMAIN q : i \in Nat /\ i < Len(q) + 1 /\ Append(q, b)[i] = q[i]
  OBVIOUS

\* Taking the head of a queue moves everything else one place ahead.
LEMMA TailAt ==
    ASSUME NEW S, NEW q \in Seq(S), q # <<>>
    PROVE  /\ Head(q) = q[1] /\ 1 \in DOMAIN q /\ Head(q) \in S
           /\ Tail(q) \in Seq(S)
           /\ \A i \in DOMAIN Tail(q) :
                 i \in Nat \ {0} /\ i + 1 \in DOMAIN q /\ Tail(q)[i] = q[i + 1]
           /\ \A j \in DOMAIN q :
                 j \in Nat /\ (j = 1 \/ (j - 1 \in DOMAIN Tail(q) /\ Tail(q)[j - 1] = q[j]))
  OBVIOUS

\* Running a block leaves the rest of the queue well-formed.
LEMMA TailOk ==
    ASSUME NEW q \in Seq(Blocks), q # <<>>, NEW it, NEW h, NEW dl, QueueOk(q, it, h, dl)
    PROVE  QueueOk(Tail(q), it, h, dl)
<1> DEFINE t == Tail(q)
<1>1. /\ \A i \in DOMAIN t : i \in Nat \ {0} /\ i + 1 \in DOMAIN q /\ t[i] = q[i + 1]
      /\ \A j \in DOMAIN q : j \in Nat /\ (j = 1 \/ (j - 1 \in DOMAIN t /\ t[j - 1] = q[j]))
  BY TailAt
<1> HIDE DEF t
<1>2. QuestionsAreNew(t, it, h, dl) /\ EndsAreTrue(t, it)
  BY <1>1 DEF QueueOk, QuestionsAreNew, EndsAreTrue
<1>3. QuestionsComeOnce(t)
  <2> SUFFICES ASSUME NEW i \in DOMAIN t, NEW j \in DOMAIN t,
                      t[i].op = "before", t[j].op = "before", t[i].of = t[j].of
               PROVE  i = j
    BY DEF QuestionsComeOnce
  <2>1. i + 1 = j + 1
    BY <1>1 DEF QueueOk, QuestionsComeOnce
  <2> QED BY <1>1, <2>1
<1>4. EndsComeLater(t, it)
  <2> SUFFICES ASSUME NEW i \in DOMAIN t, t[i].op = "before", it[t[i].of].state \in Ends
               PROVE  \E j \in DOMAIN t : i < j /\ t[j] = Tick(t[i].of, it[t[i].of].state)
    BY DEF EndsComeLater
  <2>1. i \in Nat \ {0} /\ i + 1 \in DOMAIN q /\ t[i] = q[i + 1]
    BY <1>1
  <2>2. PICK j \in DOMAIN q : i + 1 < j /\ q[j] = Tick(t[i].of, it[t[i].of].state)
    BY <2>1 DEF QueueOk, EndsComeLater
  <2>3. j \in Nat /\ j - 1 \in DOMAIN t /\ t[j - 1] = q[j] /\ i < j - 1
    BY <1>1, <2>1, <2>2
  <2> QED BY <2>2, <2>3
<1> QED BY <1>2, <1>3, <1>4 DEF QueueOk, t

\* A true report may join the queue at any time.
LEMMA AppendTickOk ==
    ASSUME NEW q \in Seq(Blocks), NEW it, NEW h, NEW dl, QueueOk(q, it, h, dl),
           NEW d \in Downloads, NEW s \in States, s \in Ends => it[d].state = s
    PROVE  QueueOk(Append(q, Tick(d, s)), it, h, dl)
<1> DEFINE r == Append(q, Tick(d, s))
           n == Len(q) + 1
<1>1. Tick(d, s) \in Blocks
  BY DEF Tick, Blocks
<1>2. /\ DOMAIN r = DOMAIN q \cup {n}
      /\ r[n] = Tick(d, s)
      /\ \A i \in DOMAIN q : i \in Nat /\ i < n /\ r[i] = q[i]
  BY <1>1, AppendAt
<1>3. Tick(d, s).op = "tick" /\ Tick(d, s).of = d /\ Tick(d, s).state = s
  BY DEF Tick
<1> HIDE DEF r, n
<1>4. \A i \in DOMAIN r : r[i].op = "before" => i \in DOMAIN q /\ r[i] = q[i]
  BY <1>2, <1>3
<1>5. QuestionsAreNew(r, it, h, dl) /\ QuestionsComeOnce(r)
  BY <1>4 DEF QueueOk, QuestionsAreNew, QuestionsComeOnce
<1>6. EndsAreTrue(r, it)
  BY <1>2, <1>3 DEF QueueOk, EndsAreTrue
<1>7. EndsComeLater(r, it)
  <2> SUFFICES ASSUME NEW i \in DOMAIN r, r[i].op = "before", it[r[i].of].state \in Ends
               PROVE  \E j \in DOMAIN r : i < j /\ r[j] = Tick(r[i].of, it[r[i].of].state)
    BY DEF EndsComeLater
  <2>1. i \in DOMAIN q /\ r[i] = q[i]
    BY <1>4
  <2>2. PICK j \in DOMAIN q : i < j /\ q[j] = Tick(q[i].of, it[q[i].of].state)
    BY <2>1 DEF QueueOk, EndsComeLater
  <2> QED BY <1>2, <2>1, <2>2
<1> QED BY <1>5, <1>6, <1>7 DEF QueueOk, r

\* What the host does to a handle or asks of CEF does not concern the queue.
LEMMA FrameOk ==
    ASSUME NEW q \in Seq(Blocks), NEW it, NEW h, NEW dl, QueueOk(q, it, h, dl),
           NEW it2, NEW h2, NEW dl2, dl2 \subseteq dl,
           \A d \in Downloads : /\ it2[d].state = it[d].state /\ it2[d].asked = it[d].asked
                                /\ h2[d].state = h[d].state
    PROVE  QueueOk(q, it2, h2, dl2)
<1>1. \A i \in DOMAIN q : q[i].of \in Downloads
  <2>1. \A b \in Blocks : b.of \in Downloads
    BY DEF Blocks
  <2>2. \A i \in DOMAIN q : q[i] \in Blocks
    OBVIOUS
  <2> QED BY <2>1, <2>2
<1> QED BY <1>1 DEF QueueOk, QuestionsAreNew, QuestionsComeOnce, EndsAreTrue, EndsComeLater

-----------------------------------------------------------------------------
(***************************************************************************)
(* The invariant.                                                          *)
(***************************************************************************)
LEMMA TypeInit == Init => TypeOK
  BY DEF Init, TypeOK, Items, Handles, States, Ends, Blocks

LEMMA InvInit == Init => IInv
<1>1. Init => QueueOk(queue, item, handle, downloads)
  BY DEF Init, QueueOk, QuestionsAreNew, QuestionsComeOnce, EndsAreTrue, EndsComeLater
<1>2. Init => /\ UnaskedHasNoHandle /\ TrackedIsOpen
              /\ NoFalseEnd /\ FinishedIsDropped /\ DroppedIsOver
  BY DEF Init, UnaskedHasNoHandle, TrackedIsOpen, NoFalseEnd, FinishedIsDropped,
         DroppedIsOver, Ends
<1> QED BY <1>1, <1>2, TypeInit DEF IInv

\* Every block that runs comes from the queue, which is left well-typed.
LEMMA BlockTypes ==
    ASSUME TypeOK, queue # <<>>
    PROVE  /\ Head(queue) \in Blocks /\ Head(queue).of \in Downloads
           /\ Head(queue).state \in States
           /\ Tail(queue) \in Seq(Blocks)
<1>1. \A b \in Blocks : b.of \in Downloads /\ b.state \in States
  BY DEF Blocks
<1> QED BY <1>1, TailAt DEF TypeOK

\* Setting a field of a record keeps its type.
LEMMA SetField ==
    /\ \A r \in Items, s \in States : [r EXCEPT !.state = s] \in Items
    /\ \A r \in Items : /\ [r EXCEPT !.asked = TRUE] \in Items
                        /\ [r EXCEPT !.continued = TRUE] \in Items
                        /\ [r EXCEPT !.cancelAsked = TRUE] \in Items
                        /\ [r EXCEPT !.paused = TRUE] \in Items
                        /\ [r EXCEPT !.paused = FALSE] \in Items
    /\ \A r \in Handles, s \in States :
          [[r EXCEPT !.itemCallback = TRUE] EXCEPT !.state = s] \in Handles
    /\ \A r \in Handles : /\ [[r EXCEPT !.itemCallback = TRUE] EXCEPT !.pendingCancel = FALSE] \in Handles
                          /\ [r EXCEPT !.pendingCancel = TRUE] \in Handles
  BY DEF Items, Handles

LEMMA TypeStep == TypeOK /\ [Next]_vars => TypeOK'
<1> SUFFICES ASSUME TypeOK, [Next]_vars PROVE TypeOK'
  OBVIOUS
<1> USE DEF TypeOK
<1>1. ASSUME NEW d \in Downloads, DownloadStarts(d) PROVE TypeOK'
  <2>1. item' \in [Downloads -> Items]
    BY <1>1, SetField DEF DownloadStarts, States
  <2> QED BY <1>1, <2>1 DEF DownloadStarts, hostVars
<1>2. ASSUME NEW d \in Downloads, OnBeforeDownload(d) PROVE TypeOK'
  <2>1. Before(d) \in Blocks
    BY DEF Before, Blocks, States
  <2>2. item' \in [Downloads -> Items]
    BY <1>2, SetField DEF OnBeforeDownload
  <2> QED BY <1>2, <2>1, <2>2, AppendAt DEF OnBeforeDownload, hostVars
<1>3. ASSUME NEW d \in Downloads, OnProgress(d) PROVE TypeOK'
  <2>1. item[d].state \in States
    BY DEF Items
  <2>2. Tick(d, item[d].state) \in Blocks
    BY <2>1 DEF Tick, Blocks
  <2> QED BY <1>3, <2>2, AppendAt DEF OnProgress, hostVars
<1>4. ASSUME NEW d \in Downloads, NEW end \in Ends, OnEnd(d, end) PROVE TypeOK'
  <2>1. Tick(d, end) \in Blocks /\ end \in States
    BY DEF Tick, Blocks, States
  <2>2. item' \in [Downloads -> Items]
    BY <1>4, <2>1, SetField DEF OnEnd
  <2> QED BY <1>4, <2>1, <2>2, AppendAt DEF OnEnd, hostVars
<1>5. CASE BlockForNobody
  BY <1>5, BlockTypes DEF BlockForNobody, hostVars
<1>6. CASE BeforeDownload
  <2>1. \A b \in BOOLEAN :
           [state |-> "running", itemCallback |-> FALSE, pendingCancel |-> b] \in Handles
    BY DEF Handles, States
  <2>2. handle' \in [Downloads -> Handles]
    BY <1>6, <2>1 DEF BeforeDownload
  <2>3. queue # <<>> /\ Head(queue).of \in Downloads /\ queue' \in Seq(Blocks)
    BY <1>6, BlockTypes DEF BeforeDownload, NextBlock
  <2>4. choosing' \subseteq held' /\ held' \subseteq Downloads /\ rejected' \subseteq Downloads
        /\ downloads' \subseteq Downloads /\ held \subseteq held'
    BY <1>6, <2>3 DEF BeforeDownload
  <2> QED BY <1>6, <2>2, <2>3, <2>4 DEF BeforeDownload
<1>7. CASE UntrackedUpdate
  BY <1>7, BlockTypes DEF UntrackedUpdate, NextBlock, hostVars
<1>8. CASE DeferredCancel
  <2>1. item' \in [Downloads -> Items] /\ handle' \in [Downloads -> Handles]
    BY <1>8, SetField DEF DeferredCancel
  <2> QED BY <1>8, <2>1, BlockTypes DEF DeferredCancel, NextBlock, hostVars
<1>9. CASE DownloadUpdated
  <2> DEFINE d == Head(queue).of
  <2>1. queue # <<>> /\ d \in Downloads /\ Head(queue).state \in States
    BY <1>9, BlockTypes DEF DownloadUpdated, NextBlock
  <2>2. Updated(handle[d], Head(queue).state) \in Handles
    BY <2>1, SetField DEF Updated
  <2>3. handle' \in [Downloads -> Handles]
    BY <1>9, <2>1, <2>2 DEF DownloadUpdated
  <2> QED BY <1>9, <2>1, <2>3, BlockTypes DEF DownloadUpdated, NextBlock, Tracked, hostVars
<1>10. ASSUME NEW d \in Downloads,
              ChooseDestination(d) \/ ChooseNil(d) \/ Cancel(d) \/ Pause(d) \/ Resume(d)
       PROVE  TypeOK'
  <2>1. CASE ChooseDestination(d)
    <3>1. item' \in [Downloads -> Items]
      BY <2>1, SetField DEF ChooseDestination
    <3> QED BY <2>1, <3>1 DEF ChooseDestination
  <2>2. CASE ChooseNil(d)
    <3>1. handle' \in [Downloads -> Handles]
      BY <2>2, SetField DEF ChooseNil
    <3> QED BY <2>2, <3>1 DEF ChooseNil
  <2>3. CASE Cancel(d)
    <3>1. item' \in [Downloads -> Items]
      BY <2>3, SetField DEF Cancel
    <3>2. [handle EXCEPT ![d].pendingCancel = TRUE] \in [Downloads -> Handles]
      BY SetField
    <3>3. handle' = handle \/ handle' = [handle EXCEPT ![d].pendingCancel = TRUE]
      BY <2>3 DEF Cancel
    <3> QED BY <2>3, <3>1, <3>2, <3>3 DEF Cancel
  <2>4. ASSUME NEW paused \in BOOLEAN, SetPaused(d, paused)
        PROVE  item' \in [Downloads -> Items]
    <3>1. CASE paused = TRUE
      BY <2>4, <3>1, SetField DEF SetPaused
    <3>2. CASE paused = FALSE
      BY <2>4, <3>2, SetField DEF SetPaused
    <3> QED BY <3>1, <3>2
  <2>5. CASE Pause(d)
    BY <2>4, <2>5 DEF Pause
  <2>6. CASE Resume(d)
    BY <2>4, <2>6 DEF Resume
  <2> QED BY <1>10, <2>1, <2>2, <2>3, <2>5, <2>6
<1>11. CASE ViewDealloc
  BY <1>11 DEF ViewDealloc, hostVars
<1>12. CASE UNCHANGED vars
  BY <1>12 DEF vars, hostVars
<1> QED
  BY <1>1, <1>2, <1>3, <1>4, <1>5, <1>6, <1>7, <1>8, <1>9, <1>10, <1>11, <1>12
  DEF Next, RunBlock

\* The type invariant: in particular only a handle the delegate has received
\* can be paused or be waiting for a destination.
THEOREM TypeCorrect == Spec => []TypeOK
  BY TypeInit, TypeStep, PTL DEF Spec

\* The parts of the invariant that are about handles, after a step that leaves
\* the state of every item and handle alone, and _downloads too.
LEMMA QuietStep ==
    ASSUME IInv, TypeOK',
           \A d \in Downloads : /\ item'[d].state = item[d].state
                                /\ item'[d].asked = item[d].asked
                                /\ item[d].cancelAsked => item'[d].cancelAsked
                                /\ handle'[d].state = handle[d].state,
           downloads' = downloads, viewAlive' => viewAlive,
           queue' = queue
    PROVE  IInv'
<1>1. QueueOk(queue, item, handle, downloads)'
  BY FrameOk DEF IInv, TypeOK
<1>2. UnaskedHasNoHandle' /\ TrackedIsOpen' /\ NoFalseEnd' /\ DroppedIsOver'
  BY DEF IInv, UnaskedHasNoHandle, TrackedIsOpen, NoFalseEnd, DroppedIsOver, TypeOK
<1>3. FinishedIsDropped'
  BY DEF IInv, FinishedIsDropped, TypeOK, Queued
<1> QED BY <1>1, <1>2, <1>3 DEF IInv

\* CEF's steps.
LEMMA CefStep ==
    ASSUME IInv, TypeOK', NEW d \in Downloads,
           \/ DownloadStarts(d) \/ OnBeforeDownload(d) \/ OnProgress(d)
           \/ \E end \in Ends : OnEnd(d, end)
    PROVE  IInv'
<1> USE DEF IInv
<1>1. CASE DownloadStarts(d)
  <2>1. /\ queue' = queue /\ handle' = handle /\ downloads' = downloads
        /\ viewAlive' = viewAlive
        /\ item[d].state = "none" /\ item'[d].state = "running"
        /\ \A e \in Downloads : /\ item'[e].asked = item[e].asked
                                /\ item'[e].cancelAsked = item[e].cancelAsked
                                /\ e # d => item'[e].state = item[e].state
    BY <1>1 DEF DownloadStarts, TypeOK, Items, hostVars
  <2>2. \A i \in DOMAIN queue : queue[i].of \in Downloads
    <3>1. \A b \in Blocks : b.of \in Downloads
      BY DEF Blocks
    <3> QED BY <3>1 DEF TypeOK
  <2>3. QueueOk(queue, item, handle, downloads)'
    BY <2>1, <2>2 DEF QueueOk, QuestionsAreNew, QuestionsComeOnce, EndsAreTrue,
                      EndsComeLater, Ends
  <2>4. UnaskedHasNoHandle' /\ TrackedIsOpen' /\ NoFalseEnd' /\ DroppedIsOver'
    BY <2>1 DEF UnaskedHasNoHandle, TrackedIsOpen, NoFalseEnd, DroppedIsOver, Ends
  <2>5. FinishedIsDropped'
    BY <2>1 DEF FinishedIsDropped, Queued, TypeOK, Ends
  <2> QED BY <2>3, <2>4, <2>5
<1>2. CASE OnBeforeDownload(d)
  <2> DEFINE n == Len(queue) + 1
  <2>1. Before(d) \in Blocks /\ Before(d).op = "before" /\ Before(d).of = d
    BY DEF Before, Blocks, States
  <2>2. /\ DOMAIN queue' = DOMAIN queue \cup {n} /\ queue'[n] = Before(d)
        /\ \A i \in DOMAIN queue : i \in Nat /\ i < n /\ queue'[i] = queue[i]
    BY <1>2, <2>1, AppendAt DEF OnBeforeDownload, TypeOK
  <2>3. /\ handle' = handle /\ downloads' = downloads /\ viewAlive' = viewAlive
        /\ item[d].state = "running" /\ ~item[d].asked /\ item'[d].asked
        /\ \A e \in Downloads : /\ item'[e].state = item[e].state
                                /\ item'[e].cancelAsked = item[e].cancelAsked
                                /\ e # d => item'[e].asked = item[e].asked
    <3>1. item' = [item EXCEPT ![d].asked = TRUE] /\ item \in [Downloads -> Items]
      BY <1>2 DEF OnBeforeDownload, TypeOK
    <3>2. \A e \in Downloads : e # d => item'[e] = item[e]
      BY <3>1
    <3>3. item'[d] = [item[d] EXCEPT !.asked = TRUE] /\ item[d] \in Items
      BY <3>1
    <3>4. /\ item'[d].state = item[d].state /\ item'[d].asked = TRUE
          /\ item'[d].cancelAsked = item[d].cancelAsked
      BY <3>3 DEF Items
    <3> QED BY <1>2, <3>2, <3>4 DEF OnBeforeDownload, hostVars
  <2>4. handle[d].state = "none" /\ d \notin downloads
    BY <2>3 DEF UnaskedHasNoHandle
  <2>5. \A i \in DOMAIN queue : queue[i].of \in Downloads
    <3>1. \A b \in Blocks : b.of \in Downloads
      BY DEF Blocks
    <3> QED BY <3>1 DEF TypeOK
  <2>6. \A i \in DOMAIN queue : queue[i].op = "before" => queue[i].of # d
    BY <2>3 DEF QueueOk, QuestionsAreNew
  <2> HIDE DEF n
  <2>7. QuestionsAreNew(queue, item, handle, downloads)'
    BY <2>1, <2>2, <2>3, <2>4, <2>5 DEF QueueOk, QuestionsAreNew
  <2>8. QuestionsComeOnce(queue')
    BY <2>1, <2>2, <2>6 DEF QueueOk, QuestionsComeOnce
  <2>9. EndsAreTrue(queue', item')
    BY <2>1, <2>2, <2>3, <2>5 DEF QueueOk, EndsAreTrue
  <2>10. EndsComeLater(queue', item')
    BY <2>1, <2>2, <2>3, <2>5 DEF QueueOk, EndsComeLater, Ends
  <2>11. UnaskedHasNoHandle' /\ TrackedIsOpen' /\ NoFalseEnd' /\ DroppedIsOver'
    BY <2>3 DEF UnaskedHasNoHandle, TrackedIsOpen, NoFalseEnd, DroppedIsOver
  <2>12. FinishedIsDropped'
    BY <2>2, <2>3 DEF FinishedIsDropped, Queued, TypeOK
  <2> QED BY <2>7, <2>8, <2>9, <2>10, <2>11, <2>12 DEF QueueOk
<1>3. CASE OnProgress(d)
  <2>1. item[d].state \in States
    BY DEF TypeOK, Items
  <2>2. /\ item' = item /\ handle' = handle /\ downloads' = downloads
        /\ viewAlive' = viewAlive /\ queue' = Append(queue, Tick(d, item[d].state))
    BY <1>3 DEF OnProgress, hostVars
  <2>3. QueueOk(queue, item, handle, downloads)'
    BY <2>1, <2>2, AppendTickOk DEF TypeOK
  <2>4. Tick(d, item[d].state) \in Blocks
    BY <2>1 DEF Tick, Blocks
  <2>5. \A i \in DOMAIN queue : i \in DOMAIN queue' /\ queue'[i] = queue[i]
    BY <2>2, <2>4, AppendAt DEF TypeOK
  <2> QED BY <2>2, <2>3, <2>5 DEF UnaskedHasNoHandle, TrackedIsOpen, NoFalseEnd,
                                  FinishedIsDropped, DroppedIsOver, Queued
<1>4. ASSUME NEW end \in Ends, OnEnd(d, end)
      PROVE  IInv'
  <2>1. /\ handle' = handle /\ downloads' = downloads /\ viewAlive' = viewAlive
        /\ queue' = Append(queue, Tick(d, end)) /\ end \in States
        /\ item[d].state = "running" /\ item'[d].state = end
        /\ \A e \in Downloads : /\ item'[e].asked = item[e].asked
                                /\ item'[e].cancelAsked = item[e].cancelAsked
                                /\ e # d => item'[e].state = item[e].state
    BY <1>4 DEF OnEnd, TypeOK, Items, hostVars, States
  <2> DEFINE n == Len(queue) + 1
  <2>2. Tick(d, end) \in Blocks /\ Tick(d, end).op = "tick"
        /\ Tick(d, end).of = d /\ Tick(d, end).state = end
    BY <2>1 DEF Tick, Blocks
  <2>3. /\ DOMAIN queue' = DOMAIN queue \cup {n} /\ queue'[n] = Tick(d, end)
        /\ \A i \in DOMAIN queue : i \in Nat /\ i < n /\ queue'[i] = queue[i]
    BY <2>1, <2>2, AppendAt DEF TypeOK
  <2>4. \A i \in DOMAIN queue : queue[i].of \in Downloads
    <3>1. \A b \in Blocks : b.of \in Downloads
      BY DEF Blocks
    <3> QED BY <3>1 DEF TypeOK
  <2>5. "running" \notin Ends
    BY DEF Ends
  <2> HIDE DEF n
  <2>6. QuestionsAreNew(queue, item, handle, downloads)' /\ QuestionsComeOnce(queue')
    BY <2>1, <2>2, <2>3, <2>4 DEF QueueOk, QuestionsAreNew, QuestionsComeOnce
  <2>7. EndsAreTrue(queue', item')
    BY <2>1, <2>2, <2>3, <2>4, <2>5 DEF QueueOk, EndsAreTrue
  <2>8. EndsComeLater(queue', item')
    <3> SUFFICES ASSUME NEW i \in DOMAIN queue', queue'[i].op = "before",
                        item'[queue'[i].of].state \in Ends
                 PROVE  \E j \in DOMAIN queue' :
                           i < j /\ queue'[j] = Tick(queue'[i].of, item'[queue'[i].of].state)
      BY DEF EndsComeLater
    <3>1. i \in DOMAIN queue /\ i < n /\ queue'[i] = queue[i] /\ queue[i].of \in Downloads
      BY <2>2, <2>3, <2>4
    <3>2. CASE queue[i].of = d
      BY <2>1, <2>3, <3>1, <3>2
    <3>3. CASE queue[i].of # d
      <4>1. PICK j \in DOMAIN queue : i < j /\ queue[j] = Tick(queue[i].of, item[queue[i].of].state)
        BY <2>1, <3>1, <3>3 DEF QueueOk, EndsComeLater
      <4> QED BY <2>1, <2>3, <3>1, <3>3, <4>1
    <3> QED BY <3>2, <3>3
  <2>9. UnaskedHasNoHandle' /\ TrackedIsOpen' /\ NoFalseEnd' /\ DroppedIsOver'
    BY <2>1, <2>5 DEF UnaskedHasNoHandle, TrackedIsOpen, NoFalseEnd, DroppedIsOver
  <2>10. FinishedIsDropped'
    BY <2>1, <2>3, SMTT(30) DEF FinishedIsDropped, Queued, TypeOK
  <2> QED BY <2>6, <2>7, <2>8, <2>9, <2>10 DEF QueueOk
<1> QED BY <1>1, <1>2, <1>3, <1>4

\* Setting a flag of an item or a handle leaves its state alone.
LEMMA FlagsOnly ==
    /\ \A r \in Items : /\ [r EXCEPT !.continued = TRUE].state = r.state
                        /\ [r EXCEPT !.continued = TRUE].asked = r.asked
                        /\ [r EXCEPT !.continued = TRUE].cancelAsked = r.cancelAsked
                        /\ [r EXCEPT !.cancelAsked = TRUE].state = r.state
                        /\ [r EXCEPT !.cancelAsked = TRUE].asked = r.asked
                        /\ [r EXCEPT !.cancelAsked = TRUE].cancelAsked = TRUE
    /\ \A r \in Items : /\ [r EXCEPT !.paused = TRUE].state = r.state
                        /\ [r EXCEPT !.paused = TRUE].asked = r.asked
                        /\ [r EXCEPT !.paused = TRUE].cancelAsked = r.cancelAsked
                        /\ [r EXCEPT !.paused = FALSE].state = r.state
                        /\ [r EXCEPT !.paused = FALSE].asked = r.asked
                        /\ [r EXCEPT !.paused = FALSE].cancelAsked = r.cancelAsked
    /\ \A r \in Handles :
          /\ [r EXCEPT !.pendingCancel = TRUE].state = r.state
          /\ [[r EXCEPT !.itemCallback = TRUE] EXCEPT !.pendingCancel = FALSE].state = r.state
    /\ \A r \in Handles, s \in States :
          [[r EXCEPT !.itemCallback = TRUE] EXCEPT !.state = s].state = s
  BY DEF Items, Handles

\* The host's steps and the delegate's answers.
LEMMA HostStep ==
    ASSUME IInv, TypeOK', NEW d \in Downloads,
           ChooseDestination(d) \/ ChooseNil(d) \/ Cancel(d) \/ Pause(d) \/ Resume(d)
    PROVE  IInv'
<1>1. item \in [Downloads -> Items] /\ handle \in [Downloads -> Handles]
  BY DEF IInv, TypeOK
<1>2. downloads' = downloads /\ viewAlive' = viewAlive /\ queue' = queue
  BY DEF ChooseDestination, ChooseNil, Cancel, Pause, Resume
<1>3. \/ item' = item
      \/ item' = [item EXCEPT ![d].continued = TRUE]
      \/ item' = [item EXCEPT ![d].cancelAsked = TRUE]
      \/ item' = [item EXCEPT ![d].paused = TRUE]
      \/ item' = [item EXCEPT ![d].paused = FALSE]
  BY DEF ChooseDestination, ChooseNil, Cancel, Pause, Resume, SetPaused
<1>4. handle' = handle \/ handle' = [handle EXCEPT ![d].pendingCancel = TRUE]
  BY DEF ChooseDestination, ChooseNil, Cancel, Pause, Resume
<1>5. ASSUME NEW e \in Downloads
      PROVE  /\ item'[e].state = item[e].state /\ item'[e].asked = item[e].asked
             /\ item[e].cancelAsked => item'[e].cancelAsked
  <2>1. \/ item'[e] = item[e]
        \/ item'[e] = [item[e] EXCEPT !.continued = TRUE]
        \/ item'[e] = [item[e] EXCEPT !.cancelAsked = TRUE]
        \/ item'[e] = [item[e] EXCEPT !.paused = TRUE]
        \/ item'[e] = [item[e] EXCEPT !.paused = FALSE]
    BY <1>1, <1>3
  <2>2. item[e] \in Items
    BY <1>1
  <2>3. CASE item'[e] = [item[e] EXCEPT !.continued = TRUE]
    BY <2>2, <2>3, FlagsOnly
  <2>4. CASE item'[e] = [item[e] EXCEPT !.cancelAsked = TRUE]
    BY <2>2, <2>4, FlagsOnly
  <2>5. CASE item'[e] = [item[e] EXCEPT !.paused = TRUE]
    BY <2>2, <2>5, FlagsOnly
  <2>6. CASE item'[e] = [item[e] EXCEPT !.paused = FALSE]
    BY <2>2, <2>6, FlagsOnly
  <2> QED BY <2>1, <2>3, <2>4, <2>5, <2>6
<1>6. ASSUME NEW e \in Downloads
      PROVE  handle'[e].state = handle[e].state
  <2>1. handle'[e] = handle[e] \/ handle'[e] = [handle[e] EXCEPT !.pendingCancel = TRUE]
    BY <1>1, <1>4
  <2> QED BY <1>1, <2>1, FlagsOnly
<1> QED BY <1>2, <1>5, <1>6, QuietStep

\* The blocks of the main queue.
LEMMA BlockStep ==
    ASSUME IInv, TypeOK', RunBlock
    PROVE  IInv'
<1>1. /\ queue # <<>> /\ queue' = Tail(queue)
      /\ Head(queue).of \in Downloads /\ Head(queue).state \in States
      /\ item \in [Downloads -> Items] /\ handle \in [Downloads -> Handles]
      /\ queue \in Seq(Blocks) /\ queue' \in Seq(Blocks)
  <2>1. queue # <<>> /\ queue' = Tail(queue)
    BY DEF RunBlock, BlockForNobody, BeforeDownload, UntrackedUpdate, DeferredCancel,
           DownloadUpdated, NextBlock
  <2> QED BY <2>1, BlockTypes DEF IInv, TypeOK
<1>2. /\ Head(queue) = queue[1] /\ 1 \in DOMAIN queue
      /\ \A i \in DOMAIN queue' :
            i \in Nat \ {0} /\ i + 1 \in DOMAIN queue /\ queue'[i] = queue[i + 1]
      /\ \A j \in DOMAIN queue :
            j \in Nat /\ (j = 1 \/ (j - 1 \in DOMAIN queue' /\ queue'[j - 1] = queue[j]))
  BY <1>1, TailAt
<1>3. QueueOk(queue', item, handle, downloads)
  BY <1>1, TailOk DEF IInv
<1>4. \A i \in DOMAIN queue' : queue'[i].of \in Downloads
  <2>1. \A b \in Blocks : b.of \in Downloads
    BY DEF Blocks
  <2> QED BY <1>1, <2>1
<1>5. \A b : Queued(b) /\ b # Head(queue) => Queued(b)'
  BY <1>2 DEF Queued
<1>6. \A e, t : Tick(e, t).op = "tick" /\ Tick(e, t).of = e /\ Tick(e, t).state = t
  BY DEF Tick
<1>d. PICK d \in Downloads, s \in States : d = Head(queue).of /\ s = Head(queue).state
  BY <1>1
<1> USE <1>d DEF IInv
<1>7. CASE BlockForNobody
  <2>1. UNCHANGED <<item, handle, downloads, viewAlive>> /\ ~viewAlive
    BY <1>7 DEF BlockForNobody
  <2> QED BY <1>3, <2>1 DEF UnaskedHasNoHandle, TrackedIsOpen, NoFalseEnd,
                            FinishedIsDropped, DroppedIsOver
<1>8. CASE UntrackedUpdate
  <2>1. UNCHANGED <<item, handle, downloads, viewAlive>> /\ d \notin downloads
    BY <1>8 DEF UntrackedUpdate
  <2>2. FinishedIsDropped'
    BY <1>5, <1>6, <2>1 DEF FinishedIsDropped
  <2> QED BY <1>3, <2>1, <2>2 DEF UnaskedHasNoHandle, TrackedIsOpen, NoFalseEnd,
                                  DroppedIsOver
<1>9. CASE BeforeDownload
  <2>1. /\ UNCHANGED <<item, viewAlive>> /\ downloads' = downloads \cup {d}
        /\ Head(queue).op = "before"
        /\ \A e \in Downloads : e # d => handle'[e] = handle[e]
        /\ handle'[d].state = "running"
    BY <1>1, <1>9 DEF BeforeDownload, NextBlock
  <2>2. item[d].asked /\ handle[d].state = "none" /\ d \notin downloads
    BY <1>2, <2>1 DEF QueueOk, QuestionsAreNew
  <2>3. \A i \in DOMAIN queue' : queue'[i].op = "before" => queue'[i].of # d
    <3> SUFFICES ASSUME NEW i \in DOMAIN queue', queue'[i].op = "before", queue'[i].of = d
                 PROVE  FALSE
      OBVIOUS
    <3>1. i + 1 \in DOMAIN queue /\ queue'[i] = queue[i + 1] /\ i \in Nat \ {0}
      BY <1>2
    <3>2. i + 1 = 1
      BY <1>2, <2>1, <3>1 DEF QueueOk, QuestionsComeOnce
    <3> QED BY <3>1, <3>2
  <2>4. QueueOk(queue, item, handle, downloads)'
    BY <1>3, <1>4, <2>1, <2>3
    DEF QueueOk, QuestionsAreNew, QuestionsComeOnce, EndsAreTrue, EndsComeLater
  <2>5. item[d].state \in Ends => Queued(Tick(d, item[d].state))'
    <3> SUFFICES ASSUME item[d].state \in Ends
                 PROVE  Queued(Tick(d, item[d].state))'
      BY <2>1
    <3>1. PICK j \in DOMAIN queue : 1 < j /\ queue[j] = Tick(d, item[d].state)
      BY <1>2, <2>1 DEF QueueOk, EndsComeLater
    <3>2. j - 1 \in DOMAIN queue' /\ queue'[j - 1] = Tick(d, item[d].state)
      BY <1>2, <3>1
    <3>3. \E i \in DOMAIN queue' : queue'[i] = Tick(d, item[d].state)
      BY <3>2
    <3> QED BY <3>3, <2>1 DEF Queued
  <2>6. FinishedIsDropped'
    BY <1>5, <1>6, <2>1, <2>5 DEF FinishedIsDropped, TypeOK
  <2>7. UnaskedHasNoHandle' /\ TrackedIsOpen' /\ NoFalseEnd' /\ DroppedIsOver'
    BY <2>1, <2>2 DEF UnaskedHasNoHandle, TrackedIsOpen, NoFalseEnd, DroppedIsOver,
                      TypeOK, Ends
  <2> QED BY <2>4, <2>6, <2>7
<1>10. CASE DeferredCancel
  <2>1. /\ item' = [item EXCEPT ![d].cancelAsked = TRUE]
        /\ handle' = [handle EXCEPT ![d].itemCallback = TRUE, ![d].pendingCancel = FALSE]
        /\ downloads' = downloads \ {d} /\ viewAlive' = viewAlive
        /\ d \in downloads /\ Head(queue).op = "tick"
    BY <1>10 DEF DeferredCancel, NextBlock
  <2>2. /\ \A e \in Downloads : e # d => item'[e] = item[e] /\ handle'[e] = handle[e]
        /\ item'[d] = [item[d] EXCEPT !.cancelAsked = TRUE]
        /\ handle'[d] = [[handle[d] EXCEPT !.itemCallback = TRUE] EXCEPT !.pendingCancel = FALSE]
    BY <1>1, <2>1
  <2>3. /\ item'[d].state = item[d].state /\ item'[d].asked = item[d].asked
        /\ item'[d].cancelAsked /\ handle'[d].state = handle[d].state
    BY <1>1, <2>2, FlagsOnly
  <2>4. \A e \in Downloads : /\ item'[e].state = item[e].state /\ item'[e].asked = item[e].asked
                             /\ handle'[e].state = handle[e].state
                             /\ item[e].cancelAsked => item'[e].cancelAsked
    BY <2>2, <2>3
  <2>5. QueueOk(queue, item, handle, downloads)'
    <3>1. downloads' \subseteq downloads
      BY <2>1
    <3>2. \A e \in Downloads : /\ item'[e].state = item[e].state /\ item'[e].asked = item[e].asked
                               /\ handle'[e].state = handle[e].state
      BY <2>4
    <3>3. queue' \in Seq(Blocks)
      BY <1>1
    <3>4. QueueOk(queue', item', handle', downloads')
      BY ONLY <1>3, <3>1, <3>2, <3>3, FrameOk, SMTT(30)
    <3> QED BY <3>4
  <2>6. FinishedIsDropped'
    BY <1>5, <1>6, <2>1, <2>4 DEF FinishedIsDropped, TypeOK
  <2>7. UnaskedHasNoHandle'
    BY <2>1, <2>4 DEF UnaskedHasNoHandle
  <2>8. TrackedIsOpen' /\ NoFalseEnd'
    BY <2>1, <2>4, ZenonT(60) DEF TrackedIsOpen, NoFalseEnd, TypeOK
  <2>9. DroppedIsOver'
    <3> SUFFICES ASSUME NEW e \in Downloads, handle'[e].state = "running", e \notin downloads'
                 PROVE  item'[e].cancelAsked
      BY DEF DroppedIsOver
    <3>1. CASE e = d
      BY <2>3, <3>1
    <3>2. CASE e # d
      BY <2>1, <2>2, <3>2 DEF DroppedIsOver
    <3> QED BY <3>1, <3>2
  <2> QED BY <2>5, <2>6, <2>7, <2>8, <2>9
<1>11. CASE DownloadUpdated
  <2>1. /\ item' = item /\ viewAlive' = viewAlive
        /\ handle' = [handle EXCEPT ![d] = Updated(handle[d], s)]
        /\ downloads' = IF s \in Ends THEN downloads \ {d} ELSE downloads
        /\ d \in downloads /\ Head(queue).op = "tick"
    BY <1>11 DEF DownloadUpdated, NextBlock, Tracked
  <2>2. /\ \A e \in Downloads : e # d => handle'[e] = handle[e]
        /\ handle'[d].state = s
    BY <1>1, <2>1, FlagsOnly DEF Updated
  <2>3. item[d].asked
    BY <1>1, <2>1 DEF UnaskedHasNoHandle
  <2>4. s \in Ends => item[d].state = s
    BY <1>2, <2>1 DEF QueueOk, EndsAreTrue
  <2>5. \A i \in DOMAIN queue' : queue'[i].op = "before" => queue'[i].of # d
    BY <1>3, <2>1 DEF QueueOk, QuestionsAreNew
  <2>6. downloads' \subseteq downloads
    BY <2>1
  <2>7. QueueOk(queue, item, handle, downloads)'
    BY <1>3, <1>4, <2>1, <2>2, <2>5, <2>6
    DEF QueueOk, QuestionsAreNew, QuestionsComeOnce, EndsAreTrue, EndsComeLater
  <2>8. FinishedIsDropped'
    <3> SUFFICES ASSUME NEW e \in downloads', viewAlive, item[e].state \in Ends
                 PROVE  Queued(Tick(e, item[e].state))'
      BY <2>1 DEF FinishedIsDropped
    <3>1. Queued(Tick(e, item[e].state)) /\ Tick(e, item[e].state) # Head(queue)
      BY <1>6, <2>1, <2>6 DEF FinishedIsDropped
    <3>2. \E i \in DOMAIN queue' : queue'[i] = Tick(e, item[e].state)
      BY <1>5, <3>1 DEF Queued
    <3> QED BY <2>1, <3>2 DEF Queued
  <2>9. UnaskedHasNoHandle' /\ TrackedIsOpen' /\ NoFalseEnd'
    BY <2>1, <2>2, <2>3, <2>4, <2>6
    DEF UnaskedHasNoHandle, TrackedIsOpen, NoFalseEnd, TypeOK
  <2>10. DroppedIsOver'
    BY <2>1, <2>2 DEF DroppedIsOver, Ends
  <2> QED BY <2>7, <2>8, <2>9, <2>10
<1> QED BY <1>7, <1>8, <1>9, <1>10, <1>11 DEF RunBlock

LEMMA InvStep == IInv /\ [Next]_vars => IInv'
<1> SUFFICES ASSUME IInv, [Next]_vars PROVE IInv'
  OBVIOUS
<1>1. TypeOK'
  BY TypeStep DEF IInv
<1>2. CASE ViewDealloc \/ UNCHANGED vars
  BY <1>1, <1>2, QuietStep DEF ViewDealloc, vars, hostVars
<1> QED BY <1>1, <1>2, CefStep, HostStep, BlockStep DEF Next

\* The inductive invariant holds in every reachable state.
THEOREM Invariant == Spec => []IInv
  BY InvInit, InvStep, PTL DEF Spec

-----------------------------------------------------------------------------
(***************************************************************************)
(* What it gives.                                                          *)
(***************************************************************************)
\* A handle that says complete or canceled says what happened.
THEOREM EndsAreNeverFalse == Spec => []NoFalseEnd
  BY Invariant, PTL DEF IInv

\* No handle of a finished download stays in _downloads.
THEOREM NoLeak == Spec => []FinishedIsDropped
  BY Invariant, PTL DEF IInv

\* No handle leaves _downloads while its download may go on unnoticed.
THEOREM NoEarlyDrop == Spec => []DroppedIsOver
  BY Invariant, PTL DEF IInv

\* An end, once told, is told for good: the question about a download comes
\* once, so no second handle replaces one that ended, and no report reaches a
\* handle that has left _downloads.
THEOREM EndsAreFinal == Spec => EndIsFinal
<1>1. IInv /\ [Next]_vars =>
        [\A d \in Downloads : handle[d].state \in Ends => handle'[d].state = handle[d].state]_vars
  <2> SUFFICES ASSUME IInv, [Next]_vars, NEW e \in Downloads, handle[e].state \in Ends
               PROVE  handle'[e].state = handle[e].state
    OBVIOUS
  <2>1. /\ handle[e] \in Handles /\ handle \in [Downloads -> Handles] /\ e \notin downloads
        /\ handle[e].state # "none"
    BY DEF IInv, TypeOK, TrackedIsOpen, Ends
  <2>2. CASE UNCHANGED handle
    BY <2>2
  <2>3. ASSUME NEW d \in Downloads, ChooseNil(d) \/ Cancel(d)
        PROVE  handle'[e].state = handle[e].state
    <3>1. handle' = handle \/ handle' = [handle EXCEPT ![d].pendingCancel = TRUE]
      BY <2>3 DEF ChooseNil, Cancel
    <3>2. handle'[e] = handle[e] \/ handle'[e] = [handle[e] EXCEPT !.pendingCancel = TRUE]
      BY <2>1, <3>1
    <3> QED BY <2>1, <3>2, FlagsOnly
  <2>4. ASSUME Head(queue).of # e, BeforeDownload \/ DeferredCancel \/ DownloadUpdated
        PROVE  handle'[e].state = handle[e].state
    BY <2>1, <2>4 DEF BeforeDownload, DeferredCancel, DownloadUpdated
  <2>5. ASSUME Head(queue).of = e, BeforeDownload
        PROVE  FALSE
    <3>1. queue # <<>> /\ queue \in Seq(Blocks) /\ Head(queue).op = "before"
      BY <2>5 DEF BeforeDownload, NextBlock, IInv, TypeOK
    <3>2. handle[e].state = "none"
      BY <2>5, <3>1, TailAt DEF IInv, QueueOk, QuestionsAreNew
    <3> QED BY <2>1, <3>2
  <2>6. ASSUME Head(queue).of = e, DeferredCancel \/ DownloadUpdated
        PROVE  FALSE
    BY <2>1, <2>6 DEF DeferredCancel, DownloadUpdated
  <2>7. CASE RunBlock
    BY <2>2, <2>4, <2>5, <2>6, <2>7 DEF RunBlock, BlockForNobody, UntrackedUpdate
  <2>8. ASSUME NEW d \in Downloads,
               \/ DownloadStarts(d) \/ OnBeforeDownload(d) \/ OnProgress(d)
               \/ \E end \in Ends : OnEnd(d, end)
               \/ ChooseDestination(d) \/ Pause(d) \/ Resume(d)
        PROVE  UNCHANGED handle
    BY <2>8 DEF DownloadStarts, OnBeforeDownload, OnProgress, OnEnd, ChooseDestination,
                Pause, Resume
  <2>9. CASE ViewDealloc \/ UNCHANGED vars
    BY <2>2, <2>9 DEF ViewDealloc, vars
  <2> QED BY <2>2, <2>3, <2>7, <2>8, <2>9 DEF Next
<1> QED BY <1>1, Invariant, PTL DEF Spec, EndIsFinal

=============================================================================

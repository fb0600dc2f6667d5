------------------------------ MODULE Download ------------------------------
(***************************************************************************)
(* Downloads of one ChromiumView (ChromiumView.mm 110-166, 490-544,        *)
(* 874-937): CEF asks where a download goes and reports its progress; both *)
(* hop to the FIFO main queue, where the view keeps a ChromiumDownload     *)
(* handle per id in _downloads.  The delegate answers when it likes, and   *)
(* holds the handle as long as it likes.                                   *)
(*                                                                         *)
(* CEF is external: it may report a download before it asks about it       *)
(* (cef_download_handler.h:118-119), and after its end; it carries out a   *)
(* Cancel() later.  inProgress, complete and canceled are one `state`, as  *)
(* a CefDownloadItem is in exactly one of them.                            *)
(***************************************************************************)
EXTENDS Integers, Sequences

CONSTANTS
    Downloads,  \* download ids
    Host,       \* what the host does: a subset of {"cancel", "pause", "close"}
    MaxQueue    \* bound: CEF reports progress only while the queue is shorter

ASSUME HostAssumption == Host \subseteq {"cancel", "pause", "close"}
ASSUME MaxQueueAssumption == MaxQueue \in Nat

VARIABLES
    item,       \* CEF's CefDownloadItem, and what was asked of it
    queue,      \* the main dispatch queue
    handle,     \* ChromiumDownload
    downloads,  \* _downloads: the ids whose handle the view still updates
    choosing,   \* completion handlers the delegate has not called yet
    held,       \* handles the delegate has received
    viewAlive,  \* the weak reference to the view is not nil
    rejected,   \* downloads the host cancelled or gave no destination
    pausedByHost \* downloads the host paused last

hostVars == <<choosing, held, rejected, pausedByHost>>
vars == <<item, queue, handle, downloads, viewAlive, hostVars>>

Ends == {"complete", "canceled"}
States == {"none", "running"} \cup Ends

Items == [state : States, asked : BOOLEAN, continued : BOOLEAN,
          cancelAsked : BOOLEAN, paused : BOOLEAN]
Handles == [state : States, itemCallback : BOOLEAN, pendingCancel : BOOLEAN]

Before(d) == [op |-> "before", of |-> d, state |-> "running"]
Tick(d, state) == [op |-> "tick", of |-> d, state |-> state]
Blocks == [op : {"before", "tick"}, of : Downloads, state : States]

TypeOK ==
    /\ item \in [Downloads -> Items]
    /\ queue \in Seq(Blocks)
    /\ handle \in [Downloads -> Handles]
    /\ downloads \subseteq Downloads
    /\ choosing \subseteq held /\ held \subseteq Downloads
    /\ viewAlive \in BOOLEAN
    /\ rejected \subseteq Downloads
    /\ pausedByHost \subseteq held

Init ==
    /\ item = [d \in Downloads |-> [state |-> "none", asked |-> FALSE, continued |-> FALSE,
                                    cancelAsked |-> FALSE, paused |-> FALSE]]
    /\ queue = <<>>
    /\ handle = [d \in Downloads |->
                    [state |-> "none", itemCallback |-> FALSE, pendingCancel |-> FALSE]]
    /\ downloads = {} /\ choosing = {} /\ held = {}
    /\ viewAlive = TRUE
    /\ rejected = {} /\ pausedByHost = {}

-----------------------------------------------------------------------------
(***************************************************************************)
(* CEF.                                                                    *)
(***************************************************************************)
DownloadStarts(d) ==
    /\ item[d].state = "none"
    /\ item' = [item EXCEPT ![d].state = "running"]
    /\ UNCHANGED <<queue, handle, downloads, viewAlive, hostVars>>

OnBeforeDownload(d) ==
    /\ item[d].state = "running" /\ ~item[d].asked
    /\ item' = [item EXCEPT ![d].asked = TRUE]
    /\ queue' = Append(queue, Before(d))
    /\ UNCHANGED <<handle, downloads, viewAlive, hostVars>>

\* OnDownloadUpdated with nothing new but bytes.
OnProgress(d) ==
    /\ item[d].state # "none"
    /\ Len(queue) < MaxQueue
    /\ queue' = Append(queue, Tick(d, item[d].state))
    /\ UNCHANGED <<item, handle, downloads, viewAlive, hostVars>>

\* OnDownloadUpdated for the end of a download: all bytes came, or it was
\* cancelled or interrupted.
OnEnd(d, end) ==
    /\ item[d].state = "running"
    /\ end = "complete" => item[d].continued /\ ~item[d].paused
    /\ item' = [item EXCEPT ![d].state = end]
    /\ queue' = Append(queue, Tick(d, end))
    /\ UNCHANGED <<handle, downloads, viewAlive, hostVars>>

-----------------------------------------------------------------------------
(***************************************************************************)
(* The blocks of the main queue.                                           *)
(***************************************************************************)
NextBlock(op) == queue # <<>> /\ Head(queue).op = op /\ queue' = Tail(queue)

\* Messages to a view that is gone do nothing.
BlockForNobody ==
    /\ ~viewAlive
    /\ queue # <<>> /\ queue' = Tail(queue)
    /\ UNCHANGED <<item, handle, downloads, viewAlive, hostVars>>

\* _onBeforeDownloadId: a fresh handle, and the question to the delegate.
\* Without a delegate nothing continues the download.
BeforeDownload ==
    /\ viewAlive /\ NextBlock("before")
    /\ LET d == Head(queue).of
       IN  /\ downloads' = downloads \cup {d}
           /\ \/ /\ choosing' = choosing \cup {d} /\ held' = held \cup {d}
                 /\ handle' = [handle EXCEPT ![d] = [state |-> "running",
                                  itemCallback |-> FALSE, pendingCancel |-> FALSE]]
                 /\ UNCHANGED rejected
              \/ /\ rejected' = rejected \cup {d}
                 /\ handle' = [handle EXCEPT ![d] = [state |-> "running",
                                  itemCallback |-> FALSE, pendingCancel |-> TRUE]]
                 /\ UNCHANGED <<choosing, held>>
    /\ UNCHANGED <<item, viewAlive, pausedByHost>>

\* _onDownloadUpdatedId's early return.
UntrackedUpdate ==
    /\ viewAlive /\ NextBlock("tick")
    /\ Head(queue).of \notin downloads
    /\ UNCHANGED <<item, handle, downloads, viewAlive, hostVars>>

\* Mutant: the handle is told that it is canceled.
DeferredCancelTold ==
    /\ viewAlive /\ NextBlock("tick")
    /\ LET d == Head(queue).of
       IN  /\ d \in downloads /\ handle[d].pendingCancel
           /\ handle' = [handle EXCEPT ![d] =
                 [state |-> "canceled", itemCallback |-> TRUE, pendingCancel |-> FALSE]]
           /\ item' = [item EXCEPT ![d].cancelAsked = TRUE]
           /\ downloads' = downloads \ {d}
    /\ UNCHANGED <<viewAlive, hostVars>>

\* Mutant: the handle is dropped and CEF not told.
DeferredCancelLost ==
    /\ viewAlive /\ NextBlock("tick")
    /\ LET d == Head(queue).of
       IN  /\ d \in downloads /\ handle[d].pendingCancel
           /\ downloads' = downloads \ {d}
    /\ UNCHANGED <<item, handle, viewAlive, hostVars>>

\* _onDownloadUpdatedId with a cancel to make up for.
DeferredCancel ==
    /\ viewAlive /\ NextBlock("tick")
    /\ LET d == Head(queue).of
       IN  /\ d \in downloads /\ handle[d].pendingCancel
           /\ handle' = [handle EXCEPT ![d].itemCallback = TRUE, ![d].pendingCancel = FALSE]
           /\ item' = [item EXCEPT ![d].cancelAsked = TRUE]
           /\ downloads' = downloads \ {d}
    /\ UNCHANGED <<viewAlive, hostVars>>

\* Mutant: only a complete download leaves _downloads.
StillTracked(d, state) == IF state = "complete" THEN downloads \ {d} ELSE downloads

\* _onDownloadUpdatedId, the rest.
Updated(h, state) == [h EXCEPT !.itemCallback = TRUE, !.state = state]

Tracked(d, state) == IF state \in Ends THEN downloads \ {d} ELSE downloads

DownloadUpdated ==
    /\ viewAlive /\ NextBlock("tick")
    /\ LET d == Head(queue).of
           s == Head(queue).state
       IN  /\ d \in downloads /\ ~handle[d].pendingCancel
           /\ handle' = [handle EXCEPT ![d] = Updated(handle[d], s)]
           /\ downloads' = Tracked(d, s)
    /\ UNCHANGED <<item, viewAlive, hostVars>>

RunBlock ==
    BlockForNobody \/ BeforeDownload \/ UntrackedUpdate \/ DeferredCancel \/ DownloadUpdated

-----------------------------------------------------------------------------
(***************************************************************************)
(* The delegate and the host, on the main thread.                          *)
(***************************************************************************)
\* completionHandler(destination): callback->Continue
ChooseDestination(d) ==
    /\ d \in choosing
    /\ choosing' = choosing \ {d}
    /\ item' = [item EXCEPT ![d].continued = TRUE]
    /\ UNCHANGED <<queue, handle, downloads, viewAlive, held, rejected, pausedByHost>>

\* Mutant: nil is only a destination that never comes.
ChooseNilSilent(d) ==
    /\ d \in choosing
    /\ choosing' = choosing \ {d}
    /\ rejected' = rejected \cup {d}
    /\ UNCHANGED <<item, queue, handle, downloads, viewAlive, held, pausedByHost>>

\* completionHandler(nil): _markPendingCancel
ChooseNil(d) ==
    /\ d \in choosing
    /\ choosing' = choosing \ {d}
    /\ rejected' = rejected \cup {d}
    /\ handle' = [handle EXCEPT ![d].pendingCancel = TRUE]
    /\ UNCHANGED <<item, queue, downloads, viewAlive, held, pausedByHost>>

\* Mutant: the handle says canceled before CEF does.
CancelEager(d) ==
    /\ "cancel" \in Host /\ d \in held
    /\ rejected' = rejected \cup {d}
    /\ handle' = [handle EXCEPT ![d].state = "canceled"]
    /\ item' = [item EXCEPT ![d].cancelAsked = TRUE]
    /\ UNCHANGED <<queue, downloads, viewAlive, choosing, held, pausedByHost>>

\* -[ChromiumDownload cancel], deferred while there is no item callback.
Cancel(d) ==
    /\ "cancel" \in Host /\ d \in held
    /\ rejected' = rejected \cup {d}
    /\ \/ /\ handle[d].itemCallback
          /\ item' = [item EXCEPT ![d].cancelAsked = TRUE]
          /\ UNCHANGED handle
       \/ /\ ~handle[d].itemCallback
          /\ handle' = [handle EXCEPT ![d].pendingCancel = TRUE]
          /\ UNCHANGED item
    /\ UNCHANGED <<queue, downloads, viewAlive, choosing, held, pausedByHost>>

\* -[ChromiumDownload pause] and resume, which nothing defers.
SetPaused(d, paused) ==
    item' = IF handle[d].itemCallback THEN [item EXCEPT ![d].paused = paused] ELSE item

Pause(d) ==
    /\ "pause" \in Host /\ d \in held \ pausedByHost
    /\ pausedByHost' = pausedByHost \cup {d}
    /\ SetPaused(d, TRUE)
    /\ UNCHANGED <<queue, handle, downloads, viewAlive, choosing, held, rejected>>

Resume(d) ==
    /\ d \in pausedByHost
    /\ pausedByHost' = pausedByHost \ {d}
    /\ SetPaused(d, FALSE)
    /\ UNCHANGED <<queue, handle, downloads, viewAlive, choosing, held, rejected>>

\* The host drops the view.
ViewDealloc ==
    /\ "close" \in Host /\ viewAlive
    /\ viewAlive' = FALSE
    /\ UNCHANGED <<item, queue, handle, downloads, hostVars>>

Next ==
    \/ \E d \in Downloads :
        \/ DownloadStarts(d) \/ OnBeforeDownload(d) \/ OnProgress(d)
        \/ \E end \in Ends : OnEnd(d, end)
        \/ ChooseDestination(d) \/ ChooseNil(d)
        \/ Cancel(d) \/ Pause(d) \/ Resume(d)
    \/ RunBlock
    \/ ViewDealloc

\* The main queue drains, CEF keeps reporting a download that is running and
\* not paused, and carries out a Cancel().  Nobody has to answer or to act.
Fairness ==
    /\ WF_vars(RunBlock)
    /\ \A d \in Downloads :
        /\ SF_vars(item[d].state = "running" /\ ~item[d].paused /\ OnProgress(d))
        /\ WF_vars(item[d].cancelAsked /\ OnEnd(d, "canceled"))

Spec == Init /\ [][Next]_vars /\ Fairness

-----------------------------------------------------------------------------
(***************************************************************************)
(* Properties.                                                             *)
(***************************************************************************)
Queued(block) == \E i \in DOMAIN queue : queue[i] = block

\* What a handle says of a download's end is what happened, however late and
\* stale the reports are that reach it.
NoFalseEnd == \A d \in Downloads : handle[d].state \in Ends => handle[d].state = item[d].state

\* A download that ended does not run again: reports still in flight, or a
\* second handle for its id, never take the end back.
EndIsFinal ==
    [][\A d \in Downloads : handle[d].state \in Ends => handle'[d].state = handle[d].state]_vars

\* _downloads does not leak: while a handle of a finished download is still in
\* it, the report that takes it out is on its way.
FinishedIsDropped ==
    \A d \in downloads : viewAlive /\ item[d].state \in Ends => Queued(Tick(d, item[d].state))

\* Nor does it drop a handle early: one that is no longer updated has seen the
\* end of its download, or CEF has been told to cancel it.
DroppedIsOver ==
    \A d \in Downloads : handle[d].state = "running" /\ d \notin downloads => item[d].cancelAsked

\* Cancelled by the host, refused by the delegate or asked of nobody: while the
\* view is there and nobody pauses it, the download stops.  ("No delegate:
\* cancel by never continuing; the next update tick cancels it.")  Once the
\* view is gone no tick is handled, and a cancel that waits for one is lost.
RejectedStops ==
    \A d \in Downloads :
        d \in rejected ~> item[d].state \in Ends \/ item[d].paused \/ ~viewAlive

\* ChromiumViewObjC.h:148: canceled is "YES once the download has been canceled
\* or interrupted".  So a handle of the delegate whose download CEF was told to
\* cancel while it ran learns in the end that it is over.
HandleLearnsTheEnd ==
    \A d \in Downloads :
        d \in held /\ item[d].cancelAsked /\ item[d].state = "running"
            ~> handle[d].state \in Ends \/ ~viewAlive

=============================================================================

------------------------------ MODULE DirWatch ------------------------------
(***************************************************************************)
(* Watches of host directories (src/io/dev/dirwatch.c): drives ask for     *)
(* them and end them from their own threads, through a queue; one thread   *)
(* with a libuv loop of its own starts and closes the handles and calls    *)
(* the drives back.  A watch has a handle for events and one for a timer,  *)
(* used where the system has no events for a directory.                    *)
(***************************************************************************)
EXTENDS Integers, Sequences

CONSTANTS Watches  \* drives, each with one watch in its life

VARIABLES
  drive,    \* "new", "using", "waiting" in dirwatch_destroy(), "gone", or "polls" without a watch
  cb,       \* watches that have a function to call
  ops,      \* the queue: [dw, kind]
  batch,    \* taken off it by process_queue()
  ev, timer,\* handle of each watch: "none", "idle", "active", "closing", "closed"
  closing_left,     \* closing_left
  closings, \* handles that libuv has to close, the last one first
  freed,    \* watches whose memory is freed
  calling   \* the drive that the thread calls, if any

watchVars == <<drive, cb, ops, batch, ev, timer, closing_left, closings, freed, calling>>
Nobody == "nobody"

WatchInit ==
  /\ drive = [w \in Watches |-> "new"] /\ cb = {} /\ ops = <<>> /\ batch = <<>>
  /\ ev = [w \in Watches |-> "none"] /\ timer = [w \in Watches |-> "none"] /\ closing_left = [w \in Watches |-> 0]
  /\ closings = <<>> /\ freed = {} /\ calling = Nobody

-----------------------------------------------------------------------------
\* dirwatch_create(): the thread is started with the first one, or cannot be
WatchCreate(w) ==
  /\ drive[w] = "new"
  /\ \/ drive' = [drive EXCEPT ![w] = "using"] /\ cb' = cb \cup {w} /\ ops' = Append(ops, [dw |-> w, kind |-> "add"])
     \/ drive' = [drive EXCEPT ![w] = "polls"] /\ UNCHANGED <<cb, ops>>
  /\ UNCHANGED <<batch, ev, timer, closing_left, closings, freed, calling>>

\* dirwatch_destroy(), before and after it waits
WatchDestroy(w) ==
  /\ drive[w] = "using" /\ drive' = [drive EXCEPT ![w] = "waiting"]
  /\ cb' = cb \ {w} /\ ops' = Append(ops, [dw |-> w, kind |-> "del"])
  /\ UNCHANGED <<batch, ev, timer, closing_left, closings, freed, calling>>

\* Mutant of Posted: dirwatch_destroy() waits until the watch is taken off the list.
PostedAtOnce(w) == w \notin cb

Posted(w) == w \in freed
WatchDestroyed(w) ==
  /\ drive[w] = "waiting" /\ Posted(w) /\ drive' = [drive EXCEPT ![w] = "gone"]
  /\ UNCHANGED <<cb, ops, batch, ev, timer, closing_left, closings, freed, calling>>

-----------------------------------------------------------------------------
(* The thread; what it closes is closed at the end of a turn of the loop.  *)
Turning == calling = Nobody /\ batch = <<>>
HandleClosing(h) == h \in {"closing", "closed"}

\* process_queue()
TakeQueue ==
  /\ Turning /\ closings = <<>> /\ ops # <<>> /\ batch' = ops /\ ops' = <<>>
  /\ UNCHANGED <<drive, cb, ev, timer, closing_left, closings, freed, calling>>
AddHandles ==
  /\ batch # <<>> /\ Head(batch).kind = "add" /\ batch' = Tail(batch)
  /\ LET w == Head(batch).dw
     IN \/ ev' = [ev EXCEPT ![w] = "active"] /\ timer' = [timer EXCEPT ![w] = "idle"] /\ UNCHANGED closings
        \/ /\ ev' = [ev EXCEPT ![w] = "closing"] /\ timer' = [timer EXCEPT ![w] = "active"]
           /\ closings' = <<[dw |-> w, handle |-> "ev", counts |-> FALSE]>> \o closings
  /\ UNCHANGED <<drive, cb, ops, closing_left, freed, calling>>
DelHandles ==
  /\ batch # <<>> /\ Head(batch).kind = "del" /\ batch' = Tail(batch)
  /\ LET w == Head(batch).dw
         handle(h) == [dw |-> w, handle |-> h, counts |-> TRUE]
     IN /\ closing_left' = [closing_left EXCEPT ![w] = (IF HandleClosing(ev[w]) THEN 0 ELSE 1) + (IF HandleClosing(timer[w]) THEN 0 ELSE 1)]
        /\ ev' = [ev EXCEPT ![w] = IF HandleClosing(@) THEN @ ELSE "closing"]
        /\ timer' = [timer EXCEPT ![w] = IF HandleClosing(@) THEN @ ELSE "closing"]
        /\ closings' = (IF HandleClosing(timer[w]) THEN <<>> ELSE <<handle("timer")>>)
                        \o (IF HandleClosing(ev[w]) THEN <<>> ELSE <<handle("ev")>>) \o closings
        /\ freed' = IF closing_left'[w] = 0 THEN freed \cup {w} ELSE freed
  /\ UNCHANGED <<drive, cb, ops, calling>>

\* on_handle_closed(), free_dirwatch()
CloseOne ==
  /\ Turning /\ closings # <<>> /\ closings' = Tail(closings)
  /\ LET c == Head(closings)
         n == closing_left[c.dw] - 1
     IN /\ ev' = IF c.handle = "ev" THEN [ev EXCEPT ![c.dw] = "closed"] ELSE ev
        /\ timer' = IF c.handle = "timer" THEN [timer EXCEPT ![c.dw] = "closed"] ELSE timer
        /\ closing_left' = IF c.counts THEN [closing_left EXCEPT ![c.dw] = n] ELSE closing_left
        /\ freed' = IF c.counts /\ n = 0 THEN freed \cup {c.dw} ELSE freed
  /\ UNCHANGED <<drive, cb, ops, batch, calling>>

\* on_fs_event(), on_timer(): into the drive and back
Notify(w) ==
  /\ Turning /\ closings = <<>> /\ "active" \in {ev[w], timer[w]} /\ w \in cb /\ calling' = w
  /\ UNCHANGED <<drive, cb, ops, batch, ev, timer, closing_left, closings, freed>>
Notified == calling # Nobody /\ calling' = Nobody /\ UNCHANGED <<drive, cb, ops, batch, ev, timer, closing_left, closings, freed>>

WatchThread == TakeQueue \/ AddHandles \/ DelHandles \/ CloseOne \/ Notified
WatchNext == WatchThread \/ \E w \in Watches : WatchCreate(w) \/ WatchDestroy(w) \/ WatchDestroyed(w) \/ Notify(w)
WatchSpec == WatchInit /\ [][WatchNext]_watchVars

-----------------------------------------------------------------------------
\* A drive is not called once its dirwatch_destroy() has returned, though its thread
\* ends the watch while the other one may be about to call (dirwatch_destroy(), on_timer()).
NoLateCall == calling # Nobody => drive[calling] # "gone"

\* "posted once the struct is fully torn down" (dirwatch.c:41): memory with a handle in it
\* is freed when libuv is through with the handle.  Where there are no events, a watch ended
\* in the turn that began it is freed with the timer, before the other handle is closed.
ClosedThenFreed == \A w \in freed : ev[w] = "closed" /\ timer[w] = "closed"
=============================================================================

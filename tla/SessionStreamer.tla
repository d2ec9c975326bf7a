---------------------------- MODULE SessionStreamer ----------------------------
(***************************************************************************)
(* The streamer that follows one transcript and publishes its new lines,   *)
(* from internal/adapters/sessioncache/streamer.go (runtime "claude") and  *)
(* internal/adapters/codex/streamer.go (runtime "codex").                  *)
(*                                                                         *)
(* WatchSession and UnwatchSession come from any client; every watch       *)
(* starts a goroutine, its loop, which selects among the watch's done      *)
(* channel, write events, ticks and a channel of its own for "the reading  *)
(* is complete".  A check reads the file between two sections of the       *)
(* mutex.  The timer that delays a complete event calls back from a        *)
(* goroutine of its own, and Stop does not reach a callback that waits     *)
(* for the mutex.  The Claude loop takes the channels of the watch once,   *)
(* the Codex loop in every turn of its select.                             *)
(*                                                                         *)
(* A line of a transcript is two halves, so that a check may meet a line   *)
(* in the middle of a write.  Files do not shrink.  Left out: what a line  *)
(* says (and so lines that are not messages, and the Codex summaries of    *)
(* explored files), errors of the file system other than a missing file,   *)
(* and clocks: a tick may come at any time.                                *)
(***************************************************************************)
EXTENDS Integers, Sequences

CONSTANTS
    Session,
    Kinds,        \* which of the two streamers
    MaxHalves,    \* bound: halves of lines in a transcript
    MaxWatches,   \* bound: watches that are started
    None

ASSUME StreamAssumption == {MaxHalves, MaxWatches} \subseteq Nat

VARIABLES
    runtime,
    file,       \* the size of each transcript; 0 is a file that is missing
    watch,      \* the watch that is on, 0 when none is: running, done, watcher
    of,         \* watchedSession of each watch
    start,      \* history: the size a watch began at
    offset,     \* lastOffset
    writes,     \* write events for the watcher of a watch
    loop,       \* the loop each watch started
    timer,      \* completeTimer, and whether Stop would still stop it
    loose,      \* the callbacks to come that nothing stops any more, by loop
    pending,    \* pendingCompleteInfo
    inbox,      \* the completeChan of each loop
    feed,       \* history: the lines published for a watch
    torn,       \* history: the lines a watch read in part
    told,       \* history: the offset of the last complete event of a watch
    crossed     \* history: a loop has acted on a watch that was not its own

files == <<runtime, file, writes>>
watches == <<watch, of, start>>
completion == <<timer, loose, pending>>
streamHistory == <<feed, torn, told>>
streamVars == <<files, watches, offset, loop, completion, inbox, streamHistory, crossed>>

Watches == 1 .. MaxWatches
Size == 0 .. MaxHalves
Line == 1 .. (MaxHalves + 1) \div 2

Info == [watch : Watches, at : Size]
Read == [watch : Watches, pos : Size]
Loop == [pc : {"none", "starting", "selecting", "cancelling", "reading", "storing",
               "scheduling", "ended", "panicked"},
         follows : Watches \cup {0},   \* the watch whose channels it selects on
         read : Read \cup {None}]      \* the check in progress

ASSUME NoneAssumption == None \notin Session \cup Read

NoLoop == [pc |-> "none", follows |-> 0, read |-> None]

StreamTypeOK ==
    /\ runtime \in Kinds
    /\ file \in [Session -> Size]
    /\ watch \in Watches \cup {0}
    /\ of \in [Watches -> Session \cup {None}]
    /\ start \in [Watches -> Size]
    /\ offset \in Size
    /\ writes \in [Watches -> Size]
    /\ loop \in [Watches -> Loop]
    /\ timer \in [loop : Watches, live : BOOLEAN] \cup {None}
    /\ loose \in [Watches -> Nat]
    /\ pending \in Info \cup {None}
    /\ inbox \in [Watches -> Info \cup {None}]
    /\ feed \in [Watches -> Seq(Line)]
    /\ torn \in [Watches -> SUBSET Line]
    /\ told \in [Watches -> Size]
    /\ crossed \in BOOLEAN

StreamInit ==
    /\ runtime \in Kinds
    /\ file \in [Session -> Size]
    /\ watch = 0
    /\ of = [g \in Watches |-> None]
    /\ start = [g \in Watches |-> 0]
    /\ offset = 0
    /\ writes = [g \in Watches |-> 0]
    /\ loop = [g \in Watches |-> NoLoop]
    /\ timer = None
    /\ loose = [g \in Watches |-> 0]
    /\ pending = None
    /\ inbox = [g \in Watches |-> None]
    /\ feed = [g \in Watches |-> <<>>]
    /\ torn = [g \in Watches |-> {}]
    /\ told = [g \in Watches |-> 0]
    /\ crossed = FALSE

LoopAt(i, pc) == loop[i].pc = pc

\* A panic of a loop ends the daemon.
Up == \A i \in Watches : ~LoopAt(i, "panicked")

GoesTo(i, pc) == loop' = [loop EXCEPT ![i].pc = pc]

\* The loop is back at its select, which in the Codex streamer reads the
\* channels again.
Selects == IF runtime = "codex" THEN "starting" ELSE "selecting"
Returns(i) == loop' = [loop EXCEPT ![i].pc = Selects, ![i].read = None]

-----------------------------------------------------------------------------
(* Transcripts and clients *)

\* Claude or Codex writes to its transcript, in one piece or less; inotify tells
\* the watcher of the file.
WriteTranscript(s, n) ==
    /\ Up
    /\ file[s] + n <= MaxHalves
    /\ file' = [file EXCEPT ![s] = @ + n]
    /\ writes' = [g \in Watches |->
                     IF g = watch /\ of[g] = s THEN writes[g] + 1 ELSE writes[g]]
    /\ UNCHANGED <<runtime, watches, offset, loop, completion, inbox, streamHistory, crossed>>

\* stopWatchingLocked
Stops ==
    /\ timer' = None
    /\ pending' = None
    /\ UNCHANGED loose

\* The watches begun so far.
Begun == {g \in Watches : of[g] # None}

WatchSession(s) ==
    /\ Up
    /\ file[s] > 0
    /\ \E g \in Watches \ Begun :
          /\ \A h \in Watches : h < g => h \in Begun
          /\ watch' = g
          /\ of' = [of EXCEPT ![g] = s]
          /\ start' = [start EXCEPT ![g] = file[s]]
          /\ loop' = [loop EXCEPT ![g] = [pc |-> "starting", follows |-> g, read |-> None]]
    /\ offset' = file[s]
    /\ Stops
    /\ UNCHANGED <<files, inbox, streamHistory, crossed>>

\* The file is missing: the watch there was has been stopped all the same.
WatchSessionFails(s) ==
    /\ Up
    /\ file[s] = 0
    /\ watch # 0
    /\ watch' = 0
    /\ offset' = 0
    /\ Stops
    /\ UNCHANGED <<files, of, start, loop, inbox, streamHistory, crossed>>

UnwatchSession ==
    /\ Up
    /\ watch # 0
    /\ watch' = 0
    /\ offset' = 0
    /\ Stops
    /\ UNCHANGED <<files, of, start, loop, inbox, streamHistory, crossed>>

-----------------------------------------------------------------------------
(* The loop *)

\* It takes the channels of the watch that is on, which may be a later one
\* than the watch that started it.
TakeChannels(i) ==
    /\ Up
    /\ LoopAt(i, "starting")
    /\ \/ /\ watch # 0
          /\ loop' = [loop EXCEPT ![i].pc = "selecting", ![i].follows = watch]
          /\ crossed' = (crossed \/ watch # i)
       \/ /\ runtime = "claude" /\ watch = 0
          /\ GoesTo(i, "ended")
          /\ UNCHANGED crossed
       \/ /\ runtime = "codex" /\ watch # loop[i].follows
          /\ GoesTo(i, "panicked")      \* s.watcher is nil, or was a moment ago
          /\ crossed' = TRUE
    /\ UNCHANGED <<files, watches, offset, completion, inbox, streamHistory>>

\* The done channel or the watcher of its watch is closed.
End(i) ==
    /\ Up
    /\ LoopAt(i, "selecting")
    /\ loop[i].follows # watch
    /\ GoesTo(i, "ended")
    /\ UNCHANGED <<files, watches, offset, completion, inbox, streamHistory, crossed>>

\* cancelPendingComplete
Cancels ==
    /\ timer' = None
    /\ pending' = IF timer = None THEN pending ELSE None
    /\ UNCHANGED loose

\* A write event: it cancels, and the check comes with a later tick.
TakeWrite(i) ==
    /\ Up
    /\ LoopAt(i, "selecting")
    /\ loop[i].follows = watch
    /\ writes[watch] > 0
    /\ writes' = [writes EXCEPT ![watch] = @ - 1]
    /\ Cancels
    /\ Returns(i)
    /\ UNCHANGED <<runtime, file, watches, offset, inbox, streamHistory, crossed>>

\* Mutant of Check: from the beginning of the line the offset is in.
CheckAgain(i) ==
    /\ Up
    /\ LoopAt(i, "selecting")
    /\ watch # 0
    /\ file[of[watch]] > offset
    /\ loop' = [loop EXCEPT ![i].pc = "cancelling",
                            ![i].read = [watch |-> watch, pos |-> 2 * (offset \div 2)]]
    /\ crossed' = (crossed \/ loop[i].follows # watch)
    /\ UNCHANGED <<files, watches, offset, completion, inbox, streamHistory>>

\* A tick or the debounce timer: checkForNewContent finds that the file that
\* is watched now has grown.
Check(i) ==
    /\ Up
    /\ LoopAt(i, "selecting")
    /\ watch # 0
    /\ file[of[watch]] > offset
    /\ loop' = [loop EXCEPT ![i].pc = "cancelling",
                            ![i].read = [watch |-> watch, pos |-> offset]]
    /\ crossed' = (crossed \/ loop[i].follows # watch)
    /\ UNCHANGED <<files, watches, offset, completion, inbox, streamHistory>>

CancelPending(i) ==
    /\ Up
    /\ LoopAt(i, "cancelling")
    /\ Cancels
    /\ GoesTo(i, "reading")
    /\ UNCHANGED <<files, watches, offset, inbox, streamHistory, crossed>>

\* The next line, or what there is of it.  Only a whole line is a message.
ReadNextLine(i) ==
    LET r == loop[i].read
        size == file[of[r.watch]]
        line == r.pos \div 2 + 1
        end == IF 2 * line <= size THEN 2 * line ELSE size
        whole == end - r.pos = 2
    IN  /\ Up
        /\ LoopAt(i, "reading")
        /\ r.pos < size
        /\ loop' = [loop EXCEPT ![i].read.pos = end]
        /\ feed' = IF whole THEN [feed EXCEPT ![r.watch] = Append(@, line)] ELSE feed
        /\ torn' = IF whole THEN torn ELSE [torn EXCEPT ![r.watch] = @ \cup {line}]
        /\ UNCHANGED <<files, watches, offset, completion, inbox, told, crossed>>

EndOfFile(i) ==
    /\ Up
    /\ LoopAt(i, "reading")
    /\ loop[i].read.pos = file[of[loop[i].read.watch]]
    /\ GoesTo(i, "storing")
    /\ UNCHANGED <<files, watches, offset, completion, inbox, streamHistory, crossed>>

\* Mutant of StoreOffset: the size of the file, not what has been read.
StoreSize(i) ==
    /\ Up
    /\ LoopAt(i, "storing")
    /\ offset' = file[of[loop[i].read.watch]]
    /\ crossed' = (crossed \/ loop[i].read.watch # watch)
    /\ GoesTo(i, "scheduling")
    /\ UNCHANGED <<files, watches, completion, inbox, streamHistory>>

\* Whatever is watched by now.
StoreOffset(i) ==
    /\ Up
    /\ LoopAt(i, "storing")
    /\ offset' = loop[i].read.pos
    /\ crossed' = (crossed \/ loop[i].read.watch # watch)
    /\ GoesTo(i, "scheduling")
    /\ UNCHANGED <<files, watches, completion, inbox, streamHistory>>

\* A timer that is still running when it is no longer in completeTimer.
Loosened == IF timer # None /\ timer.live
            THEN [loose EXCEPT ![timer.loop] = @ + 1]
            ELSE loose

ScheduleComplete(i) ==
    LET r == loop[i].read
    IN  /\ Up
        /\ LoopAt(i, "scheduling")
        /\ timer' = [loop |-> i, live |-> TRUE]
        /\ pending' = [watch |-> r.watch, at |-> r.pos]
        /\ crossed' = (crossed \/ r.watch # watch)
        /\ Returns(i)
        /\ UNCHANGED <<files, watches, offset, loose, inbox, streamHistory>>

EmitComplete(i) ==
    /\ Up
    /\ LoopAt(i, "selecting")
    /\ inbox[i] # None
    /\ told' = [told EXCEPT ![inbox[i].watch] = inbox[i].at]
    /\ inbox' = [inbox EXCEPT ![i] = None]
    /\ Returns(i)
    /\ UNCHANGED <<files, watches, offset, completion, feed, torn, crossed>>

-----------------------------------------------------------------------------
(* The timer *)

\* Three seconds have passed.
Expire ==
    /\ Up
    /\ timer # None
    /\ timer.live
    /\ timer' = [timer EXCEPT !.live = FALSE]
    /\ loose' = [loose EXCEPT ![timer.loop] = @ + 1]
    /\ UNCHANGED <<files, watches, offset, loop, pending, inbox, streamHistory, crossed>>

\* The callback of a timer that loop i started takes whatever is pending.  Two
\* of them are three seconds apart, and the loop has emptied its inbox by then.
CallBack(i) ==
    /\ Up
    /\ loose[i] > 0
    /\ loose' = [Loosened EXCEPT ![i] = @ - 1]
    /\ timer' = None
    /\ pending' = None
    /\ inbox[i] = None
    /\ inbox' = [inbox EXCEPT ![i] = pending]
    /\ crossed' = (crossed \/ (pending # None /\ pending.watch # loop[i].follows))
    /\ UNCHANGED <<files, watches, offset, loop, streamHistory>>

-----------------------------------------------------------------------------
(* The specification *)

Client ==
    \/ \E s \in Session : WatchSession(s) \/ WatchSessionFails(s)
    \/ UnwatchSession

LoopStep(i) ==
    \/ TakeChannels(i) \/ End(i) \/ TakeWrite(i)
    \/ Check(i) \/ CancelPending(i) \/ ReadNextLine(i) \/ EndOfFile(i)
    \/ StoreOffset(i) \/ ScheduleComplete(i) \/ EmitComplete(i)

StreamNext ==
    \/ \E s \in Session, n \in 1 .. 2 : WriteTranscript(s, n)
    \/ Client
    \/ \E i \in Watches : LoopStep(i) \/ CallBack(i)
    \/ Expire

\* Goroutines run and timers expire.  Select picks at random among what is
\* ready, so that none of it is put off forever.
StreamFairness ==
    /\ \A i \in Watches : WF_streamVars(LoopStep(i)) /\ WF_streamVars(CallBack(i)) /\ WF_streamVars(End(i))
    /\ WF_streamVars(Expire)

StreamSpec == StreamInit /\ [][StreamNext]_streamVars /\ StreamFairness
-----------------------------------------------------------------------------
(* Properties *)

\* How far the reading for the watch that is on has come.
Position ==
    LET own == {i \in Watches : /\ loop[i].read # None
                                /\ loop[i].read.watch = watch
                                /\ loop[i].pc \in {"cancelling", "reading", "storing"}}
    IN  IF own = {} THEN offset ELSE loop[CHOOSE i \in own : TRUE].read.pos

\* The lines after the start of g that end by p.
LinesUpTo(g, p) == {k \in Line : start[g] <= 2 * k - 2 /\ 2 * k <= p}

Published(g) == {feed[g][n] : n \in DOMAIN feed[g]}

\* A watch publishes the lines of its transcript in order and once each, and up
\* to its position it has left out none that was whole when it was read: as
\* long as no loop has acted on a watch that is not its own (it took the
\* channels of a later watch, began a check after its watch had ended, stored an
\* offset or a pending event when the watch had changed during the check, or its
\* timer took what a later watch had pending).  These crossings, which the
\* sections of the mutex leave open, are the only way to lose or repeat a line
\* that was written in one piece.
FeedIsTheTranscript ==
    ~crossed =>
        /\ \A g \in Watches : \A m, n \in DOMAIN feed[g] : m < n => feed[g][m] < feed[g][n]
        /\ watch # 0 => Published(watch) = LinesUpTo(watch, Position) \ torn[watch]

\* Every line that is written to a watched transcript is published, or was met
\* half written by a check, unless the watch ends or is crossed: no write falls
\* between the end of a check and the offset it stores.
EachLineArrives ==
    \A g \in Watches, k \in Line :
        (watch = g /\ of[g] # None /\ k \in LinesUpTo(g, file[of[g]]))
        ~> (k \in torn[g] \cup Published(g) \/ watch # g \/ crossed)

\* A complete event that was scheduled is published, at the offset it was
\* scheduled for, unless more has been written, a write event is still to come,
\* or the watch ends or is crossed: callbacks, cancels and new schedules between
\* the sections of the mutex do not lose it.
CompleteFollows ==
    \A g \in Watches :
        (watch = g /\ pending # None /\ pending.watch = g)
        ~> (\/ told[g] = offset \/ writes[g] > 0 \/ watch # g \/ crossed
            \/ of[g] # None /\ file[of[g]] > offset)

\* The feed goes on: every line comes, and in the end word that it is complete.
FeedGoesOn == EachLineArrives /\ CompleteFollows
=============================================================================

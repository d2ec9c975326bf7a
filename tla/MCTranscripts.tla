----------------------------- MODULE MCTranscripts -----------------------------
(***************************************************************************)
(* What is derived from Claude's transcripts while they are written: the   *)
(* feed of a streamer and the list of sessions.  They share no state: each *)
(* behaviour is of one of them, and the other stays as it is.              *)
(*                                                                         *)
(* A streamer of either kind has two watches, a transcript that has a line *)
(* and is written to twice, by half a line or a whole one, and a           *)
(* transcript that stays missing.  After the first crossing only the loops *)
(* go on: what is checked from there is that they end.  A list sees a sync *)
(* on request or a removal, not both.                                      *)
(***************************************************************************)
EXTENDS SessionStreamer, SessionHistory

CONSTANT Growing

VARIABLE part

MCInit ==
    /\ StreamInit /\ file = [s \in Session |-> IF s \in Growing THEN 2 ELSE 0]
    /\ HistoryInit
    /\ part \in {"feed", "list"}
    /\ part = "list" => runtime = "claude"

\* Clients, writes and timers, up to the first crossing.
MCClient == ~crossed /\ Client
MCWrite ==
    /\ ~crossed
    /\ \E s \in Growing, n \in 1 .. 2 : file[s] < 5 /\ (file[s] = 3 => n = 2) /\ WriteTranscript(s, n)
MCCallBack(i) == ~crossed /\ CallBack(i)
MCExpire == ~crossed /\ Expire

FeedNext == MCClient \/ MCWrite \/ MCExpire \/ \E i \in Watches : LoopStep(i) \/ MCCallBack(i)

MCNext ==
    /\ UNCHANGED part
    /\ \/ part = "feed" /\ FeedNext /\ UNCHANGED historyVars
       \/ part = "list" /\ ListNext /\ UNCHANGED streamVars /\ syncs' + removals' <= 1

\* As in the modules; the part that a behaviour is not of owes it nothing.
Feed(A) == part = "feed" /\ A
List(A) == part = "list" /\ A

MCFairness ==
    /\ \A i \in Watches : /\ WF_streamVars(Feed(LoopStep(i))) /\ WF_streamVars(Feed(End(i)))
                         /\ WF_streamVars(Feed(MCCallBack(i)))
    /\ WF_streamVars(Feed(MCExpire))
    /\ WF_historyVars(List(SyncStep(Reconciler)))
    /\ \A x \in Calls : WF_historyVars(List(sync[x].at # "idle" /\ SyncStep(x)))
    /\ WF_historyVars(List(WatcherStep)) /\ WF_historyVars(List(DebounceStep))
    /\ WF_historyVars(List(DeleteSessionFile))

MCSpec == MCInit /\ [][MCNext]_<<streamVars, historyVars, part>> /\ MCFairness
=============================================================================

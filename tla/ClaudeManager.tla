----------------------------- MODULE ClaudeManager -----------------------------
(***************************************************************************)
(* One Claude CLI manager and the processes it starts one after the other  *)
(* (internal/adapters/claude/manager.go).  A run has a process, on pipes   *)
(* or on a terminal (PTY), the rest of the call that starts it, the        *)
(* goroutine that reads its output, the one that waits for its end and, on *)
(* a terminal, the one that types the first prompt seconds later.  What a  *)
(* goroutine does under Manager.mu is one step; it reads the terminal      *)
(* without the mutex.  Claude on a terminal shows dialogs, line by line    *)
(* (PTYParser); spinner events, log files and what a run on pipes prints,  *)
(* which nobody can answer as its stdin is closed, are left out, and so is *)
(* what is only kept for requests that ask for it: waitingForInput and the *)
(* prompt in lastPTYPermission, which outlives its run.                    *)
(***************************************************************************)
EXTENDS PTYParser

CONSTANTS
    Dialogs,     \* what Claude asks: "allow3", "allow2" (permission for a tool, with three
                 \* or two options) or "trust2" (a folder to trust)
    MaxRuns,     \* processes that are started, one after the other
    MaxPrints,   \* bound on what the processes print: dialogs and thinking lines
    MaxInputs    \* bound on the inputs that clients send

ASSUME ManagerAssumption == {MaxRuns, MaxPrints, MaxInputs} \subseteq Nat

\* As in the code, the parser asks for no more options than these dialogs have, and
\* keeps the lines of one.
ASSUME DialogsAssumption ==
    /\ Dialogs \subseteq {"allow3", "allow2", "trust2"}
    /\ EnoughOptions <= 3 /\ EnoughTrust <= 2 /\ Window >= 5

Runs == 1..MaxRuns
NoRun == 0

VARIABLES
    state,       \* m.state
    cur,         \* the run of m.cmd, m.cancel and m.ptmx, or NoRun
    kind,        \* "none" before the start, then "pipe" or "pty"
    proc,        \* "none", "live", "exited" or "reaped"
    ended,       \* why a run's context ended before its process: "no", "cancelled", "timeout"
    starter,     \* the rest of the starting call: "off", "publish" or "done"
    typer,       \* the goroutine that types the prompt: "off", "enter" or "done"
    stream,      \* the output goroutine: "off", "begin", "read", "report", "finish" or "done"
    parser,      \* its PTYParser
    ptyParser,   \* the run whose parser m.ptyParser is, or NoRun
    out,         \* lines that were printed and not read
    dialog,      \* what Claude shows: "none" or a dialog
    prints,      \* how often a process has printed, up to MaxPrints
    inputs,      \* how many inputs clients sent, up to MaxInputs
    denies,      \* goroutines about to deny a prompt
    status,      \* the last status event
    muddled,     \* history: that event came from a "!" prompt, whatever the state
    reported,    \* history: the open dialog was announced, or is being denied
    blind        \* history: see Press

terminal == <<out, dialog, prints>>
runVars == <<kind, proc, ended, starter>>
claudeVars == <<state, cur, kind, proc, ended, starter, typer, stream, parser, ptyParser,
          out, dialog, prints, inputs, denies, status, muddled, reported, blind>>

LinesOf(d) ==
    CASE d = "allow3" -> <<"allow", "option", "option", "option", "end">>
      [] d = "allow2" -> <<"allow", "option", "option", "end">>
      [] d = "trust2" -> <<"trust", "option", "option", "end">>
      [] OTHER -> <<>>

ClaudeTypeOK ==
    /\ state \in {"idle", "running", "stopped", "error"}
    /\ cur \in Runs \cup {NoRun} /\ ptyParser \in Runs \cup {NoRun}
    /\ kind \in [Runs -> {"none", "pipe", "pty"}]
    /\ proc \in [Runs -> {"none", "live", "exited", "reaped"}]
    /\ ended \in [Runs -> {"no", "cancelled", "timeout"}]
    /\ starter \in [Runs -> {"off", "publish", "done"}]
    /\ typer \in [Runs -> {"off", "enter", "done"}]
    /\ stream \in [Runs -> {"off", "begin", "read", "report", "finish", "done"}]
    /\ parser \in [Runs -> [state : PTYStates, buffer : Seq(Lines)]]
    /\ muddled \in BOOLEAN
    /\ out \in [Runs -> Seq(Lines)] /\ dialog \in [Runs -> Dialogs \cup {"none"}]
    /\ prints \in 0..MaxPrints /\ inputs \in 0..MaxInputs
    /\ denies \in Nat
    /\ status \in {"idle", "running", "stopped", "error"}
    /\ reported \subseteq Runs /\ blind \subseteq Runs

ClaudeInit ==
    /\ state = "idle" /\ status = "idle" /\ cur = NoRun /\ ptyParser = NoRun
    /\ kind = [r \in Runs |-> "none"]
    /\ proc = [r \in Runs |-> "none"]
    /\ ended = [r \in Runs |-> "no"]
    /\ starter = [r \in Runs |-> "off"]
    /\ typer = [r \in Runs |-> "off"]
    /\ stream = [r \in Runs |-> "off"]
    /\ parser = [r \in Runs |-> NewPTYParser]
    /\ muddled = FALSE
    /\ out = [r \in Runs |-> <<>>]
    /\ dialog = [r \in Runs |-> "none"]
    /\ prints = 0 /\ inputs = 0
    /\ denies = 0
    /\ reported = {} /\ blind = {}

----------------------------------------------------------------------------
(* Starting a run.                                                         *)

\* StartWithSession and StartWithPTY, under the mutex.
Start(r, k) ==
    /\ state # "running"
    /\ kind[r] = "none" /\ \A q \in 1..(r - 1) : kind[q] # "none"
    /\ kind' = [kind EXCEPT ![r] = k]
    /\ proc' = [proc EXCEPT ![r] = "live"]
    /\ state' = "running" /\ cur' = r
    /\ starter' = [starter EXCEPT ![r] = "publish"]
    /\ UNCHANGED <<ended, typer, stream, parser, ptyParser, terminal, inputs,
                   denies, status, muddled, reported, blind>>

StartWithSession(r) == Start(r, "pipe")
StartWithPTY(r) == Start(r, "pty")

\* The status event is published without the mutex; then the goroutines start.  An
\* empty first prompt is one that is typed before it has any effect.
LaunchRun(r) ==
    /\ starter[r] = "publish"
    /\ status' = "running" /\ muddled' = FALSE
    /\ starter' = [starter EXCEPT ![r] = "done"]
    /\ stream' = [stream EXCEPT ![r] = IF kind[r] = "pty" THEN "begin" ELSE "read"]
    /\ typer' = [typer EXCEPT ![r] = IF kind[r] = "pty" THEN "enter" ELSE "done"]
    /\ UNCHANGED <<state, cur, kind, proc, ended, parser, ptyParser, terminal,
                   inputs, denies,  reported, blind>>

\* A "!" prompt runs its command without the mutex and without being running, so
\* that it may end at any time; it ends with an idle event.
ExecuteBashLocally ==
    /\ status' = "idle" /\ muddled' = (state # "idle")
    /\ UNCHANGED <<state, cur, runVars, typer, stream, parser, ptyParser, terminal,
                   inputs, denies, reported, blind>>

----------------------------------------------------------------------------
(* Claude.                                                                 *)

Ask(r, d) ==
    /\ proc[r] = "live" /\ kind[r] = "pty" /\ dialog[r] = "none" /\ prints < MaxPrints
    /\ prints' = prints + 1
    /\ dialog' = [dialog EXCEPT ![r] = d]
    /\ out' = [out EXCEPT ![r] = @ \o LinesOf(d)]
    /\ reported' = reported \ {r}
    /\ UNCHANGED <<state, cur, runVars, typer, stream, parser, ptyParser, inputs,
                   denies, status, muddled, blind>>

Think(r) ==
    /\ proc[r] = "live" /\ kind[r] = "pty" /\ dialog[r] = "none" /\ prints < MaxPrints
    /\ prints' = prints + 1
    /\ out' = [out EXCEPT ![r] = Append(@, "thinking")]
    /\ UNCHANGED <<state, cur, runVars, typer, stream, parser, ptyParser, dialog,
                   inputs, denies, status, muddled, reported, blind>>

ClaudeExits(r) ==
    /\ proc[r] = "live"
    /\ proc' = [proc EXCEPT ![r] = "exited"]
    /\ dialog' = [dialog EXCEPT ![r] = "none"]
    /\ UNCHANGED <<state, cur, kind, ended, starter, typer, stream, parser, ptyParser,
                   out, prints, inputs, denies, status, muddled, reported, blind>>

\* A key reaches the terminal: an arrow draws the open dialog again, any other key
\* closes it.  The parser may take the next dialog for the one it knows if the key
\* did not reset it (byHand) or came before it had read the dialog to its end.
Press(r, key, byHand) ==
    IF proc[r] = "live" /\ dialog[r] # "none"
    THEN /\ dialog' = IF key = "arrow" THEN dialog ELSE [dialog EXCEPT ![r] = "none"]
         /\ out' = IF key = "arrow" THEN [out EXCEPT ![r] = @ \o LinesOf(dialog[r])] ELSE out
         /\ blind' = IF byHand \/ ptyParser # r \/ out[r] # <<>> \/ stream[r] # "read"
                     THEN blind \cup {r} ELSE blind
    ELSE UNCHANGED <<dialog, out, blind>>

----------------------------------------------------------------------------
(* The goroutine that reads a terminal.                                    *)

At(r, at) == stream' = [stream EXCEPT ![r] = at]

StreamPTYOutput(r) ==
    /\ stream[r] = "begin"
    /\ ptyParser' = r
    /\ At(r, "read")
    /\ UNCHANGED <<state, cur, runVars, typer, parser, terminal, inputs, denies,
                   status, muddled, reported, blind>>

\* A line is read and parsed without the mutex.
ReadLine(r) ==
    /\ stream[r] = "read" /\ kind[r] = "pty" /\ out[r] # <<>>
    /\ LET line == Head(out[r])
           result == ProcessLine(parser[r], line)
       IN  /\ parser' = [parser EXCEPT ![r] = result.parser]
           /\ At(r, IF result.prompt > 0 THEN "report" ELSE "read")
           /\ blind' = IF line = "thinking" /\ Tail(out[r]) = LinesOf(dialog[r])
                       THEN blind \ {r} ELSE blind
    /\ out' = [out EXCEPT ![r] = Tail(@)]
    /\ UNCHANGED <<state, cur, runVars, typer, ptyParser, dialog, prints, inputs, denies,
                   status, muddled, reported>>

\* The prompt is recorded under the mutex.  With a client subscribed, besides the
\* internal ones, it is announced; otherwise a goroutine denies it.
ReportPrompt(r) ==
    /\ stream[r] = "report"
    /\ denies' \in {denies, denies + 1}
    /\ reported' = reported \cup {r}
    /\ At(r, "read")
    /\ UNCHANGED <<state, cur, runVars, typer, parser, ptyParser, terminal, inputs, status, muddled, blind>>

\* Mutant of FinishPTYStreaming: a stream whose parser was replaced says nothing.
FinishIfOwn(r) ==
    /\ stream[r] = "read" /\ kind[r] = "pty" /\ ptyParser = r
    /\ (proc[r] = "exited" /\ out[r] = <<>>) \/ proc[r] = "reaped"
    /\ ptyParser' = NoRun
    /\ At(r, "finish")
    /\ UNCHANGED <<state, cur, runVars, typer, parser, terminal, inputs, denies, status, muddled, reported,
                   blind>>

\* The process has ended, or its terminal was closed: lines may be left unread.  The
\* parser is dropped.
FinishPTYStreaming(r) ==
    /\ stream[r] = "read" /\ kind[r] = "pty"
    /\ (proc[r] = "exited" /\ out[r] = <<>>) \/ proc[r] = "reaped"
    /\ ptyParser' = NoRun
    /\ parser' = [parser EXCEPT ![r] = NewPTYParser] /\ out' = [out EXCEPT ![r] = <<>>]
    /\ reported' = reported \ {r} /\ blind' = blind \ {r}
    /\ At(r, "finish")
    /\ UNCHANGED <<state, cur, runVars, typer, dialog, prints, inputs, denies,
                   status, muddled>>

\* The session is told that its terminal run is over.
OnPTYComplete(r) ==
    /\ stream[r] = "finish"
    /\ At(r, "done")
    /\ UNCHANGED <<state, cur, runVars, typer, parser, ptyParser, terminal, inputs, denies,
                   status, muddled, reported, blind>>

\* A run on pipes: its lines are published one by one.
StreamOutputEnds(r) ==
    /\ stream[r] = "read" /\ kind[r] = "pipe" /\ proc[r] = "exited"
    /\ At(r, "done")
    /\ UNCHANGED <<state, cur, runVars, typer, parser, ptyParser, terminal, inputs, denies,
                   status, muddled, reported, blind>>

----------------------------------------------------------------------------
(* Input.                                                                  *)

\* Mutant of SendPTYInput: the parser is not told of the answer.
SendUntold(key) ==
    IF state = "running" /\ cur # NoRun /\ kind[cur] = "pty"
    THEN /\ Press(cur, key, FALSE)
         /\ UNCHANGED parser
    ELSE UNCHANGED <<dialog, out, blind, parser>>

\* SendPTYInput, under the mutex: any key counts as the answer.
SendPTYInput(key) ==
    IF state = "running" /\ cur # NoRun /\ kind[cur] = "pty"
    THEN /\ Press(cur, key, FALSE)
         /\ parser' = IF ptyParser = NoRun THEN parser ELSE [parser EXCEPT ![ptyParser].state = "idle"]
    ELSE UNCHANGED <<dialog, out, blind, parser>>

Input(key) ==
    /\ inputs < MaxInputs /\ cur # NoRun /\ kind[cur] = "pty"
    /\ inputs' = inputs + 1
    /\ SendPTYInput(key)
    /\ UNCHANGED <<state, cur, runVars, typer, stream, ptyParser, prints, denies, status,
                   muddled, reported>>

\* A goroutine that denies a prompt, 100 ms later.
Deny ==
    /\ denies > 0
    /\ denies' = denies - 1
    /\ SendPTYInput("escape")
    /\ UNCHANGED <<state, cur, runVars, typer, stream, ptyParser, prints, inputs, status, muddled, reported>>

\* The first prompt, typed past SendPTYInput: its text, which a dialog ignores, and
\* 200 ms later Enter, which takes the selected option of an open one.
TypePrompt(r) ==
    /\ typer[r] = "enter"
    /\ typer' = [typer EXCEPT ![r] = "done"]
    /\ Press(r, "enter", TRUE)
    /\ UNCHANGED <<state, cur, runVars, stream, parser, ptyParser, prints, inputs, denies,
                   status, muddled, reported>>

----------------------------------------------------------------------------
(* The end of a run.                                                       *)

\* Stop cancels and terminates; the state changes when the process has ended.
Stop ==
    /\ state = "running"
    /\ ended' = IF cur # NoRun /\ ended[cur] = "no" THEN [ended EXCEPT ![cur] = "cancelled"] ELSE ended
    /\ UNCHANGED <<state, cur, kind, proc, starter, typer, stream, parser, ptyParser,
                   terminal, inputs, denies, status, muddled, reported, blind>>

Timeout(r) ==
    /\ proc[r] = "live" /\ ended[r] = "no"
    /\ ended' = [ended EXCEPT ![r] = "timeout"]
    /\ UNCHANGED <<state, cur, kind, proc, starter, typer, stream, parser, ptyParser,
                   terminal, inputs, denies, status, muddled, reported, blind>>

\* Otherwise the exit code decides.
Outcomes(r) ==
    CASE ended[r] = "cancelled" -> {"stopped"}
      [] ended[r] = "timeout" -> {"error"}
      [] OTHER -> {"idle", "error"}

\* The goroutine that waits for the process, and on pipes for the output first.
\* A prompt that is still to be typed goes to a closed terminal.
ReapRun(r) ==
    /\ starter[r] = "done" /\ proc[r] = "exited"
    /\ kind[r] = "pipe" => stream[r] = "done"
    /\ proc' = [proc EXCEPT ![r] = "reaped"]
    /\ state' \in Outcomes(r) /\ status' = state' /\ muddled' = FALSE
    /\ ended' = [ended EXCEPT ![r] = "no"]
    /\ cur' = NoRun
    /\ typer' = [typer EXCEPT ![r] = "done"]
    /\ UNCHANGED <<kind, starter, stream, parser, ptyParser, terminal, inputs,
                   denies,  reported, blind>>

----------------------------------------------------------------------------
Goroutines(r) ==
    \/ LaunchRun(r)
    \/ StreamPTYOutput(r)
    \/ ReadLine(r)
    \/ ReportPrompt(r)
    \/ FinishPTYStreaming(r)
    \/ OnPTYComplete(r)
    \/ StreamOutputEnds(r)
    \/ ReapRun(r)

ClaudeNext ==
    \/ \E r \in Runs :
          \/ StartWithSession(r)
          \/ StartWithPTY(r)
          \/ Goroutines(r)
          \/ \E d \in Dialogs : Ask(r, d)
          \/ Think(r)
          \/ ClaudeExits(r)
          \/ TypePrompt(r)
          \/ Timeout(r)
    \/ \E key \in {"arrow", "other"} : Input(key)
    \/ ExecuteBashLocally
    \/ Deny
    \/ Stop

\* The goroutines of a run are scheduled, and a process whose context has ended is
\* killed; a process need not end by itself.
ClaudeFairness == \A r \in Runs : WF_claudeVars(Goroutines(r) \/ (ClaudeExits(r) /\ ended[r] # "no"))

ClaudeSpec == ClaudeInit /\ [][ClaudeNext]_claudeVars /\ ClaudeFairness

----------------------------------------------------------------------------
(* Properties.                                                             *)

\* A manager never has two Claude processes: a stopped process keeps the state
\* running until it has ended (Stop, the goroutine that waits).
OneProcessAtATime == \A q, r \in Runs : proc[q] = "live" /\ proc[r] = "live" => q = r

\* What clients were told last is the manager's state, unless a call is about to
\* publish or a "!" prompt ended: the event that a run began is published without
\* the mutex, and still never after the event that it ended.
StatusIsPublished == (\A r \in Runs : starter[r] # "publish") /\ ~muddled => status = state

\* Once a dialog was read to its end, clients were told of it or it is being denied,
\* whatever was asked and answered before: the input that answers a dialog makes the
\* parser look for the next one.  Not so after a key that came too early, was typed
\* past SendPTYInput, or found the parser lost to the end of the run before, until
\* Claude thinks again with nothing of an answered dialog left to read; nor for
\* a permission with two options, which the parser never detects by itself.
PromptsAreAnnounced ==
    \A r \in Runs :
        /\ dialog[r] \in {"allow3", "trust2"}
        /\ out[r] = <<>> /\ stream[r] = "read"
        => r \in reported \cup blind

\* A run that is stopped or times out ends, and the session is told so, even if the
\* next run has taken its place in the manager by then.
EndsAreReported ==
    \A r \in Runs : ended[r] # "no" ~> (proc[r] = "reaped" /\ stream[r] = "done")
\* The phones see Claude as it is: its state, and every dialog it waits in.
ClaudeIsShown == StatusIsPublished /\ PromptsAreAnnounced
=============================================================================

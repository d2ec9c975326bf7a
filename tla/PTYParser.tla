------------------------------- MODULE PTYParser -------------------------------
(***************************************************************************)
(* The prompt detector for Claude's terminal output, line by line          *)
(* (internal/adapters/claude/pty_parser.go).  A line is abstracted to the  *)
(* patterns it matches; a record stands for a PTYParser.                   *)
(***************************************************************************)
EXTENDS Naturals, Sequences, FiniteSetsExt

CONSTANTS
    Window,         \* lines that the buffer keeps: 30
    EnoughOptions,  \* numbered options that make a prompt without an end marker: 3
    EnoughTrust     \* options that make a trust-folder prompt: 2

ASSUME ParserAssumption == {Window, EnoughOptions, EnoughTrust} \subseteq Nat \ {0}

\* "thinking": (esc to interrupt ...); "error": Error: ...; "normal": output that
\* ends an error or a question; "question": ends with ?; "allow": Do you want to
\* ...?; "trust": Do you trust the files in this folder?; "option": 1. Yes;
\* "end": Esc to cancel; "text": anything else.
Lines == {"thinking", "error", "normal", "question", "allow", "trust", "option", "end", "text"}

PTYStates == {"idle", "thinking", "permission", "question", "error"}

NewPTYParser == [state |-> "idle", buffer |-> <<>>]

Count(buffer, kinds) == Cardinality({i \in DOMAIN buffer : buffer[i] \in kinds})

\* promptEndPattern is anchored and not multi-line: in the joined buffer it can
\* match at the first line only.
HasPromptEnd(buffer) == buffer[1] = "end"

\* detectPermissionFromBuffer: whether the buffer holds a prompt.
DetectPermissionFromBuffer(buffer) ==
    LET options == Count(buffer, {"option"})
    IN  /\ Len(buffer) >= 2
        /\ options > 0
        /\ \/ HasPromptEnd(buffer)
           \/ Count(buffer, {"trust"}) > 0 /\ options >= EnoughTrust
           \/ /\ Count(buffer, {"trust"}) = 0 /\ Count(buffer, {"allow"}) > 0
              /\ options >= EnoughOptions

Slide(buffer) == IF Len(buffer) > Window THEN Tail(buffer) ELSE buffer

\* ProcessLine: the parser afterwards, and the number of options of the prompt
\* that was detected, 0 if none was.
ProcessLine(p, line) ==
    LET settled == IF p.state \in {"error", "question"} /\ line = "normal" THEN "idle" ELSE p.state
        buffer == Slide(Append(p.buffer, line))
    IN  CASE line = "thinking" -> [parser |-> [state |-> "thinking", buffer |-> <<>>], prompt |-> 0]
          [] line = "error" -> [parser |-> [p EXCEPT !.state = "error"], prompt |-> 0]
          [] OTHER ->
               IF settled # "permission" /\ DetectPermissionFromBuffer(buffer)
               THEN [parser |-> [state |-> "permission", buffer |-> <<>>],
                     prompt |-> Count(buffer, {"option"})]
               ELSE [parser |-> [state |-> IF line = "question" THEN "question" ELSE settled,
                                 buffer |-> buffer],
                     prompt |-> 0]
=============================================================================

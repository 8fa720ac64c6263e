---------------------------- MODULE DebugSession ----------------------------
(***************************************************************************)
(* The text debugger session of d8.js: the shared cursor Debug.State, the  *)
(* command parser DebugRequest (text -> JSON request), the response        *)
(* formatter DebugResponseDetails (JSON response -> text) and the event    *)
(* renderer DebugEventToText.  The execution engine that stops the         *)
(* debuggee, answers requests and resumes it is outside this repository;   *)
(* it is modelled at its boundary (spec section 6) as a nondeterministic   *)
(* environment.                                                            *)
(*                                                                         *)
(* Data abstraction: a command line is the sequence of its space-separated *)
(* tokens (the parser splits on runs of spaces); a source line is a number *)
(* or Undef when the frame has no script; JavaScript's NaN is a model      *)
(* value and arithmetic on it is modelled by JsSub/JsAdd/JsLess.           *)
(***************************************************************************)
EXTENDS Integers, Sequences, SequencesExt, TLC

CONSTANTS
    Lines,        \* source lines (0-based) at which a frame can stand
    MaxDepth,     \* deepest stack the engine reports
    MaxEpisodes,  \* bound on the number of break/exception events
    Receivers,    \* receiver kinds a stopped frame may have
    ArgTokens,    \* argument tokens a user may type
    RawRequests,  \* requests a user may type directly as JSON ('{...')
    NaN,          \* JavaScript NaN
    Undef,        \* JavaScript undefined
    Invalid,      \* the parser threw (syntax error, no request)
    NoRequest,    \* no request outstanding / help produced none
    NoResponse,   \* no response waiting to be formatted
    Garbage       \* a response text that does not evaluate as JSON

VARIABLES
    currentFrame,       \* Debug.State.currentFrame
    currentSourceLine,  \* Debug.State.currentSourceLine
    running,            \* engine: the debuggee runs (no command loop)
    stack,              \* engine: frames of the current break, frame 0 first
    episodes,           \* engine: number of break/exception events so far
    request,            \* the JSON text of the request not yet answered
    response,           \* the engine's response not yet formatted
    typed               \* ghost: the last command line the user typed

vars == <<currentFrame, currentSourceLine, running, stack, episodes,
          request, response, typed>>

\* const kNoFrame = -1
kNoFrame == -1

-----------------------------------------------------------------------------
(* JavaScript number semantics needed by the parser.                        *)

\* Tokens whose text is a decimal numeral, with their value.
Numerals == ("0" :> 0) @@ ("1" :> 1) @@ ("3" :> 3) @@ ("-1" :> -1)
\* Tokens with a numeral prefix followed by junk: parseInt reads the prefix.
NumeralPrefixed == ("2x" :> 2)
Vocabulary == DOMAIN Numerals \cup DOMAIN NumeralPrefixed
              \cup {"x", "in", "m", "next", "out", "natives", "extensions", "all"}

ParseInt(t) ==
    IF t \in DOMAIN Numerals THEN Numerals[t]
    ELSE IF t \in DOMAIN NumeralPrefixed THEN NumeralPrefixed[t]
    ELSE NaN

\* Every value the parser computes is an integer, NaN or undefined.
IsNum(v) == v \notin {NaN, Undef}
\* a - b and a + b where undefined and NaN operands give NaN
JsSub(a, b) == IF IsNum(a) /\ IsNum(b) THEN a - b ELSE NaN
JsAdd(a, b) == IF IsNum(a) /\ IsNum(b) THEN a + b ELSE NaN
\* a < b is false whenever an operand is NaN
JsLess(a, b) == IsNum(a) /\ IsNum(b) /\ a < b

\* Debug.ScriptType and ScriptTypeFlag (defined by the engine's debugger
\* script): one bit per script type.
ScriptType == [Native |-> 0, Extension |-> 1, Normal |-> 2]
ScriptTypeFlag(type) == 2 ^ type

-----------------------------------------------------------------------------
(* Requests.  A request is the RequestPacket's command and its arguments   *)
(* object; an argument left undefined is omitted by SimpleObjectToJSON_,   *)
(* and a request without an arguments object has the empty function.      *)

NoArgs == <<>>
Req(cmd, args) == [command |-> cmd, arguments |-> args]

ContinueRequest(toks) == Req("continue", NoArgs)

StepActions == ("in" :> "in") @@ ("i" :> "in") @@ ("min" :> "min")
               @@ ("m" :> "min") @@ ("next" :> "next") @@ ("n" :> "next")
               @@ ("out" :> "out") @@ ("o" :> "out")

\* stepCommandToJSONRequest_: the count is checked before the action.
StepRequest(toks) ==
    IF toks = <<>> THEN Req("continue", "stepaction" :> "next")
    ELSE IF Len(toks) > 2 THEN Invalid
    ELSE IF Len(toks) = 2 /\ ~(IsNum(ParseInt(toks[2])) /\ ParseInt(toks[2]) > 0)
         THEN Invalid
    ELSE IF toks[1] \notin DOMAIN StepActions THEN Invalid
    ELSE Req("continue",
             ("stepaction" :> StepActions[toks[1]])
             @@ (IF Len(toks) = 2 THEN "stepcount" :> ParseInt(toks[2])
                 ELSE NoArgs))

\* backtraceCommandToJSONRequest_: only exactly two tokens give a range.
BacktraceRequest(toks) ==
    IF Len(toks) # 2 THEN Req("backtrace", NoArgs)
    ELSE LET from == ParseInt(toks[1])
             to   == ParseInt(toks[2])
         IN  IF ~IsNum(from) \/ from < 0 THEN Invalid
             ELSE IF ~IsNum(to) \/ to < 0 THEN Invalid
             ELSE IF from > to THEN Invalid
             ELSE Req("backtrace", ("fromFrame" :> from) @@ ("toFrame" :> to + 1))

\* frameCommandToJSONRequest_: the token is sent as a string, unchecked.
FrameRequest(toks) ==
    IF toks = <<>> THEN Req("frame", NoArgs)
    ELSE Req("frame", "number" :> toks[1])

\* Mutant: print sent under its text-command name instead of "evaluate".
PrintRequestCommandName(toks) ==
    IF toks = <<>> THEN Invalid
    ELSE Req("print", "expression" :> toks)

PrintRequest(toks) ==
    IF toks = <<>> THEN Invalid
    ELSE Req("evaluate", "expression" :> toks)

\* sourceCommandToJSONRequest_ reads Debug.State.currentSourceLine.
SourceRequest(toks) ==
    LET from0  == JsSub(currentSourceLine, 5)
        from1  == IF Len(toks) >= 1 THEN JsSub(ParseInt(toks[1]), 1) ELSE from0
        lines1 == IF Len(toks) >= 2 THEN ParseInt(toks[2]) ELSE 10
        from   == IF JsLess(from1, 0) THEN 0 ELSE from1
        lines  == IF JsLess(lines1, 0) THEN 10 ELSE lines1
    IN  Req("source", ("fromLine" :> from) @@ ("toLine" :> JsAdd(from, lines)))

ScriptsFlags ==
    ("natives" :> ScriptTypeFlag(ScriptType.Native))
    @@ ("extensions" :> ScriptTypeFlag(ScriptType.Extension))
    @@ ("all" :> (ScriptTypeFlag(ScriptType.Normal)
                  + ScriptTypeFlag(ScriptType.Native)
                  + ScriptTypeFlag(ScriptType.Extension)))

ScriptsRequest(toks) ==
    IF toks = <<>> THEN Req("scripts", NoArgs)
    ELSE IF Len(toks) > 1 \/ toks[1] \notin DOMAIN ScriptsFlags THEN Invalid
    ELSE Req("scripts", "types" :> ScriptsFlags[toks[1]])

\* breakCommandToJSONRequest_: target up to the first space, the rest is
\* the condition, undefined when there is no space.
BreakRequest(toks) ==
    IF toks = <<>> THEN Invalid
    ELSE Req("setbreakpoint",
             ("type" :> "function") @@ ("target" :> toks[1])
             @@ ("condition" :> IF Len(toks) > 1 THEN Tail(toks) ELSE Undef))

\* clearCommandToJSONRequest_: parseInt of the whole argument string.
ClearRequest(toks) ==
    IF toks = <<>> THEN Invalid
    ELSE Req("clearbreakpoint", "breakpoint" :> ParseInt(toks[1]))

\* DebugRequest: dispatch on the first token of the trimmed line.
DebugRequest(cmd, toks) ==
    CASE cmd \in {"continue", "c"}  -> ContinueRequest(toks)
      [] cmd \in {"step", "s"}      -> StepRequest(toks)
      [] cmd \in {"backtrace", "bt"} -> BacktraceRequest(toks)
      [] cmd \in {"frame", "f"}     -> FrameRequest(toks)
      [] cmd \in {"print", "p"}     -> PrintRequest(toks)
      [] cmd = "source"             -> SourceRequest(toks)
      [] cmd = "scripts"            -> ScriptsRequest(toks)
      [] cmd \in {"break", "b"}     -> BreakRequest(toks)
      [] cmd = "clear"              -> ClearRequest(toks)
      [] cmd \in {"help", "?"}      -> NoRequest
      [] OTHER                      -> Invalid

CommandWords == {"continue", "step", "backtrace", "frame", "print", "source",
                 "scripts", "break", "clear", "help", "bogus"}
CommandLines == {<<c>> \o t : c \in CommandWords, t \in BoundedSeq(ArgTokens, 2)}
              \cup {<<"step", "in", "1", "1">>}

-----------------------------------------------------------------------------
(* The execution engine at its boundary (spec sections 5 and 6).  It      *)
(* parses the request text.  A frame carries the source line it stands   *)
(* at, Undef when its function is unresolved or has no script             *)
(* (FrameMirror.sourceLine returns undefined), and the kind of its        *)
(* receiver.                                                              *)

Frames == [line : Lines \cup {Undef}, receiver : Receivers]

\* FrameMirror.invocationText of a normal frame throws when receiver.toText()
\* does, for an object whose 'constructor' is not a function
\* ("badConstructor"), and when the receiver is a primitive other than null
\* and undefined, whose mirror has no lookupProperty for the prototype walk
\* (module FrameText).  "object" is an object with a constructor function.
InvocationThrows(fr) == fr.receiver \notin {"object", "null", "undefined"}
Stacks == UNION {[1..n -> Frames] : n \in 1..MaxDepth}

\* The body of a successful frame response: the frame's index and line.
FrameBody(i) == [index |-> i, line |-> stack[i + 1].line]

\* The engine reads the frame number, a JSON string, with JavaScript's
\* number coercion.
ToNumber(v) == IF v \in DOMAIN Numerals THEN Numerals[v] ELSE NaN

-----------------------------------------------------------------------------
(* Request encoding: RequestPacket.toJSONProtocol and SimpleObjectToJSON_   *)
(* write the request as JSON text, which the engine parses.  The text is   *)
(* abstracted to its tree of members; a literal is a string, a number, or  *)
(* bare text such as NaN that is no JSON value.  Member order is left out: *)
(* no property depends on it.                                              *)

\* typeof of each argument as the handlers assign it: parseInt results and
\* flag sums are numbers, tokens and substrings are strings.
ArgTypes ==
    [stepcount |-> "number", fromFrame |-> "number", toFrame |-> "number",
     fromLine |-> "number", toLine |-> "number", types |-> "number",
     breakpoint |-> "number", stepaction |-> "string", number |-> "string",
     expression |-> "string", type |-> "string", target |-> "string",
     condition |-> "string"]
JsTypeOf(key, v) == IF v = Undef THEN "undefined" ELSE ArgTypes[key]

\* NumberToJSON_ is String(value): a numeral, or the text NaN.
NumberToJSON(v) == IF v = NaN THEN [bare |-> "NaN"] ELSE [num |-> v]
StringToJSON(v) == [str |-> v]
\* The switch on typeof; any other type gives null, which is falsy.
JsonNull == [bare |-> "null"]
PropertyToJSON(key, v) ==
    CASE JsTypeOf(key, v) = "number" -> NumberToJSON(v)
      [] JsTypeOf(key, v) = "string" -> StringToJSON(v)
      [] OTHER                       -> JsonNull

\* Mutant: the 'if (property_value_json)' test is dropped, so an undefined
\* member is written as "key":null.
SimpleObjectToJSONKeepsNull(obj) ==
    [k \in DOMAIN obj |-> PropertyToJSON(k, obj[k])]

\* SimpleObjectToJSON_: a member for every key whose JSON text is truthy.
SimpleObjectToJSON(obj) ==
    LET kept == {k \in DOMAIN obj : PropertyToJSON(k, obj[k]) # JsonNull}
    IN  [k \in kept |-> PropertyToJSON(k, obj[k])]

\* RequestPacket.toJSONProtocol: seq, type, command when truthy, and the
\* arguments object when there is one.
RequestJSON(req) ==
    ("seq" :> [num |-> 0]) @@ ("type" :> StringToJSON("request"))
    @@ ("command" :> StringToJSON(req.command))
    @@ (IF req.arguments # NoArgs
        THEN "arguments" :> [obj |-> SimpleObjectToJSON(req.arguments)]
        ELSE NoArgs)

\* The engine's JSON.parse: bare text other than null is a syntax error.
ParseError == [error |-> "SyntaxError"]
IsJsonLiteral(lit) == "bare" \in DOMAIN lit => lit.bare = "null"
ParseMembers(m) ==
    [k \in DOMAIN m |-> IF "num" \in DOMAIN m[k] THEN m[k].num
                        ELSE IF "str" \in DOMAIN m[k] THEN m[k].str
                        ELSE m[k].bare]
ParseRequest(json) ==
    LET args == IF "arguments" \in DOMAIN json THEN json.arguments.obj
                ELSE NoArgs
    IN  IF \E k \in DOMAIN args : ~IsJsonLiteral(args[k]) THEN ParseError
        ELSE [command |-> json.command.str, arguments |-> ParseMembers(args)]

\* A failure response; the formatter reads no more than its success flag.
Failure == [success |-> FALSE, running |-> FALSE,
            command |-> Undef, body |-> NoResponse]
Success(req, run, body) == [success |-> TRUE, running |-> run,
                            command |-> req.command, body |-> body]

\* The responses the engine may give to a request text.  Any request may
\* fail, and one that is not JSON always does; a frame request succeeds
\* only for a frame of the current stack, and a number that is not a
\* number leaves the choice of frame to the engine.
Replies(json) ==
    LET req == ParseRequest(json) IN
    {Failure, Garbage} \cup
    IF req = ParseError THEN {}
    ELSE CASE req.command = "continue" -> {Success(req, TRUE, NoResponse)}
           [] req.command = "frame" ->
                LET a == req.arguments
                    n == IF "number" \in DOMAIN a THEN ToNumber(a.number) ELSE NaN
                    frames == IF n = NaN THEN 0..Len(stack) - 1
                              ELSE {n} \cap (0..Len(stack) - 1)
                IN  {Success(req, FALSE, FrameBody(i)) : i \in frames}
           [] OTHER -> {Success(req, FALSE, NoResponse)}

Init ==
    /\ currentFrame = kNoFrame
    /\ currentSourceLine = -1
    /\ running = TRUE
    /\ stack = <<>>
    /\ episodes = 0
    /\ request = NoRequest
    /\ response = NoResponse
    /\ typed = <<>>

-----------------------------------------------------------------------------
(* Mutants: plausible slips in the handlers below, each one of which a      *)
(* property of MCDebugSession.cfg must catch.                               *)

\* The break renderer forgets to reset Debug.State.currentFrame to 0.
BreakEventKeepsFrame ==
    /\ running
    /\ episodes < MaxEpisodes
    /\ \E s \in Stacks :
        /\ stack' = s
        /\ currentSourceLine' = s[1].line
    /\ running' = FALSE
    /\ episodes' = episodes + 1
    /\ UNCHANGED <<currentFrame, request, response, typed>>

\* A frame response moves the frame index but leaves the source line.
FormatResponseFrameIndexOnly ==
    /\ response # NoResponse
    /\ response' = NoResponse
    /\ IF response = Garbage \/ ~response.success
       THEN UNCHANGED <<currentFrame, currentSourceLine, running, stack>>
       ELSE /\ IF response.command = "frame"
               THEN /\ currentFrame' = response.body.index
                    /\ UNCHANGED currentSourceLine
               ELSE UNCHANGED <<currentFrame, currentSourceLine>>
            /\ running' = response.running
            /\ stack' = IF response.running THEN <<>> ELSE stack
    /\ UNCHANGED <<episodes, request, typed>>

-----------------------------------------------------------------------------
(* Actions.                                                                 *)

\* The debuggee stops in a break and DebugEventToText renders the break
\* event: the session cursor moves to frame 0 and its line.  The text is
\* built first, and it calls frame 0's invocationText: when that throws,
\* the exception leaves DebugEventToText before Debug.State is written.
BreakEvent ==
    /\ running
    /\ episodes < MaxEpisodes
    /\ \E s \in Stacks :
        /\ stack' = s
        /\ IF InvocationThrows(s[1])
           THEN UNCHANGED <<currentSourceLine, currentFrame>>
           ELSE /\ currentSourceLine' = s[1].line
                /\ currentFrame' = 0
    /\ running' = FALSE
    /\ episodes' = episodes + 1
    /\ UNCHANGED <<request, response, typed>>

\* The debuggee stops on an exception; with frames the cursor moves to
\* frame 0, with an empty stack it is reset to no frame.
ExceptionEvent ==
    /\ running
    /\ episodes < MaxEpisodes
    /\ \E s \in Stacks \cup {<<>>} :
        /\ stack' = s
        /\ IF s # <<>>
           THEN /\ currentSourceLine' = s[1].line
                /\ currentFrame' = 0
           ELSE /\ currentSourceLine' = -1
                /\ currentFrame' = kNoFrame
    /\ running' = FALSE
    /\ episodes' = episodes + 1
    /\ UNCHANGED <<request, response, typed>>

\* While stopped, the user types a command line; DebugCommandToJSONRequest
\* turns it into a request, or throws, or (help) produces none.
UserCommand ==
    /\ ~running
    /\ request = NoRequest
    /\ response = NoResponse
    /\ \E line \in CommandLines :
        LET r == DebugRequest(line[1], Tail(line))
        IN  /\ typed' = line
            /\ request' = IF r \in {Invalid, NoRequest} THEN NoRequest
                           ELSE RequestJSON(r)
    /\ UNCHANGED <<currentFrame, currentSourceLine, running, stack, episodes,
                   response>>

\* A line starting with '{' is passed through verbatim as the request.
RawCommand ==
    /\ ~running
    /\ request = NoRequest
    /\ response = NoResponse
    /\ \E r \in RawRequests :
        /\ request' = r
        /\ typed' = <<"{">>
    /\ UNCHANGED <<currentFrame, currentSourceLine, running, stack, episodes,
                   response>>

\* The engine answers the outstanding request.
EngineReply ==
    /\ request # NoRequest
    /\ \E r \in Replies(request) : response' = r
    /\ request' = NoRequest
    /\ UNCHANGED <<currentFrame, currentSourceLine, running, stack, episodes,
                   typed>>

\* DebugResponseDetails formats the response.  A failed or unparsable
\* response changes nothing; a running response ends the command loop and
\* the debuggee resumes; a frame response moves the session cursor.
FormatResponse ==
    /\ response # NoResponse
    /\ response' = NoResponse
    /\ IF response = Garbage \/ ~response.success
       THEN UNCHANGED <<currentFrame, currentSourceLine, running, stack>>
       ELSE /\ IF response.command = "frame"
               THEN /\ currentSourceLine' = response.body.line
                    /\ currentFrame' = response.body.index
               ELSE UNCHANGED <<currentFrame, currentSourceLine>>
            /\ running' = response.running
            /\ stack' = IF response.running THEN <<>> ELSE stack
    /\ UNCHANGED <<episodes, request, typed>>

Next ==
    \/ BreakEvent
    \/ ExceptionEvent
    \/ UserCommand
    \/ RawCommand
    \/ EngineReply
    \/ FormatResponse

\* The transport is a synchronous call: a request is always answered and
\* the answer always formatted.
Spec == Init /\ [][Next]_vars /\ WF_vars(EngineReply) /\ WF_vars(FormatResponse)

-----------------------------------------------------------------------------
(* Properties.                                                              *)

TypeOK ==
    /\ currentFrame \in {kNoFrame} \cup (0..MaxDepth - 1)
    /\ currentSourceLine \in {-1, Undef} \cup Lines
    /\ running \in BOOLEAN
    /\ stack \in Stacks \cup {<<>>}
    /\ episodes \in 0..MaxEpisodes
    /\ request = NoRequest \/ request.command.str \in
         {"continue", "backtrace", "frame", "evaluate", "source", "scripts",
          "setbreakpoint", "clearbreakpoint"}
    /\ response \in {NoResponse, Garbage}
       \/ response.body \in {NoResponse} \cup [index : Nat, line : Lines \cup {Undef}]

\* While the debuggee is stopped, the session cursor (Debug.State) names a
\* frame of the current break and that frame's source line, and it is
\* "no frame" exactly when the stack is empty.  Break and exception events
\* and frame responses all write the cursor; a cursor kept from an earlier
\* break, or a frame index and a line taken from different frames, breaks it.
SessionMatchesStack ==
    ~running =>
        /\ (currentFrame = kNoFrame) <=> (stack = <<>>)
        /\ currentFrame # kNoFrame =>
               /\ currentFrame \in 0..Len(stack) - 1
               /\ currentSourceLine = stack[currentFrame + 1].line
        /\ currentFrame = kNoFrame => currentSourceLine = -1

\* The session implements SessionCursor: the debuggee is stopped when it
\* is not running, the stack is the engine's, the cursor is Debug.State,
\* and a question is pending from the parser's request until the formatter
\* has consumed the engine's response.
Cursor == INSTANCE SessionCursor
    WITH FrameRecords <- Frames, NoFrame <- kNoFrame, NoLine <- -1,
         stopped <- ~running, frames <- stack,
         cursor <- [frame |-> currentFrame, line |-> currentSourceLine],
         pending <- request # NoRequest \/ response # NoResponse

\* Every step of the session (events, typed and raw commands, engine
\* replies, failed and unparsable responses, frame and continue responses)
\* is a step of SessionCursor or leaves its state alone: the cursor moves
\* only on a stop, to the top frame, or on a frame response, to a frame of
\* the current stack with that frame's line; and a question asked is
\* eventually answered.
ImplementsSessionCursor == Cursor!Spec

\* Spec 7: a non-numeric count, frame, line or breakpoint id is a syntax
\* error that produces no request, so every request the engine is sent is
\* JSON whose numeric arguments are numbers: NumberToJSON_ writes a NaN as
\* the text NaN, which JSON.parse rejects.  This covers the arguments the
\* user typed and the ones the parser computes from Debug.State, such as
\* the default window of a bare "source" (spec 4.3: five lines above the
\* current line, clamped at 0), and the frame number sent as a string.
RequestArgumentsValidated ==
    request # NoRequest =>
        LET req == ParseRequest(request) IN
        /\ req # ParseError
        /\ "number" \in DOMAIN req.arguments =>
               ToNumber(req.arguments.number) # NaN

\* The request text carries exactly what the parser built: while a typed
\* command's request is outstanding, the engine reads back from
\* RequestPacket.toJSONProtocol and SimpleObjectToJSON_ the parser's
\* command and every argument it set to a defined value, and no argument
\* it left undefined (a break without a condition), or it fails to parse
\* exactly when an argument is NaN.  The parser is re-run on the line
\* typed: Debug.State, which it reads, does not change until the request
\* is answered.
RequestReadBack ==
    request # NoRequest /\ typed # <<"{">> =>
        LET r       == DebugRequest(typed[1], Tail(typed))
            defined == {k \in DOMAIN r.arguments : r.arguments[k] # Undef}
        IN  ParseRequest(request) =
              IF \E k \in defined : r.arguments[k] = NaN THEN ParseError
              ELSE [command |-> r.command,
                    arguments |-> [k \in defined |-> r.arguments[k]]]
=============================================================================

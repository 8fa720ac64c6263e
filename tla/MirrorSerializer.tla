--------------------------- MODULE MirrorSerializer ---------------------------
(***************************************************************************)
(* The mirror model and JSONProtocolSerializer of mirror-delay.js: a       *)
(* debuggee heap, the mirrors MakeMirror and ObjectMirror.property build   *)
(* over it, and the serialization of a mirror, which recurses into the     *)
(* mirrors of constructors, prototypes, properties, property values and   *)
(* accessors, and of stack frames, which nest their receiver, function,   *)
(* arguments and locals and carry invocationText.  The heap may be cyclic (an object's property may hold the  *)
(* object itself); the depth of the recursion is what the details flag    *)
(* bounds.                                                                *)
(*                                                                         *)
(* Data abstraction: a serialization is a Node, the JSON object's type,   *)
(* the keys it carries in order and the nested serializations in order;   *)
(* scalar field values, text and class names are left out.  A JavaScript  *)
(* exception is the value Thrown, recursion past Fuel levels (a stack      *)
(* overflow in the code) is Diverged.                                     *)
(***************************************************************************)
EXTENDS FrameMirror

CONSTANTS
    Fuel,       \* recursion depth treated as unbounded
    Diverged,   \* the serializer recursed without bound
    NotRun      \* serialize has not been called yet

VARIABLES
    heap,       \* heap[o]: the shape of object o
    root,       \* the mirror passed to toJSONProtocol
    details,    \* the details argument of that call
    out         \* the serialization it returns

vars == <<heap, root, details, out>>

\* The first failed nested serialization among kids, if any.
Failures == {Thrown, Diverged}
FirstFailure(kids) ==
    kids[CHOOSE i \in DOMAIN kids : kids[i].node \in Failures
            /\ \A j \in 1..i - 1 : kids[j].node \notin Failures]

\* ArrayToJSONObject_ over the pairs pushed: the JSON object of a mirror of
\* type t reflecting x, with its keys and nested serializations in order,
\* or the exception that left serialize.
Node(t, x, keys, kids) ==
    IF \E i \in DOMAIN kids : kids[i].node \in Failures THEN FirstFailure(kids).node
    ELSE [type |-> t, of |-> x, keys |-> keys, kids |-> kids]

Kid(key, n) == [key |-> key, node |-> n]
Kids(key, ns) == [i \in DOMAIN ns |-> Kid(key, ns[i])]
\* The 'text' pair serialize pushes last: mirror.toText() throws after the
\* pairs before it were built, unless one of those threw first.
WithText(n, t) == IF n \notin Failures /\ t = Thrown THEN Thrown ELSE n
KeysIf(b, ks) == IF b THEN ks ELSE <<>>

\* Mutant: the script serialized without its text.
ScriptNodeNoText == Node("script", "script", <<"type", "name", "lineOffset",
                         "columnOffset", "lineCount", "scriptType">>, <<>>)

\* The script of a function, serialized by toJSONProtocol() with no details:
\* name, offsets, line count, type and text, nothing nested.
ScriptNode == Node("script", "script", <<"type", "name", "lineOffset",
                   "columnOffset", "lineCount", "scriptType", "text">>, <<>>)

\* Mirror of the value of the object's 'prototype' property: no object of
\* the model has one.
PrototypeObject(h, o) == MakeMirror(h, "undefined")

RECURSIVE Serialize(_, _, _, _), SerializeObject(_, _, _, _),
          SerializeObjectPropagatesDetails(_, _, _, _),
          SerializeFrame(_, _, _), SerializeFrameUnnamedArguments(_, _, _)

\* serializeObject_ for an UnresolvedFunctionMirror, which only a frame
\* makes: class name 'Function', undefined constructor and prototypes, no
\* properties (the runtime reports no interceptor for a string), name and
\* resolved, and no source and no script, which need resolved().
SerializeUnresolved(d) ==
    LET u == ValueMirror("undefined", "undefined")
        undefinedNode == Node(u.type, u.val, <<"type", "text">>, <<>>)
    IN  Node("function", Unresolved,
             <<"type", "className">>
             \o KeysIf(d, <<"constructorFunction", "protoObject",
                            "prototypeObject", "properties",
                            "interceptorProperties">>)
             \o <<"name", "resolved", "text">>,
             KeysIf(d, <<Kid("constructorFunction", undefinedNode),
                         Kid("protoObject", undefinedNode),
                         Kid("prototypeObject", undefinedNode)>>))

\* An entry of a frame's arguments or locals array: an object literal of
\* the name (an argument's only when it is truthy) and the serialized value.
Entry(named, valueNode) ==
    Node("entry", "entry", KeysIf(named, <<"name">>) \o <<"value">>,
         <<Kid("value", valueNode)>>)

\* JSONProtocolSerializer(d).serialize(m), with f levels of recursion left.
Serialize(h, m, d, f) ==
    IF f = 0 THEN Diverged
    ELSE CASE m.type \in {"undefined", "null"} ->
                  Node(m.type, m.val, <<"type", "text">>, <<>>)
           [] m.type = "number" ->
                  Node(m.type, m.val, <<"type", "value", "text">>, <<>>)
           [] m.type = "function" /\ ~Resolved(m) -> SerializeUnresolved(d)
           [] m.type \in {"object", "function"} ->
                  WithText(SerializeObject(h, m, d, f), ValueText(h, m.val))
           [] m.type = "property" ->
                  Node("property", m.prop.name,
                       <<"type", "name", "value">>
                       \o KeysIf(m.prop.ptype # PropertyType.Normal, <<"propertyType">>)
                       \o <<"text">>,
                       <<Kid("value", Serialize(h, PropertyValue(h, m), d, f - 1))>>)
           [] m.type = "accessor" ->
                  Node("accessor", "accessor", <<"type", "native", "text">>, <<>>)
           [] m.type = "frame" -> SerializeFrame(h, m, f)

\* Mutant: the argument's name written whether or not it is truthy.
SerializeFrameUnnamedArguments(h, m, f) ==
    LET fd == m.details
        Value(v) == Serialize(h, MakeMirror(h, v), FALSE, f - 1)
    IN  Node("frame", m,
             <<"type", "index", "receiver", "func", "constructCall",
               "debuggerFrame", "arguments", "locals", "position">>
             \o KeysIf(m.located, <<"line", "column", "sourceLineText">>)
             \o <<"text">>,
             <<Kid("receiver", Value(fd.receiver)),
               Kid("func", Serialize(h, FuncMirror(fd.func), FALSE, f - 1))>>
             \o Kids("arguments", [i \in DOMAIN m.arguments |->
                                     Entry(TRUE, Value(m.arguments[i].value))])
             \o Kids("locals", [i \in DOMAIN m.locals |->
                                  Entry(TRUE, Value(m.locals[i].value))])
             \o KeysIf(FrameToText(h, fd, m.arguments) = Thrown, <<Kid("text", Thrown)>>))

\* serializeFrame_: index, the receiver and the function without details,
\* the two flags, an entry per argument and per local with its value
\* without details, the position, and line, column and source line text
\* only when the frame has a source location; then serialize adds the
\* frame's toText, which throws when the receiver's or an argument's text
\* or the prototype walk does.
SerializeFrame(h, m, f) ==
    LET fd == m.details
        Value(v) == Serialize(h, MakeMirror(h, v), FALSE, f - 1)
    IN  Node("frame", m,
             <<"type", "index", "receiver", "func", "constructCall",
               "debuggerFrame", "arguments", "locals", "position">>
             \o KeysIf(m.located, <<"line", "column", "sourceLineText">>)
             \o <<"text">>,
             <<Kid("receiver", Value(fd.receiver)),
               Kid("func", Serialize(h, FuncMirror(fd.func), FALSE, f - 1))>>
             \o Kids("arguments", [i \in DOMAIN m.arguments |->
                                     Entry(m.arguments[i].name # "",
                                           Value(m.arguments[i].value))])
             \o Kids("locals", [i \in DOMAIN m.locals |->
                                  Entry(TRUE, Value(m.locals[i].value))])
             \o KeysIf(FrameToText(h, fd, m.arguments) = Thrown, <<Kid("text", Thrown)>>))

\* Mutant: the properties serialized with the serializer's own details flag.
SerializeObjectPropagatesDetails(h, m, d, f) ==
    LET o == m.val
        isArray == h[o].kind = "array"
        isFunction == h[o].kind = "function"
        kind == IF isArray THEN Named ELSE Named + Indexed
        ByName(L, dd) == [i \in DOMAIN L |->
                            Serialize(h, PropertyMirrorOf(o, L[i]), dd, f - 1)]
        detailKids ==
            <<Kid("constructorFunction", Serialize(h, MakeMirror(h, h[o].ctor), FALSE, f - 1)),
              Kid("protoObject", Serialize(h, MakeMirror(h, h[o].proto), FALSE, f - 1)),
              Kid("prototypeObject", Serialize(h, PrototypeObject(h, o), FALSE, f - 1))>>
            \o Kids("properties", ByName(PropertyList(h, o, kind), d))
            \o KeysIf(h[o].interceptorNames > 0, <<Kid("interceptorProperties", Thrown)>>)
            \o KeysIf(isArray, Kids("indexedProperties",
                                    ByName(PropertyList(h, o, Indexed), FALSE)))
        detailKeys ==
            <<"constructorFunction", "protoObject", "prototypeObject",
              "properties", "interceptorProperties">>
            \o KeysIf(isArray, <<"indexedProperties", "length">>)
    IN  Node(m.type, o,
             <<"type", "className">>
             \o KeysIf(d, detailKeys)
             \o KeysIf(h[o].namedInterceptor, <<"namedInterceptor">>)
             \o KeysIf(isFunction, <<"name", "resolved">>
                                   \o KeysIf(d, <<"source">>)
                                   \o KeysIf(HasScript(h, m), <<"script">>))
             \o <<"text">>,
             KeysIf(d, detailKids)
             \o KeysIf(HasScript(h, m), <<Kid("script", ScriptNode)>>))
\* serializeObject_: with details the constructor, __proto__ and prototype
\* mirrors and every property are serialized without details; the loop over
\* interceptor names reads the undefined variables 'properties' and
\* 'details' and throws a ReferenceError when it runs.
SerializeObject(h, m, d, f) ==
    LET o == m.val
        isArray == h[o].kind = "array"
        isFunction == h[o].kind = "function"
        kind == IF isArray THEN Named ELSE Named + Indexed
        ByName(L, dd) == [i \in DOMAIN L |->
                            Serialize(h, PropertyMirrorOf(o, L[i]), dd, f - 1)]
        detailKids ==
            <<Kid("constructorFunction", Serialize(h, MakeMirror(h, h[o].ctor), FALSE, f - 1)),
              Kid("protoObject", Serialize(h, MakeMirror(h, h[o].proto), FALSE, f - 1)),
              Kid("prototypeObject", Serialize(h, PrototypeObject(h, o), FALSE, f - 1))>>
            \o Kids("properties", ByName(PropertyList(h, o, kind), FALSE))
            \o KeysIf(h[o].interceptorNames > 0, <<Kid("interceptorProperties", Thrown)>>)
            \o KeysIf(isArray, Kids("indexedProperties",
                                    ByName(PropertyList(h, o, Indexed), FALSE)))
        detailKeys ==
            <<"constructorFunction", "protoObject", "prototypeObject",
              "properties", "interceptorProperties">>
            \o KeysIf(isArray, <<"indexedProperties", "length">>)
    IN  Node(m.type, o,
             <<"type", "className">>
             \o KeysIf(d, detailKeys)
             \o KeysIf(h[o].namedInterceptor, <<"namedInterceptor">>)
             \o KeysIf(isFunction, <<"name", "resolved">>
                                   \o KeysIf(d, <<"source">>)
                                   \o KeysIf(HasScript(h, m), <<"script">>))
             \o <<"text">>,
             KeysIf(d, detailKids)
             \o KeysIf(HasScript(h, m), <<Kid("script", ScriptNode)>>))
-----------------------------------------------------------------------------

\* The argument and local lists a frame may have: no entry, or one entry
\* whose name may be falsy (an argument the function does not name).
ArgumentLists == {<<>>} \cup {<<[name |-> n, value |-> v]>> : n \in {"a", ""}, v \in Values}
LocalLists == {<<>>} \cup {<<[name |-> "x", value |-> v]>> : v \in Values}

\* A frame mirror as serializeFrame_ reads it: its details, argument and
\* local lists, and whether the runtime finds a source location, which
\* sourceLine, sourceColumn and sourceLineText only look for when the
\* function is resolved.
FrameRoots(h) ==
    {r \in {[type |-> "frame", details |-> fd, arguments |-> a, locals |-> l,
             located |-> loc] :
               fd \in FrameDetailsOf(h), a \in ArgumentLists,
               l \in LocalLists, loc \in BOOLEAN} :
        r.located => r.details.func # Unresolved}

\* The mirrors a debugger request may serialize over heap h: a value mirror
\* of an object (a frame's receiver, an evaluation result), a property
\* mirror ObjectMirror.property returns, or a frame of a backtrace or frame
\* response.
Roots(h) ==
    {MakeMirror(h, o) : o \in Objects}
    \cup UNION {{PropertyMirrorOf(o, p) : p \in Range(h[o].named \o h[o].indexed)}
               : o \in Objects}
    \cup FrameRoots(h)

Init ==
    /\ heap \in Heaps
    /\ root \in Roots(heap)
    /\ details \in BOOLEAN
    /\ out = NotRun

\* mirror.toJSONProtocol(details).
ToJSONProtocol ==
    /\ out = NotRun
    /\ out' = Serialize(heap, root, details, Fuel)
    /\ UNCHANGED <<heap, root, details>>

Next == ToJSONProtocol

\* One call; the serialization returns or throws and nothing follows.
Spec == Init /\ [][Next]_vars

-----------------------------------------------------------------------------
(* Properties.                                                              *)

\* Every node of a serialization.
RECURSIVE NodesOf(_)
NodesOf(n) == {n} \cup UNION {NodesOf(n.kids[i].node) : i \in DOMAIN n.kids}

Serialized == out \notin {NotRun} \cup Failures

\* A serialization carries the root's type, and it and every nested one
\* starts with 'type' and ends with 'text'.
TypeOK ==
    /\ heap \in [Objects -> ObjectShapes]
    /\ root \in Roots(heap)
    /\ details \in BOOLEAN
    /\ out \in {NotRun} \cup Failures
       \/ /\ out.type = root.type
          /\ \A n \in NodesOf(out) :
                 n.type # "entry" => n.keys[1] = "type" /\ Last(n.keys) = "text"

\* Serializing any mirror of any heap, cyclic ones included, returns
\* without unbounded recursion: serializeObject_ and the property case of
\* serialize only recurse into nested mirrors without details, and those
\* stop at the object (spec 9: a cyclic object graph is not protected
\* against at includeDetails = true).
SerializationTerminates == out # Diverged

\* With details, an object's serialization lists its own properties in
\* order (named, then indexed unless it is an array, whose elements go to
\* indexedProperties), each with the object's own value for it, except an
\* accessor property, whose value is the native accessor placeholder and
\* is never read (spec 3 and 4.2).
DetailsListProperties ==
    Serialized /\ details /\ root.type \in {"object", "function"} =>
        LET o == root.val
            Listed(key) == SelectSeq(out.kids, LAMBDA k : k.key = key)
            isArray == heap[o].kind = "array"
            Own(key) == IF key = "properties"
                        THEN heap[o].named \o KeysIf(~isArray, heap[o].indexed)
                        ELSE KeysIf(isArray, heap[o].indexed)
            Matches(k, p) ==
                /\ k.node.of = p.name
                /\ k.node.kids[1].node.of =
                       IF p.ptype = PropertyType.Callbacks THEN "accessor"
                       ELSE p.value
        IN  \A key \in {"properties", "indexedProperties"} :
                /\ Len(Listed(key)) = Len(Own(key))
                /\ \A i \in DOMAIN Listed(key) : Matches(Listed(key)[i], Own(key)[i])

\* A frame serializes as spec 4.2 describes it: an entry per argument, with
\* a name exactly when the argument has one, and an entry per local, in
\* order; every value nested in the frame (receiver, function, arguments,
\* locals) is serialized without details, whatever the serializer's own
\* flag, so none lists constructor or properties.
FrameSerialization ==
    Serialized /\ root.type = "frame" =>
        LET Listed(key) == SelectSeq(out.kids, LAMBDA k : k.key = key)
            args == Listed("arguments")
        IN  /\ Len(args) = Len(root.arguments)
            /\ Len(Listed("locals")) = Len(root.locals)
            /\ \A i \in DOMAIN args :
                   ("name" \in Range(args[i].node.keys))
                       <=> root.arguments[i].name # ""
            /\ \A n \in NodesOf(out) \ {out} :
                   "constructorFunction" \notin Range(n.keys)

PropertyValueWithoutDetails ==
    Serialized =>
        \A n \in NodesOf(out) :
            n.type = "property" => "properties" \notin Range(n.kids[1].node.keys)
=============================================================================

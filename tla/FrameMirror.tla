----------------------------- MODULE FrameMirror -----------------------------
(***************************************************************************)
(* FrameMirror of mirror-delay.js as far as it reads the debuggee heap:    *)
(* the frame details it is made from, the function mirror func() builds,   *)
(* and invocationText, which names the call by looking the function up on  *)
(* the receiver's prototype chain.  Shared by the frame text model and the *)
(* serializer, which serializes frames and their text.                     *)
(*                                                                         *)
(* Data abstraction: the text is the form chosen and the property found;  *)
(* names, argument lists and toText of the values are left out.           *)
(***************************************************************************)
EXTENDS MirrorHeap

CONSTANTS
    Unresolved, \* the name string the VM gives for an unresolved function
    Thrown      \* the call threw a JavaScript exception

\* toText of a value mirror.  A function's is its source; an object's is
\* '#<' and the name of its constructor, and ctor.name() is a TypeError
\* when the 'constructor' the object reads is not a function, for only a
\* FunctionMirror has name().  Primitives print themselves.
ValueText(h, v) ==
    IF v \in Objects /\ h[v].kind # "function" /\ h[h[v].ctor].kind # "function"
    THEN Thrown
    ELSE "text"

\* The frame details this function reads: receiver, function (a function
\* object, or a string when the function is unresolved), and the
\* construct-call and debugger-frame flags.
FrameDetailsOf(h) ==
    [receiver : Values,
     func : {f \in Objects : h[f].kind = "function"} \cup {Unresolved},
     constructCall : BOOLEAN, debuggerFrame : BOOLEAN]

\* Mutant: the name test of isIndexed with && for ||, true for every name.
IsIndexedAnyName(p) == TRUE

\* PropertyMirror.isIndexed: the name is all decimal digits.
IsIndexed(p) == p.prop.name \in {"0"}

\* Mutant: the loop no longer stops at the null at the end of the chain.
RECURSIVE FindOnChainPastNull(_, _, _)
FindOnChainPastNull(h, r, v) ==
    IF r.type \notin {"object", "function"} THEN Thrown
    ELSE LET p == LookupProperty(h, r.val, v)
         IN  IF p # UndefinedMirror THEN p
             ELSE FindOnChainPastNull(h, MakeMirror(h, h[r.val].proto), v)

\* for (r = receiver; !r.isNull() && property.isUndefined();
\*      r = r.protoObject()) property = r.lookupProperty(func);
\* A mirror other than an object's has no lookupProperty: calling it throws
\* a TypeError.
RECURSIVE FindOnChain(_, _, _)
FindOnChain(h, r, v) ==
    IF r.type = "null" THEN UndefinedMirror
    ELSE IF r.type \notin {"object", "function"} THEN Thrown
    ELSE LET p == LookupProperty(h, r.val, v)
         IN  IF p # UndefinedMirror THEN p
             ELSE FindOnChain(h, MakeMirror(h, h[r.val].proto), v)

\* invocationText up to its argument list, reduced to the form it prints and
\* the property it names.  A normal frame first prints receiver.toText()
\* (no receiver of the model has class name 'global'), then walks the chain.
InvocationText(h, fd) ==
    LET receiver == MakeMirror(h, fd.receiver)
        property == IF receiver.type = "undefined" THEN UndefinedMirror
                    ELSE FindOnChain(h, receiver, fd.func)
    IN  CASE fd.constructCall -> [form |-> "new", property |-> UndefinedMirror]
          [] fd.debuggerFrame -> [form |-> "debugger", property |-> UndefinedMirror]
          [] ValueText(h, fd.receiver) = Thrown -> Thrown
          [] property = Thrown -> Thrown
          [] property # UndefinedMirror ->
                 [form |-> IF IsIndexed(property) THEN "indexed" ELSE "method",
                  property |-> property]
          [] OTHER -> [form |-> "function", property |-> UndefinedMirror]

\* FrameMirror.prototype.func: a FunctionMirror for a function object, an
\* UnresolvedFunctionMirror for the name string of an unresolved one; both
\* have type 'function', and resolved() tells them apart.
FuncMirror(f) == ValueMirror("function", f)
Resolved(m) == m.val # Unresolved

\* FrameMirror.prototype.toText without locals: the index, invocationText
\* with, for a frame other than the debugger's, the toText of every
\* argument value, and sourceAndPositionText, which cannot throw.
FrameToText(h, fd, args) ==
    IF \/ InvocationText(h, fd) = Thrown
       \/ ~fd.debuggerFrame /\ \E i \in DOMAIN args : ValueText(h, args[i].value) = Thrown
    THEN Thrown ELSE "text"
=============================================================================

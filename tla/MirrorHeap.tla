------------------------------ MODULE MirrorHeap ------------------------------
(***************************************************************************)
(* The debuggee heap as the mirrors of mirror-delay.js see it through the  *)
(* runtime (%DebugLocalPropertyNames, %DebugGetPropertyDetails,            *)
(* %GetPrototype, %DebugInterceptorInfo), and the mirrors MakeMirror,      *)
(* ObjectMirror.property and PropertyMirror.value build over it.  Shared   *)
(* by the serializer and the frame text models.                            *)
(***************************************************************************)
EXTENDS Integers, Sequences, SequencesExt
LOCAL INSTANCE Relation

CONSTANT Objects    \* the debuggee's objects

\* PropertyType of global.h (the codes this layer tests).
PropertyType == [Normal |-> 0, Field |-> 1, Callbacks |-> 3, Interceptor |-> 4]
\* PropertyKind bit flags.
Named == 1
Indexed == 2

\* Debuggee values: objects and a primitive.
Prims == {"number", "null", "undefined"}
Values == Objects \cup Prims

\* At most one own property "p" and one element "0"; an element is an
\* ordinary data property.
Props == {<<>>} \cup {<<[name |-> "p", value |-> v, ptype |-> t]>> :
                      v \in Objects \cup {"number"},
                      t \in {PropertyType.Normal, PropertyType.Callbacks}}
Elements == {<<>>} \cup {<<[name |-> "0", value |-> v, ptype |-> PropertyType.Normal]>> :
                         v \in Objects \cup {"number"}}
Shapes == [kind : {"plain", "array", "function"},
           named : Props, indexed : Elements,
           proto : Objects \cup {"null"}, ctor : Objects,
           script : BOOLEAN,
           namedInterceptor : BOOLEAN, interceptorNames : 0..1]
\* Mirrors: a value mirror reflects a value, a property mirror a property
\* of its owner, an accessor mirror has no getter and setter values (the
\* TODO in PropertyMirror.value).
ValueMirror(t, v) == [type |-> t, val |-> v]
PropertyMirrorOf(o, p) == [type |-> "property", owner |-> o, prop |-> p]
NativeAccessor == [type |-> "accessor", native |-> TRUE]

\* MakeMirror: the first matching predicate decides the mirror.
MakeMirror(h, v) ==
    CASE v = "undefined" -> ValueMirror("undefined", v)
      [] v = "null" -> ValueMirror("null", v)
      [] v = "number" -> ValueMirror("number", v)
      [] h[v].kind = "function" -> ValueMirror("function", v)
      [] OTHER -> ValueMirror("object", v)

IsArray(h, m) == m.val \in Objects /\ h[m.val].kind = "array"

\* this.type() == PropertyType.Interceptor: the loose comparison converts the
\* type name 'property' to a number, NaN, which equals no number.
TypeIsInterceptor(m) == FALSE

\* Mutant: the accessor test dropped, the property's value read directly.
PropertyValueReadsAccessor(h, m) ==
    IF TypeIsInterceptor(m) THEN ValueMirror("undefined", "undefined")
    ELSE MakeMirror(h, m.prop.value)

\* PropertyMirror.value: an accessor property gives a placeholder accessor
\* mirror and its value is never read.  The interceptor branch compares
\* this.type(), the string 'property', with the number 4 and is never taken.
PropertyValue(h, m) ==
    IF m.prop.ptype = PropertyType.Callbacks THEN NativeAccessor
    ELSE IF TypeIsInterceptor(m) THEN ValueMirror("undefined", "undefined")
    ELSE MakeMirror(h, m.prop.value)

\* propertyNames(kind) with no limit: named properties first, then indexed.
PropertyList(h, o, kind) ==
    (IF kind % 2 = 1 THEN h[o].named ELSE <<>>)
    \o (IF (kind \div 2) % 2 = 1 THEN h[o].indexed ELSE <<>>)

\* The shape of an object: its kind, its own named properties, its indexed
\* elements, its __proto__ (the prototype chain is acyclic),
\* its 'constructor', whether it is a function with a script, whether it
\* has a named interceptor and how many names that interceptor enumerates.
WellShaped(s) ==
    /\ s.script => s.kind = "function"
    /\ ~s.namedInterceptor => s.interceptorNames = 0
Acyclic(h) ==
    LET protoOf == [x, y \in Objects |-> h[x].proto = y]
    IN  IsIrreflexive(TransitiveClosure(protoOf, Objects), Objects)
ObjectShapes == {s \in Shapes : WellShaped(s)}
Heaps == {h \in [Objects -> ObjectShapes] : Acyclic(h)}
\* FunctionMirror.script() is truthy: the function is resolved and the
\* runtime gives it a script (a native function has none).
HasScript(h, m) == m.val \in Objects /\ h[m.val].script

\* new UndefinedMirror(): what a lookup returns when nothing was found.
UndefinedMirror == ValueMirror("undefined", "undefined")

\* Mutant: the scan no longer skips accessor properties.
LookupPropertyReadsAccessors(h, o, v) ==
    LET L == PropertyList(h, o, Named + Indexed)
        hits == {i \in DOMAIN L : L[i].value = v}
    IN  IF hits = {} THEN UndefinedMirror
        ELSE PropertyMirrorOf(o, L[Min(hits)])

\* ObjectMirror.lookupProperty(value): the first of properties() (named,
\* then indexed) that is not an accessor and whose value is identical to
\* the value looked for, or an undefined mirror.
LookupProperty(h, o, v) ==
    LET L == PropertyList(h, o, Named + Indexed)
        hits == {i \in DOMAIN L : L[i].ptype # PropertyType.Callbacks /\ L[i].value = v}
    IN  IF hits = {} THEN UndefinedMirror
        ELSE PropertyMirrorOf(o, L[Min(hits)])
=============================================================================

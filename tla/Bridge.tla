------------------------------- MODULE Bridge -------------------------------
(***************************************************************************)
(* The script bridges: plugins/bridge/lua_bridge and python_bridge, over   *)
(* the host's AnyConverter and HandleTable (core/manager/value.cppm).      *)
(*                                                                         *)
(* A bridge converts script values to the C ABI's tagged value             *)
(* (CongeladoAny) and back, and installs C++ methods that scripts call.    *)
(* A table crosses as a handle: an id of the bridge's handle table, whose  *)
(* entry is a Map of host values.  Three representations therefore meet:   *)
(*                                                                         *)
(*   script value  nil bool int bigint float str table userdata            *)
(*   any           CG_NONE .. CG_STR, CG_MAP_HANDLE (an id), CG_MAP and    *)
(*                 CG_PTR (raw pointers)                                   *)
(*   host value    None Int Bool Float Str, Map, void pointer              *)
(*                                                                         *)
(* Every one is a record [t |-> tag, v |-> datum]; the datum of a table or *)
(* a Map is a function from keys, that of a handle is an id.  Scripts run  *)
(* one at a time on the thread that loaded the bridge.                     *)
(***************************************************************************)
EXTENDS Naturals, Sequences, FiniteSets
LOCAL INSTANCE FiniteSetsExt

CONSTANTS
    Inputs,     \* script values that make the round trip
    Args,       \* script values passed as arguments of a call
    Results,    \* host values an installed method may return
    MaxDepth,   \* levels of tables the script stack has room for
    MaxSteps    \* bound: conversions and calls of one behaviour

ASSUME BridgeAssumption ==
    /\ MaxDepth \in Nat
    /\ MaxSteps \in Nat

VARIABLES
    lang,       \* "lua" or "python": which of the two bridges this is
    up,         \* the table or module that methods are bound in exists
    installed,  \* the method is bound in it
    objs,       \* HandleTable::m_handles: id -> Map, or an array of keys
    nextId,     \* HandleTable::m_next_id
    pyErr,      \* the interpreter's error indicator
    seen,       \* the last call: what it was given, what arrived, what came back
    steps

bridgeVars == <<lang, up, installed, objs, nextId, pyErr, seen, steps>>

Nil     == [t |-> "none", v |-> ""]
Throw   == [t |-> "throw", v |-> ""]     \* a C++ exception leaves the conversion
Quiet   == [op |-> "none", given |-> <<>>, host |-> <<>>, back |-> Nil]

StringKey(k) == k # "#"                 \* "#" stands for a key that is no string
-----------------------------------------------------------------------------
(***************************************************************************)
(* AnyConverter: the two directions between an any and a host value.       *)
(***************************************************************************)
\* Mutant of from_any: numbers with a fraction are read from the integer slot.
FromAnyTruncates(any) ==
    CASE any.t = "float" -> [t |-> "int", v |-> any.v]
      [] any.t = "bool"  -> [t |-> "int", v |-> any.v]
      [] any.t = "none"  -> Nil
      [] OTHER           -> any

\* from_any: booleans collapse to Int; a tag it does not know, a handle's
\* included, becomes the raw pointer that shares the union with the id.
FromAny(any) ==
    CASE any.t = "bool"                  -> [t |-> "int", v |-> any.v]
      [] any.t = "handle"                -> [t |-> "ptr", v |-> "handle id"]
      [] any.t = "none"                  -> Nil
      [] OTHER                           -> any

\* to_any and to_any_borrow: a Map leaves as a raw pointer to it, tagged CG_MAP.
ToAny(val) == IF val.t = "map" THEN [t |-> "mapptr", v |-> "pointer"] ELSE val

(***************************************************************************)
(* Conversions thread the part of the state they change:                   *)
(* [objs, next, err] and the value just made, any.                         *)
(***************************************************************************)
Scratch == [objs |-> objs, next |-> nextId, err |-> pyErr, any |-> Nil]

Bind(f, k, x) == [i \in DOMAIN f \cup {k} |-> IF i = k THEN x ELSE f[i]]
Unbind(f, k)  == [i \in DOMAIN f \ {k} |-> f[i]]

\* HandleTable::insert: ids count up and are never reused.
Insert(s, obj) ==
    [s EXCEPT !.objs = Bind(s.objs, s.next, obj),
              !.next = @ + 1,
              !.any  = [t |-> "handle", v |-> s.next]]

\* HandleTable::map_set, which resolves a nested handle to the Map behind it.
MapSet(s, id, k, any) ==
    LET val == IF any.t = "handle" THEN [t |-> "map", v |-> s.objs[any.v]] ELSE FromAny(any)
    IN [s EXCEPT !.objs[id] = Bind(@, k, val)]

RECURSIVE FromLua(_, _, _), FromPy(_, _)

\* from_lua.  Entries under a key that is no string are skipped.  A table nested
\* deeper than the stack has room for throws; the handles made on the way stay
\* in the table.
FromLua(s, v, depth) ==
    LET made == Insert(s, <<>>)
        Entry(k, acc) ==
            LET sub == FromLua(acc, v.v[k], depth + 1)
            IN IF acc.any = Throw THEN acc
               ELSE IF sub.any = Throw THEN sub ELSE MapSet(sub, s.next, k, sub.any)
        done == FoldSet(Entry, made, {k \in DOMAIN v.v : StringKey(k)})
    IN IF v.t # "table" THEN [s EXCEPT !.any = v]
       ELSE IF depth >= MaxDepth THEN [s EXCEPT !.any = Throw]
       ELSE IF done.any = Throw THEN done ELSE [done EXCEPT !.any = made.any]

\* from_py.  An integer beyond 64 bits converts to -1 with the error indicator
\* left set; the UTF-8 view of a key that is no string is null, which sets it
\* too and which map_set reads as the empty key.
FromPy(s, v) ==
    LET made == Insert(s, <<>>)
        Entry(k, acc) ==
            LET sub == FromPy([acc EXCEPT !.err = @ \/ ~StringKey(k)], v.v[k])
            IN MapSet(sub, s.next, IF StringKey(k) THEN k ELSE "", sub.any)
    IN CASE v.t = "table"  -> [FoldSet(Entry, made, DOMAIN v.v) EXCEPT !.any = made.any]
         [] v.t = "bigint" -> [s EXCEPT !.any = [t |-> "int", v |-> "-1"], !.err = TRUE]
         [] OTHER          -> [s EXCEPT !.any = v]

From(s, v) == IF lang = "lua" THEN FromLua(s, v, 0) ELSE FromPy(s, v)

\* map_get lends each value through to_any_borrow: a nested Map arrives as a
\* pointer and not as a handle.
MapGet(map, k) == ToAny(map[k])

Raw(any) == any.t \in {"mapptr", "ptr"}

\* to_lua and to_py both copy a handle's keys to a fresh array handle, fill the
\* table by key, and free the array.
Filled(s, any, table) ==
    LET keys == Insert(s, [keys |-> DOMAIN s.objs[any.v]])
    IN [keys EXCEPT !.objs = Unbind(@, s.next), !.any = [t |-> "table", v |-> table]]

\* to_lua.  A raw pointer is light userdata, and a table has no nil entries.
ToLua(s, any) ==
    LET Scalar(x) == IF Raw(x) THEN [t |-> "userdata", v |-> "address"] ELSE x
        Table(map) == [k \in {k \in DOMAIN map : map[k] # Nil} |-> Scalar(MapGet(map, k))]
    IN IF any.t = "handle" THEN Filled(s, any, Table(s.objs[any.v]))
       ELSE [s EXCEPT !.any = Scalar(any)]

\* to_py.  A raw pointer is an integer, and a dict may hold None.
ToPy(s, any) ==
    LET Scalar(x) == IF Raw(x) THEN [t |-> "int", v |-> "address"] ELSE x
        Table(map) == [k \in DOMAIN map |-> Scalar(MapGet(map, k))]
    IN IF any.t = "handle" THEN Filled(s, any, Table(s.objs[any.v]))
       ELSE [s EXCEPT !.any = Scalar(any)]

To(s, any) == IF lang = "lua" THEN ToLua(s, any) ELSE ToPy(s, any)

Commit(s) ==
    /\ objs' = s.objs
    /\ nextId' = s.next
    /\ pyErr' = s.err
-----------------------------------------------------------------------------
BridgeInit ==
    /\ lang \in {"lua", "python"}
    /\ up = FALSE
    /\ installed = FALSE
    /\ objs = <<>>
    /\ nextId = 1
    /\ pyErr = FALSE
    /\ seen = Quiet
    /\ steps = 0

\* on_load of the Lua bridge: without a state there is nothing to bind into.
OnLoadLua ==
    /\ lang = "lua" /\ steps = 0
    /\ up' \in BOOLEAN
    /\ steps' = 1
    /\ UNCHANGED <<lang, installed, objs, nextId, pyErr, seen>>

\* on_load of the Python bridge: the interpreter is up, whether or not the
\* module was resolved.
OnLoadPython ==
    /\ lang = "python" /\ steps = 0
    /\ up' \in BOOLEAN
    /\ steps' = 1
    /\ UNCHANGED <<lang, installed, objs, nextId, pyErr, seen>>

\* install_method of the Lua bridge: a closure over the method's context, which
\* the bridge keeps, set in the table.
InstallLua ==
    /\ lang = "lua" /\ up /\ ~installed
    /\ installed' = TRUE
    /\ UNCHANGED <<lang, up, objs, nextId, pyErr, seen, steps>>

\* install_method of the Python bridge: the capsule owns the context, the bridge
\* the definition and its name.
InstallPython ==
    /\ lang = "python" /\ up /\ ~installed
    /\ installed' = TRUE
    /\ UNCHANGED <<lang, up, objs, nextId, pyErr, seen, steps>>

\* from_native then to_native of what it gave: the round trip a host makes.
\* The first has no handler for the exception, which reaches the host.
RoundTrip(v) ==
    LET in  == From(Scratch, v)
        out == To(in, in.any)
    IN /\ up /\ steps < MaxSteps
       /\ IF in.any = Throw THEN Commit(in) ELSE Commit(out)
       /\ seen' = [op |-> "trip", given |-> <<v>>, host |-> <<>>,
                   back |-> IF in.any = Throw THEN Throw ELSE out.any]
       /\ steps' = steps + 1
       /\ UNCHANGED <<lang, up, installed>>

RECURSIVE FromAll(_, _)
\* The arguments, converted left to right; the first that throws ends it.
FromAll(s, args) ==
    IF args = <<>> THEN [s |-> s, host |-> <<>>]
    ELSE LET one  == From(s, Head(args))
             rest == FromAll(one, Tail(args))
         IN IF one.any = Throw THEN [s |-> one, host |-> <<>>]
            ELSE [s |-> rest.s, host |-> <<FromAny(one.any)>> \o rest.host]

ScriptError == [t |-> "error", v |-> ""]

\* What the script gets.  Exceptions become script errors, and Python also
\* refuses a result returned with its error indicator set.
Answer(in, res, out) ==
    IF in.any = Throw \/ res = Throw \/ out.err THEN ScriptError ELSE out.any

\* A script calls the installed method with args; the method, external to the
\* bridge, returns res or throws.
CallMethod(args, res) ==
    LET all == FromAll(Scratch, args)
        in  == all.s
        out == IF in.any = Throw \/ res = Throw THEN in ELSE To(in, ToAny(res))
    IN /\ up /\ installed /\ steps < MaxSteps
       /\ objs' = out.objs
       /\ nextId' = out.next
       /\ pyErr' = FALSE
       /\ seen' = [op    |-> IF res = Throw THEN "threw" ELSE "call",
                   given |-> args,
                   host  |-> IF in.any = Throw THEN <<>> ELSE all.host,
                   back  |-> Answer(in, res, out)]
       /\ steps' = steps + 1
       /\ UNCHANGED <<lang, up, installed>>

\* run_script of either bridge; the script's calls are CallMethod steps.
Exits(code) ==
    /\ steps > 0 /\ steps < MaxSteps
    /\ seen' = [Quiet EXCEPT !.op = "script", !.back = [t |-> "int", v |-> code]]
    /\ steps' = steps + 1
    /\ UNCHANGED <<lang, up, installed, objs, nextId, pyErr>>

RunLua(ok)           == lang = "lua" /\ Exits(IF up /\ ok THEN "0" ELSE "1")
RunPython(opens, ok) == lang = "python" /\ Exits(IF ~opens THEN "1" ELSE IF ok THEN "0" ELSE "-1")

\* on_unload finalizes Python; the Lua state closes with the plugin object.  The
\* host calls neither bridge after it.
OnUnload ==
    /\ steps > 0 /\ steps <= MaxSteps
    /\ up' = FALSE
    /\ installed' = FALSE
    /\ steps' = MaxSteps + 1
    /\ UNCHANGED <<lang, objs, nextId, pyErr, seen>>

\* Lua has no integer beyond 64 bits.
Exists(values) == {v \in values : v.t = "bigint" => lang = "python"}

BridgeNext ==
    \/ OnLoadLua \/ OnLoadPython
    \/ InstallLua \/ InstallPython
    \/ \E v \in Exists(Inputs) : RoundTrip(v)
    \/ \E a, b \in Exists(Args), res \in Results \cup {Throw} : CallMethod(<<a, b>>, res)
    \/ \E opens, ok \in BOOLEAN : RunLua(ok) \/ RunPython(opens, ok)
    \/ OnUnload

BridgeSpec == BridgeInit /\ [][BridgeNext]_bridgeVars
-----------------------------------------------------------------------------
Scalars == {"int", "float", "str"}

Flat(v) == v.t = "table" /\ \A k \in DOMAIN v.v : StringKey(k) /\ v.v[k].t \in Scalars

\* A table of strings, integers and floats, under string keys, comes back from
\* from_native and to_native as it went in, in both languages.
FlatTablesSurvive ==
    seen.op = "trip" /\ Flat(seen.given[1]) => seen.back = seen.given[1]

\* The only handles that stay after an operation are those of converted tables:
\* the arrays of keys that to_lua and to_py take are always given back.
KeyArraysFreed == \A i \in DOMAIN objs : "keys" \notin DOMAIN objs[i]

\* A call is faithful.  What the C++ method receives of a scalar argument is
\* that argument, at its position (booleans as integers), and a method that
\* throws is an error in the script, never a value.
CallsAreFaithful ==
    /\ seen.op = "call" =>
         \A i \in 1..Len(seen.host) :
            seen.given[i].t \in Scalars \cup {"bool"} =>
               /\ seen.host[i].v = seen.given[i].v
               /\ seen.host[i].t = IF seen.given[i].t = "bool" THEN "int" ELSE seen.given[i].t
    /\ seen.op = "threw" => seen.back = ScriptError

\* What crosses the bridge arrives as it left, and leaves nothing behind but the
\* handles of the tables themselves.
CrossingsAreFaithful == FlatTablesSurvive /\ KeyArraysFreed /\ CallsAreFaithful

\* What lua_bridge's own test says of nested tables (line 609, "round-trip a
\* table nested 50 levels deep with no crash or corruption"): string-keyed
\* tables of tables come back as they went in.
NestedTablesSurvive ==
    (seen.op = "trip" /\ seen.back # Throw /\ seen.given[1].t = "table") =>
       \A k \in DOMAIN seen.given[1].v :
          seen.given[1].v[k].t = "table" => seen.back.v[k] = seen.given[1].v[k]

(***************************************************************************)
(* Inputs for small instances: every scalar kind, flat tables with string  *)
(* and other keys, and tables two and three levels deep.                   *)
(***************************************************************************)
Val(t, v)  == [t |-> t, v |-> v]
SomeFlat   == Val("table", [k \in {"a", "b"} |-> IF k = "a" THEN Val("int", "1") ELSE Val("float", "2")])
Nested     == Val("table", [k \in {"a"} |-> SomeFlat])
ScriptValues ==
    {Nil, Val("bool", "1"), Val("int", "1"), Val("float", "2"), Val("str", "s"),
     Val("ptr", "p"), SomeFlat, Nested,
     Val("table", [k \in {"a"} |-> Val("bool", "1")]),
     Val("table", [k \in {"a", "#"} |-> Val("str", "s")]),
     Val("table", [k \in {"a"} |-> Nested]), Val("bigint", "max")}
ScriptArgs == {Val("bool", "1"), Val("float", "2"), Val("bigint", "max"), SomeFlat,
               Val("table", [k \in {"a"} |-> Nested])}
HostResults == {Nil, Val("bool", "1"), Val("int", "1"), Val("str", "s"), Val("map", "m")}
=============================================================================

------------------------------ MODULE MCChunkedVm ------------------------------
(* Small programs for ChunkedVm.  Instructions are written as the compiler emits them. *)
EXTENDS ChunkedVm, VmOperands, TLC

I(op, v, n) == [op |-> op, v |-> v, n |-> n]
P(v) == I("Push", v, 0)
Key == <<"k">>      \* a text of the string table
Home == <<"home">>
Other == <<"a">>    \* a text only the host produces

MCSlots ==
    <<[name |-> "count", type |-> "int", nullable |-> FALSE, default |-> IntVal(0)],
      [name |-> "text", type |-> "string", nullable |-> TRUE, default |-> Null]>>

MCHandlers ==
    [start |-> [params |-> 0, locals |-> 0, preload |-> TRUE],
     data  |-> [params |-> 1, locals |-> 1, preload |-> FALSE],
     page  |-> [params |-> 0, locals |-> 1, preload |-> FALSE],
     spin  |-> [params |-> 0, locals |-> 0, preload |-> FALSE],
     odd   |-> [params |-> 0, locals |-> 0, preload |-> FALSE],
     bad   |-> [params |-> 2, locals |-> 2, preload |-> FALSE]]

\* start: load, show the home screen, bump the counter by a function, save.
StartCode == <<I("StateLoad", 0, 0), P(Literal(Home)), I("ScreenOpen", 0, 0),
               I("GetState", 1, 0), I("CallFunction", 1, 1), I("SetState", 1, 0),
               I("StateSave", 0, 0), I("Halt", 0, 0)>>
\* data: text = payload.body + "k"; save it; leave the app when the counter wrapped.
DataCode == <<I("GetLocal", 1, 0), I("GetField", "body", 0), P(Literal(Key)), I("Add", 0, 0),
              I("SetState", 2, 0), I("StateSave", 0, 0),
              I("GetState", 1, 0), P(IntVal(0)), I("Binary", "Lt", 0), I("JumpIfFalse", 11, 0),
              I("Halt", 0, 0)>>
\* page: text = registry.get(registry.list(), 0).name; reset at the second function.
PageCode == <<I("Call", "app_registry_list", 0), I("SetLocal", 1, 0),
              I("GetLocal", 1, 0), P(IntVal(0)), I("Call", "app_registry_get", 0),
              I("GetField", "name", 0), I("SetState", 2, 0), I("CallFunction", 2, 0),
              I("Pop", 0, 0), I("Halt", 0, 0)>>
SpinCode == <<I("Jump", 1, 0)>>

MCCode ==
    (<<"handler", "start">> :> StartCode) @@ (<<"handler", "data">> :> DataCode)
    @@ (<<"handler", "page">> :> PageCode) @@ (<<"handler", "spin">> :> SpinCode)
    @@ (<<"handler", "odd">> :> <<P(BoolVal(TRUE)), I("SetState", 1, 0)>>)
    @@ (<<"handler", "bad">> :> <<I("Halt", 0, 0)>>)
    @@ (<<"screen", Home>> :> <<I("GetState", 2, 0), I("DebugPrint", 1, 0)>>)
    @@ (<<"function", 1>> :> <<I("GetLocal", 1, 0), P(IntVal(1)), I("Add", 0, 0), I("Return", 0, 0)>>)
    @@ (<<"function", 2>> :> <<I("StateReset", 0, 0), I("CallFunction", 2, 0), I("Return", 0, 0)>>)

MCImage == [strings |-> {Key, Home}, slots |-> MCSlots, handlers |-> MCHandlers,
            functions |-> <<[params |-> 1, locals |-> 1], [params |-> 0, locals |-> 0]>>,
            screens |-> {Home}, code |-> MCCode]

\* Each instruction of these programs finds operands of its own frame.
MCHeights ==
    (<<"handler", "start">> :> <<0, 0, 1, 0, 1, 1, 0, 0, 0>>)
    @@ (<<"handler", "data">> :> <<0, 1, 1, 2, 1, 0, 0, 1, 2, 1, 0, 0>>)
    @@ (<<"handler", "page">> :> <<0, 1, 0, 1, 2, 1, 1, 0, 1, 0, 0>>)
    @@ (<<"handler", "spin">> :> <<0, 0>>)
    @@ (<<"handler", "odd">> :> <<0, 1, 0>>)
    @@ (<<"handler", "bad">> :> <<0, 0>>)
    @@ (<<"screen", Home>> :> <<0, 1, 0>>)
    @@ (<<"function", 1>> :> <<0, 1, 2, 1, 0>>) @@ (<<"function", 2>> :> <<0, 0, 1, 0>>)
ASSUME Balanced(MCHeights)

MCPayloads == {NoPayload, [fields |-> {"body"}, text |-> Other]}
\* Refusals, empty lists and full ones.
MCAnswers == {[refuse |-> r, flag |-> FALSE, some |-> TRUE, number |-> 0, count |-> c, text |-> Other] :
                  r \in BOOLEAN, c \in 0 .. 1}
MCMinInt == -1
MCEvents == DOMAIN MCHandlers

\* A record of an app whose `text' was not nullable, of one with another slot, and a torn one.
E(name, type, nullable, value) == [name |-> name, type |-> type, nullable |-> nullable, value |-> value]
MCRecords ==
    {NoRecord,
     [ok |-> TRUE, entries |-> <<E("count", "int", FALSE, IntVal(1)), E("text", "string", FALSE, <<"text", Other>>)>>],
     [ok |-> TRUE, entries |-> <<E("gone", "bool", FALSE, BoolVal(TRUE)), E("text", "string", TRUE, <<"text", Other>>)>>],
     [ok |-> FALSE, entries |-> <<E("count", "int", FALSE, IntVal(1))>>]}
=============================================================================

----------------------------- MODULE MCWorkflow -----------------------------
(* Definitions the runs of Workflow start from. *)
EXTENDS Workflow

Task(name) == [name |-> name, kind |-> "SIMPLE", attempts |-> 1, limit |-> 0,
               timeout |-> "RETRY", input |-> "ok", child |-> "runs", ends |-> "FAILED"]
Kind(k) == [Task(k) EXCEPT !.kind = k]
Edge(a, b, w) == [from |-> a, to |-> b, when |-> w]
Def(ns, task, edges) ==
    [nodes |-> ns, task |-> task, edges |-> edges, join |-> [n \in ToSet(ns) |-> {}],
     any |-> {}, restartable |-> TRUE, mapsOutput |-> FALSE]

Yes == "yes"
No == "no"

\* A SWITCH: a leads to b or to c, and j joins both branches.
Switch(joins) ==
    [Def(<<"a", "b", "c", "j">>,
         [n \in {"a", "b", "c"} |-> Task(n)] @@ [j |-> joins],
         <<Edge("a", "b", Yes), Edge("a", "c", No)>>)
     EXCEPT !.join = [@ EXCEPT !["j"] = {"b", "c"}]]

\* The same with an exclusive join.
SwitchAny == [Switch(Task("j")) EXCEPT !.any = {"j"}]

\* Start nodes of one rate-limited TaskDef.
Limited(size, k) ==
    LET ns == SubSeq(<<"a", "b", "c">>, 1, size)
    IN  Def(ns, [n \in ToSet(ns) |-> [Task("t") EXCEPT !.limit = 1, !.attempts = k]], <<>>)

\* A task that is retried, and its successor.
Chain(k) == Def(<<"a", "b">>,
                [a |-> [Task("a") EXCEPT !.attempts = k], b |-> Task("b")],
                <<Edge("a", "b", Always)>>)

\* Nodes that do not go to a worker.
People == Def(<<"a", "b", "c", "d">>,
              [a |-> Kind("HUMAN"), b |-> Kind("EVENT"), c |-> Kind("SET_VARIABLE"),
               d |-> Kind("NOOP")],
              <<Edge("a", "b", Always), Edge("b", "c", Always), Edge("c", "d", Yes)>>)

\* A fire-and-forget child and a linked one, joined.
Children(fired, linked) ==
    [Def(<<"a", "b", "j">>,
         [a |-> [Kind("START_WORKFLOW") EXCEPT !.child = fired],
          b |-> [Kind("SUB_WORKFLOW") EXCEPT !.child = linked], j |-> Kind("NOOP")], <<>>)
     EXCEPT !.join = [@ EXCEPT !["j"] = {"a", "b"}]]

NoName == [Def(<<"a", "b", "c">>,
              [a |-> [Kind("START_WORKFLOW") EXCEPT !.input = "bad"],
               b |-> [Kind("SUB_WORKFLOW") EXCEPT !.input = "bad"], c |-> Task("c")], <<>>)
            EXCEPT !.restartable = FALSE]

\* A timed WAIT, then a task whose timeout fails the workflow.
Timed == [Def(<<"a", "b">>, [a |-> Kind("WAIT"), b |-> [Task("b") EXCEPT !.timeout = "FAIL_WORKFLOW"]],
              <<Edge("a", "b", Always)>>) EXCEPT !.mapsOutput = TRUE]

\* A WAIT for a signal, then TERMINATE, beside a task that may run for ever.
Ending == Def(<<"a", "b", "c">>,
              [a |-> Kind("WAIT_SIGNAL"), b |-> Kind("TERMINATE"),
               c |-> [Task("c") EXCEPT !.timeout = "ALERT_ONLY"]],
              <<Edge("a", "b", Always)>>)

\* A task whose input fails the schema check.
BadInput(k) == Def(<<"a">>, [a |-> [Task("a") EXCEPT !.input = "bad", !.attempts = k]], <<>>)

\* Two edges into one node, one of them conditional.
Merge == Def(<<"a", "b", "c">>, [n \in {"a", "b", "c"} |-> Task(n)],
             <<Edge("a", "c", Yes), Edge("b", "c", Always)>>)

RunDefs == {Switch(Task("j")), Switch(Kind("NOOP")), SwitchAny, Merge, Limited(2, 1), Chain(1),
            People, Children("runs", "runs"), Children("unknown", "runs"),
            Children("runs", "unknown"), Children("runs", "silent"), NoName, Timed, Ending,
            BadInput(2)}
AllDefs == RunDefs \cup {Chain(2)}
\* Two workers hold tasks of the retried chain at once, one those of the others.
AllHeld == [d \in AllDefs |-> IF d = Chain(2) THEN 2 ELSE 1]
AllCalls == [d \in AllDefs |-> IF d = Chain(2) THEN 1 ELSE 2]

\* Calls that revive an execution on the chain, all others elsewhere.
AllOps == [d \in AllDefs |->
    IF d = Chain(2) THEN {"restart", "retry", "rerun", "queue_update"}
    ELSE {"pause", "resume", "terminate", "requeue", "reconcile", "signal"}]
============================================================================

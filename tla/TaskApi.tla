------------------------------- MODULE TaskApi -------------------------------
(***************************************************************************)
(* The other side of Results: a program that uses an AsyncTask, an Iter or *)
(* a Chain object (django_q/tasks.py), appends to it, runs it, and asks    *)
(* for its results while the monitors store them.  Each question polls     *)
(* with several queries or cache calls.  `fetch' asks like `result' and    *)
(* builds Task objects from what is found.                                 *)
(***************************************************************************)
EXTENDS Results

CONSTANTS MaxLength,  \* bound: appended arguments or links
          Asks        \* bound: questions

ASSUME ApiAssumption == MaxLength \in Nat \ {0} /\ Asks \in Nat

VARIABLES obj,     \* the object
          runs,    \* its runs so far
          call,    \* the call in progress
          answer,  \* what the last question got
          asked    \* the number of questions

api == <<obj, runs, call, answer, asked>>
allVars == <<vars, api>>

Free == [pc |-> "free"]
Nothing == [value |-> "nothing", made |-> {}, late |-> FALSE, run |-> 0, op |-> "none", length |-> 0]

ApiTypeOK ==
  /\ TypeOK
  /\ obj \in [kind : {"AsyncTask", "Iter", "Chain"}, cached : BOOLEAN, q_options : BOOLEAN,
              forced : BOOLEAN, length : 0..MaxLength, group : Groups \cup {0}, id : Ids,
              started : BOOLEAN, ran : BOOLEAN, dirty : BOOLEAN]
  /\ runs \in 0..Cardinality(Groups)
  /\ call.pc \in {"free", "push", "count", "poll", "get", "members"}
  /\ answer.value \in {"nothing", "results", "raised"} /\ answer.made \subseteq DOMAIN pkgs
  /\ asked \in 0..Asks

ApiInit ==
  /\ Init
  /\ \E kind \in {"AsyncTask", "Iter", "Chain"}, cached, q_options \in BOOLEAN :
       /\ q_options => kind = "Iter"
       /\ obj = [kind |-> kind, cached |-> cached, q_options |-> q_options, forced |-> FALSE,
                 length |-> IF kind = "AsyncTask" THEN 1 ELSE 0, group |-> 0, id |-> 0,
                 started |-> FALSE, ran |-> FALSE, dirty |-> FALSE]
  /\ runs = 0 /\ call = Free /\ answer = Nothing /\ asked = 0

-----------------------------------------------------------------------------
\* Is a package of the group on its way still?
Outstanding(g) == \E i \in Members(g) : \/ delivered[i] = 0
                                        \/ \E m \in Monitors : ~At(m, "get") /\ monitor[m].name = i

\* Faulty variant: the new links join the old results.
KeepGroup(g) == UNCHANGED <<keys, cache, rows>>

\* delete_group: the label of the rows, or the key list with its tasks.
delete_group(g) ==
  IF conf.CACHED
  THEN /\ keys' = [keys EXCEPT ![g] = <<>>]
       /\ cache' = Drop(cache, ToSet(keys[g]))
       /\ UNCHANGED rows
  ELSE /\ rows' = [id \in DOMAIN rows |-> IF rows[id].group = g
                                          THEN [rows[id] EXCEPT !.group = 0] ELSE rows[id]]
       /\ UNCHANGED <<keys, cache>>

\* Iter.append
AppendArguments ==
  /\ obj.kind = "Iter"
  /\ obj' = [obj EXCEPT !.length = @ + 1, !.started = FALSE]
  /\ UNCHANGED <<keys, cache, rows, answer>>

\* Chain.append: a started chain's group is deleted, in the cache or the database
\* as CACHED says and not the chain's own option; without a key list this raises.
AppendLink ==
  /\ obj.kind = "Chain"
  /\ LET longer == [obj EXCEPT !.length = @ + 1]
         dirty == obj.dirty \/ Outstanding(obj.group) \/ obj.cached # conf.CACHED
     IN IF ~obj.started THEN obj' = longer /\ UNCHANGED <<keys, cache, rows, answer>>
        ELSE IF conf.CACHED /\ keys[obj.group] = <<>>
        THEN /\ obj' = [longer EXCEPT !.dirty = TRUE]
             /\ answer' = [Nothing EXCEPT !.value = "raised"]
             /\ UNCHANGED <<keys, cache, rows>>
        ELSE /\ obj' = [longer EXCEPT !.started = FALSE, !.ran = FALSE, !.dirty = dirty]
             /\ delete_group(obj.group)
             /\ UNCHANGED answer

append == /\ call = Free /\ obj.length < MaxLength /\ runs < Cardinality(Groups)
          /\ AppendArguments \/ AppendLink
          /\ UNCHANGED <<conf, pkgs, delivered, failed, acked, monitor, args, faults,
                         runs, call, asked>>

\* AsyncTask._set_option, here of cached.
SetOption ==
  /\ call = Free /\ obj.kind = "AsyncTask" /\ obj.ran
  /\ obj' = [obj EXCEPT !.cached = ~@, !.started = FALSE, !.ran = FALSE]
  /\ UNCHANGED <<vars, runs, call, answer, asked>>

-----------------------------------------------------------------------------
Run == runs + 1

\* async_task: one package is signed and enqueued.
async_task(p) == pkgs' = Append(pkgs, p) /\ Len(pkgs) < MaxPackages

Pkg(item, group) == [run |-> Run, item |-> item, group |-> group, iter_count |-> 0, chain |-> 0,
                     cached |-> obj.cached, iter_cached |-> FALSE]

\* AsyncTask.run, in a group its program has named.
RunTask ==
  /\ obj.kind = "AsyncTask"
  /\ async_task(Pkg(1, 1))
  /\ obj' = [obj EXCEPT !.id = Len(pkgs) + 1, !.group = 1, !.started = TRUE, !.ran = TRUE]
  /\ runs' = Run
  /\ UNCHANGED <<args, call>>

\* Chain.run: the group of the first run is kept.
ChainGroup == IF obj.group = 0 THEN Run ELSE obj.group

Links == obj.length - 1

\* async_chain
RunChain ==
  /\ obj.kind = "Chain"
  /\ async_task([Pkg(1, ChainGroup) EXCEPT !.chain = Links])
  /\ obj' = [obj EXCEPT !.group = ChainGroup, !.started = TRUE, !.ran = TRUE,
                        !.dirty = @ \/ obj.ran]
  /\ runs' = Run
  /\ UNCHANGED <<args, call>>

\* async_iter begins: the arguments are cached.  The options are those of q_options
\* if there are any, and keep cached=True for the next run.
RunIter ==
  /\ obj.kind = "Iter"
  /\ args' = args \cup {Run}
  /\ call' = [pc |-> "push", left |-> obj.length,
              iter_cached |-> IF obj.q_options THEN obj.forced ELSE obj.cached]
  /\ obj' = [obj EXCEPT !.forced = @ \/ obj.q_options]
  /\ UNCHANGED <<pkgs, runs>>

run == /\ call = Free /\ runs < Cardinality(Groups) /\ obj.length > 0
       /\ RunTask \/ RunChain \/ RunIter
       /\ UNCHANGED <<conf, delivered, failed, acked, monitor, keys, cache, rows, faults,
                      answer, asked>>

\* async_iter goes on: one package after the other, while monitors are at work.
Push ==
  /\ call.pc = "push"
  /\ async_task([Pkg(obj.length - call.left + 1, Run) EXCEPT
                   !.iter_count = obj.length, !.cached = TRUE, !.iter_cached = call.iter_cached])
  /\ IF call.left > 1
     THEN call' = [call EXCEPT !.left = @ - 1] /\ UNCHANGED <<obj, runs>>
     ELSE /\ call' = Free
          /\ obj' = [obj EXCEPT !.id = -Run, !.group = Run, !.started = TRUE, !.ran = TRUE]
          /\ runs' = Run
  /\ UNCHANGED <<conf, delivered, failed, acked, monitor, keys, args, cache, rows, faults,
                 answer, asked>>

-----------------------------------------------------------------------------
Ops == CASE obj.kind = "Chain" -> {"result_group"} [] obj.kind = "Iter" -> {"result"}
         [] obj.kind = "AsyncTask" -> {"result", "result_group"}

\* result and result_group of the object, which need it started.
Ask ==
  /\ call = Free /\ obj.started /\ asked < Asks
  /\ \E op \in Ops, failures \in BOOLEAN :
       /\ op = "result" => ~failures
       /\ call' = [pc |-> IF op = "result" THEN "poll" ELSE "count", op |-> op,
                   failures |-> failures, late |-> FALSE, keys |-> <<>>,
                   count |-> IF obj.kind = "Chain" THEN obj.length ELSE runs]
  /\ asked' = asked + 1 /\ answer' = Nothing
  /\ UNCHANGED <<vars, obj, runs>>

Answer(value, made) ==
  /\ call' = Free
  /\ answer' = [value |-> value, made |-> made, late |-> call.late, run |-> runs,
                op |-> call.op, length |-> obj.length]

Labelled == {id \in DOMAIN rows : rows[id].group = obj.group}

\* result_group_cached counts the keys; result_group counts where CACHED says.
count_group == IF obj.cached \/ conf.CACHED THEN Len(keys[obj.group]) ELSE Cardinality(Labelled)

\* Faulty variant: the wait ends with the first result.
EnoughAny == count_group > 0

Enough == count_group = call.count

Counted == /\ call.pc = "count" /\ Enough
           /\ call' = [call EXCEPT !.pc = "poll"]
           /\ UNCHANGED <<vars, obj, runs, answer, asked>>

result_cached == /\ obj.cached /\ call.op = "result" /\ obj.id \in DOMAIN cache
                 /\ Answer("results", ToSet(cache[obj.id].result))

\* Task.get_result asks whether the row exists, and then for the row.
result_exists == /\ ~obj.cached /\ call.op = "result" /\ obj.id \in DOMAIN rows
                 /\ call' = [call EXCEPT !.pc = "get"] /\ UNCHANGED answer

result_group_cached == /\ obj.cached /\ call.op = "result_group" /\ keys[obj.group] # <<>>
                       /\ call' = [call EXCEPT !.pc = "members", !.keys = keys[obj.group]]
                       /\ UNCHANGED answer

\* Task.get_result_group and get_task_group
result_group ==
  /\ ~obj.cached /\ call.op = "result_group"
  /\ LET found == {id \in Labelled : call.failures \/ rows[id].success}
     IN found # {} /\ Answer("results", found)

Poll == /\ call.pc = "poll"
        /\ result_cached \/ result_exists \/ result_group_cached \/ result_group
        /\ UNCHANGED <<vars, obj, runs, asked>>

GetRow == /\ call.pc = "get"
          /\ IF obj.id \in DOMAIN rows THEN Answer("results", ToSet(rows[obj.id].result))
             ELSE Answer("raised", {})
          /\ UNCHANGED <<vars, obj, runs, asked>>

\* A key whose task is not there, or not there yet, raises.
GetMembers ==
  /\ call.pc = "members"
  /\ IF ToSet(call.keys) \subseteq DOMAIN cache
     THEN Answer("results", {id \in ToSet(call.keys) : call.failures \/ cache[id].success})
     ELSE Answer("raised", {})
  /\ UNCHANGED <<vars, obj, runs, asked>>

\* The time to wait is over: for the count, the results are read all the same.
Elapse == /\ \/ call.pc = "count" /\ call' = [call EXCEPT !.pc = "poll", !.late = TRUE]
             \/ call.pc = "poll" /\ call' = Free
          /\ UNCHANGED <<vars, obj, runs, answer, asked>>

Calling == Push \/ Counted \/ Poll \/ GetRow \/ GetMembers

ApiNext == \/ append \/ SetOption \/ run \/ Ask \/ Elapse \/ Calling
           \/ Monitoring /\ UNCHANGED api

ApiSpec == ApiInit /\ [][ApiNext]_allVars

\* Processes are scheduled, a broker delivers each package to a worker that ends
\* (see Pipeline and WorkerTimer), and a call that has begun goes on.
Fairness ==
  /\ WF_allVars(Calling)
  /\ \A m \in Monitors : WF_allVars(Step(m) /\ UNCHANGED api)
  /\ \A i \in 1..MaxPackages :
       WF_allVars(\E m \in Monitors, success \in BOOLEAN :
                    i \in DOMAIN pkgs /\ delivered[i] = 0 /\ Deliver(m, i, success) /\ UNCHANGED api)

ApiFairSpec == ApiSpec /\ Fairness

-----------------------------------------------------------------------------
\* A key list names a member without an entry only while a monitor is at it, which
\* sets the list before the entry and deletes it after, or when something failed, was
\* delivered again, or was on its way when its chain's group was deleted.
TornOnlyInFlight ==
  (faults = 0 /\ ~obj.dirty) => \A g \in Groups : \A n \in DOMAIN keys[g] :
    \/ keys[g][n] \in DOMAIN cache
    \/ \E m \in Monitors : \/ (At(m, "chain") \/ At(m, "set")) /\ monitor[m].id = keys[g][n]
                           \/ At(m, "forget") /\ Of(m).group = g

\* The results a program gets are those of the object's last run: an iterable's and
\* a task's always, a chain's if it was extended and run again with nothing on its
\* way and its option agrees with CACHED, while nothing fails or is delivered again.
AnswerOfLastRun ==
  (answer.value = "results" /\ (answer.op = "result" \/ (obj.kind = "Chain" /\ ~obj.dirty /\ faults = 0)))
    => \A i \in answer.made : pkgs[i].run = answer.run

\* A chain that did not wait in vain has every link's result, but for failures it
\* was not asked for.
AnswerWhole ==
  (/\ answer.value = "results" /\ answer.op = "result_group" /\ obj.kind = "Chain"
   /\ ~answer.late /\ ~obj.dirty /\ faults = 0)
    => \A n \in 1..answer.length : \E i \in DOMAIN pkgs :
         pkgs[i].run = answer.run /\ pkgs[i].item = n /\ i \in answer.made \cup failed

\* Two monitors are at one iterable between reading its key list and setting an entry.
Overlapping == \E m, n \in Monitors :
  /\ m # n
  /\ {monitor[m].pc, monitor[n].pc} \subseteq {"collate", "extend", "set"}
  /\ Of(m).iter_count > 0 /\ Of(m).group = Of(n).group

\* Where the results are stored for good, and the program looks where they are.
StoredWhere == IF obj.kind # "Iter" \/ ~obj.q_options THEN obj.cached ELSE obj.forced /\ runs > 1

Answerable ==
  /\ ~obj.dirty /\ faults = 0
  /\ StoredWhere = obj.cached /\ (obj.cached \/ conf.SAVE_LIMIT = 0)
  /\ call.op = "result" \/ (obj.kind = "Chain" /\ (obj.cached \/ (~conf.CACHED /\ call.failures)))

Asking == call.pc \in {"count", "poll"}

\* A program that waits for an iterable, a task or a chain without a limit is
\* answered, provided that no two monitors ever overlap at an iterable.  Where they
\* do, without any failure, one writes back a list without the other's name, or finds
\* a name whose entry is still to be set and gives up its own task (monitor.py:182,
\* 207, 224-227): the iterable is never collated, and the program waits for ever.
Answered == []~Overlapping => ((Asking /\ Answerable) ~> (call = Free))
=============================================================================

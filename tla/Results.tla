------------------------------- MODULE Results -------------------------------
(***************************************************************************)
(* What becomes of outcomes (django_q/monitor.py): save_task writes rows   *)
(* of the Task table and prunes them, save_cached keeps tasks, groups and  *)
(* the members of an iterable in the cache until they can be collated, and *)
(* both enqueue the next link of a chain.  The monitors of several         *)
(* clusters do so at the same time, one query or cache call after another. *)
(* A package is delivered to a monitor once, or again when its lease ran   *)
(* out (see Pipeline); ack_failure and MAX_ATTEMPTS are Pipeline's too.    *)
(***************************************************************************)
EXTENDS Integers, FiniteSets, Sequences, SequencesExt, Functions

CONSTANTS Monitors,
          Settings,    \* records of SAVE_LIMIT, SAVE_LIMIT_PER and CACHED
          Groups,      \* bound: numbers of groups and runs
          MaxPackages, \* bound: packages enqueued
          MaxFaults    \* bound: redeliveries, deaths of a monitor, errors

ASSUME ResultsAssumption ==
  /\ Settings \subseteq [SAVE_LIMIT : -1..MaxPackages, CACHED : BOOLEAN,
                         SAVE_LIMIT_PER : {"None", "group", "name"}]
  /\ IsFiniteSet(Monitors) /\ IsFiniteSet(Groups) /\ Groups = 1..Cardinality(Groups)
  /\ MaxPackages \in Nat /\ MaxFaults \in Nat

VARIABLES conf,      \* Conf
          pkgs,      \* the packages enqueued so far; the index is the uuid
          delivered, \* delivered[i]: how often package i reached a monitor
          failed,    \* history: packages with a failed outcome
          acked,     \* acknowledged packages
          monitor,   \* monitor[m]: where it is, its task and what it has read
          keys,      \* keys[g]: the cached list of g's members, <<>> for none
          args,      \* groups whose iterable's arguments are cached
          cache,     \* cached tasks by id
          rows,      \* the Task table by id
          faults

vars == <<conf, pkgs, delivered, failed, acked, monitor, keys, args, cache, rows, faults>>

\* Packages have the ids 1, 2, ..; a collated iterable has its group's, -1, -2, ..
Package == [run : Groups, item : Nat, group : Groups, iter_count : Nat, chain : Nat,
            cached : BOOLEAN, iter_cached : BOOLEAN]
Result == Seq(1..MaxPackages)    \* whose return values it is made of
Stored == [success : BOOLEAN, result : Result]
Row == [name : 1..MaxPackages, group : Groups \cup {0}, success : BOOLEAN, result : Result]
NoRow == [name |-> 0, group |-> 0, success |-> FALSE, result |-> <<>>]
Ids == -Cardinality(Groups)..MaxPackages
Waiting == [pc |-> "get"]
Task == [pc : {"list", "collate", "extend", "chain", "set", "prune", "find", "write",
               "delete", "forget", "acknowledge"},
         name : 1..MaxPackages, id : Ids, success : BOOLEAN, result : Result,
         group_list : Seq(1..MaxPackages), task_obj : Row \cup {NoRow}]

TypeOK == /\ conf \in Settings
          /\ pkgs \in Seq(Package) /\ Len(pkgs) <= MaxPackages
          /\ delivered \in [1..MaxPackages -> 0..(MaxFaults + 1)]
          /\ failed \cup acked \subseteq {i \in DOMAIN pkgs : delivered[i] > 0}
          /\ monitor \in [Monitors -> Task \cup {Waiting}]
          /\ keys \in [Groups -> Seq(DOMAIN pkgs)]
          /\ args \subseteq Groups
          /\ DOMAIN cache \subseteq Ids /\ Range(cache) \subseteq Stored
          /\ DOMAIN rows \subseteq Ids /\ Range(rows) \subseteq Row
          /\ faults \in 0..MaxFaults

Init == /\ conf \in Settings
        /\ pkgs = <<>>
        /\ delivered = [i \in 1..MaxPackages |-> 0]
        /\ failed = {} /\ acked = {}
        /\ monitor = [m \in Monitors |-> Waiting]
        /\ keys = [g \in Groups |-> <<>>]
        /\ args = {}
        /\ cache = <<>> /\ rows = <<>>
        /\ faults = 0

-----------------------------------------------------------------------------
Put(f, id, value) == [x \in DOMAIN f \cup {id} |-> IF x = id THEN value ELSE f[x]]
Drop(f, ids) == Restrict(f, DOMAIN f \ ids)
Move(m, pc) == monitor' = [monitor EXCEPT ![m].pc = pc]
At(m, pc) == monitor[m].pc = pc
Of(m) == pkgs[monitor[m].name]
Collated(t) == t.id < 0
Fault == faults < MaxFaults /\ faults' = faults + 1

\* After save_task or save_cached: the iterable's keys are deleted, or acknowledge.
After(t) == IF Collated(t) THEN "delete" ELSE "acknowledge"

\* Faulty variant: what is enqueued is not taken off the chain.
RestAgain(p) == [p EXCEPT !.item = @ + 1]

\* async_chain with task["chain"]: the next link and the ones after it.
Rest(p) == [p EXCEPT !.item = @ + 1, !.chain = @ - 1]

\* Where save_task begins for outcome t of package p.
save_task(t, p) == IF conf.SAVE_LIMIT < 0 /\ t.success THEN After(t)
                   ELSE IF p.chain > 0 THEN "chain" ELSE "prune"

Begin(t, p) == IF p.cached THEN "list" ELSE save_task(t, p)

\* result_queue.get: an outcome of package i, the first or one more.
Deliver(m, i, success) ==
  /\ At(m, "get")
  /\ IF delivered[i] = 0 THEN UNCHANGED faults ELSE Fault
  /\ delivered' = [delivered EXCEPT ![i] = @ + 1]
  /\ failed' = IF success THEN failed ELSE failed \cup {i}
  /\ LET t == [pc |-> "list", name |-> i, id |-> i, success |-> success, result |-> <<i>>,
               group_list |-> <<>>, task_obj |-> NoRow]
     IN monitor' = [monitor EXCEPT ![m] = [t EXCEPT !.pc = Begin(t, pkgs[i])]]
  /\ UNCHANGED <<conf, pkgs, acked, keys, args, cache, rows>>

-----------------------------------------------------------------------------
(* save_cached *)

\* Faulty variant: the result at hand is not counted.
ReadyLate(p, list) == p.iter_count > 0 /\ Len(list) = p.iter_count

\* Are all the other members of p's iterable in the list?
Ready(p, list) == p.iter_count > 0 /\ Len(list) = p.iter_count - 1

ReadList(m) ==
  /\ At(m, "list")
  /\ LET list == keys[Of(m).group]
     IN monitor' = [monitor EXCEPT ![m].group_list = list,
                                   ![m].pc = IF Ready(Of(m), list) THEN "collate" ELSE "extend"]
  /\ UNCHANGED <<conf, pkgs, delivered, failed, acked, keys, args, cache, rows, faults>>

\* The task becomes the iterable's; a key that is gone raises.
Collate(m) ==
  /\ At(m, "collate")
  /\ LET t == monitor[m]
         whole == [t EXCEPT !.id = -Of(m).group,
                            !.result = [n \in DOMAIN t.group_list |->
                                          Head(cache[t.group_list[n]].result)] \o @]
     IN IF ToSet(t.group_list) \subseteq DOMAIN cache /\ Of(m).group \in args
        THEN monitor' = [monitor EXCEPT ![m] = [whole EXCEPT !.pc =
                           IF Of(m).iter_cached THEN "set" ELSE save_task(whole, Of(m))]]
        ELSE Move(m, "acknowledge")
  /\ UNCHANGED <<conf, pkgs, delivered, failed, acked, keys, args, cache, rows, faults>>

Extend(m) ==
  /\ At(m, "extend")
  /\ keys' = [keys EXCEPT ![Of(m).group] = Append(monitor[m].group_list, monitor[m].id)]
  /\ Move(m, IF Of(m).chain > 0 THEN "chain" ELSE "set")
  /\ UNCHANGED <<conf, pkgs, delivered, failed, acked, args, cache, rows, faults>>

\* Faulty variant: the task is not saved when there is a next link.
ProgressOnly(m) ==
  /\ At(m, "chain") /\ Len(pkgs) < MaxPackages
  /\ pkgs' = Append(pkgs, Rest(Of(m)))
  /\ Move(m, "acknowledge")
  /\ UNCHANGED <<conf, delivered, failed, acked, keys, args, cache, rows, faults>>

\* save_cached and save_task: async_chain enqueues the next link.
Progress(m) ==
  /\ At(m, "chain") /\ Len(pkgs) < MaxPackages
  /\ pkgs' = Append(pkgs, Rest(Of(m)))
  /\ Move(m, IF Of(m).cached THEN "set" ELSE "prune")
  /\ UNCHANGED <<conf, delivered, failed, acked, keys, args, cache, rows, faults>>

SetTask(m) ==
  /\ At(m, "set")
  /\ cache' = Put(cache, monitor[m].id, [success |-> monitor[m].success,
                                         result |-> monitor[m].result])
  /\ Move(m, After(monitor[m]))
  /\ UNCHANGED <<conf, pkgs, delivered, failed, acked, keys, args, rows, faults>>

\* delete_many(group_list)
DeleteMembers(m) ==
  /\ At(m, "delete")
  /\ cache' = Drop(cache, ToSet(monitor[m].group_list))
  /\ Move(m, "forget")
  /\ UNCHANGED <<conf, pkgs, delivered, failed, acked, keys, args, rows, faults>>

\* Faulty variant: the arguments stay.
DeleteKeys(m) ==
  /\ At(m, "forget")
  /\ keys' = [keys EXCEPT ![Of(m).group] = <<>>]
  /\ Move(m, "acknowledge")
  /\ UNCHANGED <<conf, pkgs, delivered, failed, acked, args, cache, rows, faults>>

\* delete_many([group_key, group_args])
DeleteGroup(m) ==
  /\ At(m, "forget")
  /\ keys' = [keys EXCEPT ![Of(m).group] = <<>>]
  /\ args' = args \ {Of(m).group}
  /\ Move(m, "acknowledge")
  /\ UNCHANGED <<conf, pkgs, delivered, failed, acked, cache, rows, faults>>

-----------------------------------------------------------------------------
(* save_task *)

\* The successes SAVE_LIMIT counts; a collated task has lost its group.
Peers(t) == {id \in DOMAIN rows :
               /\ rows[id].success
               /\ conf.SAVE_LIMIT_PER = "name" => rows[id].name = t.name
               /\ conf.SAVE_LIMIT_PER = "group" /\ ~Collated(t)
                    => rows[id].group = pkgs[t.name].group}

\* Faulty variant: a limit that is exceeded is not noticed.
SurplusExact(t) == conf.SAVE_LIMIT > 0 /\ t.success /\ Cardinality(Peers(t)) = conf.SAVE_LIMIT

Surplus(t) == conf.SAVE_LIMIT > 0 /\ t.success /\ Cardinality(Peers(t)) >= conf.SAVE_LIMIT

\* A transaction of its own; which row is the oldest is left open.
Prune(m) ==
  /\ At(m, "prune")
  /\ IF Surplus(monitor[m]) THEN \E id \in Peers(monitor[m]) : rows' = Drop(rows, {id})
     ELSE UNCHANGED rows
  /\ Move(m, "find")
  /\ UNCHANGED <<conf, pkgs, delivered, failed, acked, keys, args, cache, faults>>

Find(m) ==
  /\ At(m, "find")
  /\ LET t == monitor[m]
     IN monitor' = [monitor EXCEPT
          ![m].pc = "write",
          ![m].task_obj = IF t.id \in DOMAIN rows /\ rows[t.id].name = t.name
                          THEN rows[t.id] ELSE NoRow]
  /\ UNCHANGED <<conf, pkgs, delivered, failed, acked, keys, args, cache, rows, faults>>

\* The row is created, unless it exists by now; an unsuccessful one is saved as it
\* was read but for the outcome; a successful one stays.
Write(m) ==
  /\ At(m, "write")
  /\ LET t == monitor[m]
         group == IF Collated(t) THEN 0 ELSE Of(m).group
         new == [name |-> t.name, group |-> group, success |-> t.success, result |-> t.result]
     IN rows' = IF t.task_obj = NoRow
                THEN IF t.id \in DOMAIN rows THEN rows ELSE Put(rows, t.id, new)
                ELSE IF t.task_obj.success THEN rows
                ELSE Put(rows, t.id, [new EXCEPT !.group = t.task_obj.group])
  /\ Move(m, After(monitor[m]))
  /\ UNCHANGED <<conf, pkgs, delivered, failed, acked, keys, args, cache, faults>>

-----------------------------------------------------------------------------
Acknowledge(m) ==
  /\ At(m, "acknowledge")
  /\ acked' = IF monitor[m].success THEN acked \cup {monitor[m].name} ELSE acked
  /\ monitor' = [monitor EXCEPT ![m] = Waiting]
  /\ UNCHANGED <<conf, pkgs, delivered, failed, keys, args, cache, rows, faults>>

\* The cache, the broker or the database raises: save_cached and save_task log it
\* and go on, except that save_task does not catch what async_chain raises.
Raise(m) ==
  /\ ~At(m, "get") /\ ~At(m, "acknowledge")
  /\ Fault
  /\ IF At(m, "chain") /\ ~Of(m).cached THEN monitor' = [monitor EXCEPT ![m] = Waiting]
     ELSE Move(m, IF At(m, "delete") \/ At(m, "forget") THEN "acknowledge"
                  ELSE After(monitor[m]))
  /\ UNCHANGED <<conf, pkgs, delivered, failed, acked, keys, args, cache, rows>>

\* The monitor dies with its task; the sentinel starts another one.
Die(m) == /\ ~At(m, "get")
          /\ Fault
          /\ monitor' = [monitor EXCEPT ![m] = Waiting]
          /\ UNCHANGED <<conf, pkgs, delivered, failed, acked, keys, args, cache, rows>>

Step(m) == \/ ReadList(m) \/ Collate(m) \/ Extend(m) \/ Progress(m) \/ SetTask(m)
           \/ DeleteMembers(m) \/ DeleteGroup(m)
           \/ Prune(m) \/ Find(m) \/ Write(m) \/ Acknowledge(m)

Monitoring == \E m \in Monitors :
                \/ \E i \in DOMAIN pkgs, success \in BOOLEAN : Deliver(m, i, success)
                \/ Step(m) \/ Raise(m) \/ Die(m)

-----------------------------------------------------------------------------
Members(g) == {i \in DOMAIN pkgs : pkgs[i].group = g}

\* A collated result has as many parts as the iterable has arguments, whatever the
\* monitors did to the key list; and they are those of all its members if none of
\* them was delivered twice.
Whole(g, result) == \A i \in Members(g) :
  /\ Len(result) = pkgs[i].iter_count
  /\ (\A j \in Members(g) : delivered[j] <= 1) => i \in ToSet(result)

CollatedWhole == \A g \in Groups : /\ -g \in DOMAIN cache => Whole(g, cache[-g].result)
                                   /\ -g \in DOMAIN rows => Whole(g, rows[-g].result)

\* docs/iterable.md:19, "Once all the 100 results are in the cache, they are collated":
\* what is collated has the result of every argument.
CollatesAll == \A g \in Groups : -g \in DOMAIN rows =>
  \A i \in Members(g) : i \in ToSet(rows[-g].result)

\* Nothing of an iterable stays in the cache once it was collated and the monitors
\* are through, when nothing was delivered twice or failed.
CacheCleared ==
  \A g \in Groups :
    (/\ faults = 0 /\ -g \in DOMAIN cache \cup DOMAIN rows
     /\ \A m \in Monitors : At(m, "get"))
      => keys[g] = <<>> /\ g \notin args /\ Members(g) \cap DOMAIN cache = {}

\* A link of a chain is enqueued at most once for each time the link before it
\* reached a monitor, and none after the last.
ChainInStep ==
  \A i \in DOMAIN pkgs : pkgs[i].iter_count = 0 /\ pkgs[i].item > 1 =>
    LET Link(n) == {j \in DOMAIN pkgs : pkgs[j].run = pkgs[i].run /\ pkgs[j].item = n}
        Deliveries(n) == {d \in Link(n) \X (1..(MaxFaults + 1)) : d[2] <= delivered[d[1]]}
    IN /\ Cardinality(Link(pkgs[i].item)) <= Cardinality(Deliveries(pkgs[i].item - 1))
       /\ \A j \in Link(1) : pkgs[i].item <= pkgs[j].chain + 1

\* Two monitors that prune and then create at the same time exceed SAVE_LIMIT, but
\* never by more than one row for each monitor beyond the first.
SaveLimitNearlyKept ==
  conf.SAVE_LIMIT > 0 /\ conf.SAVE_LIMIT_PER = "None" =>
    Cardinality({id \in DOMAIN rows : rows[id].success})
      <= conf.SAVE_LIMIT + Cardinality(Monitors) - 1
=============================================================================

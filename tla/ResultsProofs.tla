--------------------------- MODULE ResultsProofs ---------------------------
(***************************************************************************)
(* Proofs about the cached results, groups, iterables and chains: Results  *)
(* (monitor.py, save_cached and save_task) under the programs of TaskApi   *)
(* (tasks.py).  AInv is the inductive invariant of every run; SaveInv and  *)
(* ChainInv count; ClearInv, TornInv, LinksInv, LastInv and AskedInv say   *)
(* what holds while nothing fails and nothing is delivered twice.          *)
(***************************************************************************)
EXTENDS TaskApi, FiniteSetTheorems, TLAPS

Busy(m) == ~At(m, "get")
Single(g) == \A j \in Members(g) : delivered[j] <= 1

\* Distinct entries only.
Distinct(s) == \A a, b \in DOMAIN s : s[a] = s[b] => a = b

\* A collated result is made of as many members as the iterable has arguments; of
\* different ones, if none was delivered twice.
Made(g, r) == /\ obj.kind = "Iter" /\ r \in Result /\ Len(r) > 0
              /\ \A n \in DOMAIN r : r[n] \in Members(g) /\ Len(r) = pkgs[r[n]].iter_count
              /\ Single(g) => Distinct(r)

\* A list of members that have been delivered.
Listed(g, list) ==
  /\ list \in Result
  /\ \A n \in DOMAIN list : list[n] \in Members(g) /\ delivered[list[n]] >= 1 /\ pkgs[list[n]].cached

Objects == [kind : {"AsyncTask", "Iter", "Chain"}, cached : BOOLEAN, q_options : BOOLEAN,
            forced : BOOLEAN, length : 0..MaxLength, group : Groups \cup {0}, id : Ids,
            started : BOOLEAN, ran : BOOLEAN, dirty : BOOLEAN]

\* What the object knows of its last run.
ObjOK ==
  /\ obj \in Objects
  /\ runs \in 0..Cardinality(Groups)
  /\ conf \in Settings /\ args \subseteq Groups /\ faults \in 0..MaxFaults /\ asked \in 0..Asks
  /\ obj.started => obj.ran /\ obj.group \in Groups /\ obj.length > 0
  /\ (obj.started /\ obj.kind # "Chain") => obj.id # 0
  /\ obj.kind = "AsyncTask" => obj.id = 0 \/ (obj.id \in DOMAIN pkgs /\ pkgs[obj.id].run = runs)
  /\ obj.kind = "Iter" => obj.id = 0 \/ (obj.id = -runs /\ runs \in Groups)

\* The packages of a run are of one make, and of an iterable each has its own item.
PkgOK(p) ==
  /\ p \in Package
  /\ p.run <= runs \/ (call.pc = "push" /\ p.run = runs + 1)
  /\ obj.kind = "Iter" => /\ p.group = p.run /\ p.cached /\ p.chain = 0
                          /\ p.item \in 1..p.iter_count
  /\ obj.kind # "Iter" => p.iter_count = 0
  /\ obj.kind = "Chain" => p.group = obj.group /\ p.cached = obj.cached /\ p.item >= 1
  /\ obj.kind = "AsyncTask" => p.group = 1 /\ p.item = 1 /\ p.chain = 0

PkgsOK ==
  /\ pkgs \in Seq(Package) /\ Len(pkgs) <= MaxPackages
  /\ \A i \in DOMAIN pkgs : PkgOK(pkgs[i])
  /\ obj.kind = "Iter" => \A i, j \in DOMAIN pkgs : pkgs[i].run = pkgs[j].run =>
       /\ pkgs[i].iter_count = pkgs[j].iter_count
       /\ pkgs[i].item = pkgs[j].item => i = j
  /\ call.pc = "push" =>
       \A i \in DOMAIN pkgs : pkgs[i].run = runs + 1 =>
         pkgs[i].item <= obj.length - call.left /\ pkgs[i].iter_count = obj.length

DeliveredOK ==
  /\ delivered \in [1..MaxPackages -> 0..(MaxFaults + 1)]
  /\ \A i \in 1..MaxPackages : /\ delivered[i] <= faults + 1
                               /\ delivered[i] > 0 => i \in DOMAIN pkgs
  /\ failed \cup acked \subseteq {i \in DOMAIN pkgs : delivered[i] > 0}
  /\ \A m, n \in Monitors :
       (m # n /\ Busy(m) /\ Busy(n) /\ monitor[m].name = monitor[n].name)
         => delivered[monitor[m].name] >= 2

\* The task a monitor is at.
TaskOK(t) ==
  /\ t \in Task
  /\ t.name \in DOMAIN pkgs /\ delivered[t.name] >= 1
  /\ Listed(pkgs[t.name].group, t.group_list)
  /\ ~t.success => t.name \in failed
  /\ t.pc \in {"list", "collate"} => t.task_obj = NoRow
  /\ t.task_obj.group \in {0, IF t.id < 0 THEN 0 ELSE pkgs[t.name].group}
  /\ t.id >= 0 => /\ t.id = t.name /\ t.result = <<t.name>>
                  /\ t.pc \notin {"delete", "forget"}
                  /\ t.pc \in {"list", "collate", "extend", "set"} => pkgs[t.name].cached
                  /\ t.pc \in {"prune", "find", "write"} => ~pkgs[t.name].cached
                  /\ t.pc = "chain" => pkgs[t.name].chain > 0
                  /\ t.pc = "collate" => Ready(pkgs[t.name], t.group_list)
  /\ t.id < 0 => /\ t.id = -pkgs[t.name].group /\ Made(pkgs[t.name].group, t.result)
                 /\ t.pc \notin {"list", "collate", "extend", "chain"}

MonitorsOK == /\ monitor \in [Monitors -> Task \cup {Waiting}]
              /\ \A m \in Monitors : Busy(m) => TaskOK(monitor[m])

KeysOK == /\ keys \in [Groups -> Result]
          /\ \A g \in Groups : Listed(g, keys[g])

CachedOK(id, c) ==
  /\ id \in Ids /\ c \in Stored
  /\ id >= 0 => /\ id \in DOMAIN pkgs /\ delivered[id] >= 1 /\ pkgs[id].cached
                /\ c.result = <<id>>
                /\ ~c.success => id \in failed
  /\ id < 0 => Made(-id, c.result)

CacheOK == \A id \in DOMAIN cache : CachedOK(id, cache[id])

RowOK(id, r) ==
  /\ id \in Ids /\ r \in Row
  /\ id >= 0 => /\ id \in DOMAIN pkgs /\ delivered[id] >= 1 /\ ~pkgs[id].cached
                /\ r.result = <<id>>
                /\ r.group \in {0, pkgs[id].group}
                /\ ~r.success => id \in failed
  /\ id < 0 => r.group = 0 /\ Made(-id, r.result)

RowsOK == \A id \in DOMAIN rows : RowOK(id, rows[id])

\* No member is twice in a list, if none was delivered twice.
Reading(m) == At(m, "list") \/ At(m, "collate") \/ At(m, "extend")
Unlisted(m, list) == Reading(m) => \A a \in DOMAIN list : list[a] # monitor[m].name
DistinctOK(g) ==
  Single(g) =>
    /\ Distinct(keys[g])
    /\ \A m \in Monitors : (Busy(m) /\ Of(m).group = g) =>
         /\ Distinct(monitor[m].group_list)
         /\ Unlisted(m, keys[g])
         /\ \A n \in Monitors : (Busy(n) /\ Of(n).group = g) => Unlisted(m, monitor[n].group_list)

Calls == {Free} \cup [pc : {"push"}, left : 1..MaxLength, iter_cached : BOOLEAN]
         \cup [pc : {"count", "poll", "get", "members"}, op : {"result", "result_group"},
               failures : BOOLEAN, late : BOOLEAN, keys : Result, count : Nat]

CallOK ==
  /\ call \in Calls
  /\ call.pc = "push" => obj.kind = "Iter" /\ runs < Cardinality(Groups) /\ call.left <= obj.length
  /\ call.pc \in {"count", "poll", "get", "members"} => obj.started /\ call.op \in Ops
  /\ call.pc = "get" => call.op = "result"
  /\ call.pc = "members" => call.op = "result_group" /\ Listed(obj.group, call.keys)

AnswerOK ==
  /\ answer \in [value : {"nothing", "results", "raised"}, made : SUBSET (1..MaxPackages),
                 late : BOOLEAN, run : 0..Cardinality(Groups),
                 op : {"none", "result", "result_group"}, length : 0..MaxLength]
  /\ answer.made \subseteq DOMAIN pkgs
  /\ (answer.value = "results" /\ answer.op = "result") =>
       \A i \in answer.made : pkgs[i].run = answer.run

AInv == /\ ObjOK /\ PkgsOK /\ DeliveredOK /\ MonitorsOK /\ KeysOK /\ CacheOK /\ RowsOK
        /\ CallOK /\ AnswerOK
        /\ \A g \in Groups : DistinctOK(g)

-----------------------------------------------------------------------------
\* What every step does to the packages: there are more of them, and they have been
\* delivered more often.
Grows ==
  /\ obj'.kind = obj.kind
  /\ DOMAIN pkgs \subseteq DOMAIN pkgs'
  /\ \A i \in DOMAIN pkgs : /\ pkgs'[i] = pkgs[i]
                            /\ delivered[i] \in Nat /\ delivered'[i] \in Nat
                            /\ delivered'[i] >= delivered[i]
  /\ failed \subseteq failed'

LEMMA SingleKept == ASSUME Grows, NEW g, Single(g)' PROVE Single(g)
  BY DEF Grows, Single, Members

LEMMA MadeKept == ASSUME Grows, NEW g, NEW r, Made(g, r) PROVE Made(g, r)'
<1>1. Single(g)' => Single(g)
  BY SingleKept
<1>2. \A n \in DOMAIN r : r[n] \in Members(g)' /\ Len(r) = pkgs'[r[n]].iter_count
  BY DEF Made, Grows, Members
<1> QED
  BY <1>1, <1>2 DEF Made, Grows

LEMMA ListedKept == ASSUME Grows, NEW g, NEW list, Listed(g, list) PROVE Listed(g, list)'
  BY DEF Listed, Grows, Members

LEMMA TaskKept == ASSUME Grows, NEW t, TaskOK(t) PROVE TaskOK(t)'
<1> DEFINE g == pkgs[t.name].group
<1>1. /\ t.name \in DOMAIN pkgs' /\ pkgs'[t.name] = pkgs[t.name]
      /\ delivered'[t.name] >= 1
  BY DEF Grows, TaskOK
<1>2. Listed(g, t.group_list)'
  <2>1. PICK h : h = g
    OBVIOUS
  <2>2. Listed(h, t.group_list)'
    BY <2>1, ListedKept DEF TaskOK
  <2> QED
    BY <1>1, <2>1, <2>2
<1>3. t.id < 0 => Made(g, t.result)'
  <2>1. PICK h : h = g
    OBVIOUS
  <2>2. t.id < 0 => Made(h, t.result)'
    BY <2>1, MadeKept DEF TaskOK
  <2> QED
    BY <1>1, <2>1, <2>2
<1>4. failed \subseteq failed'
  BY DEF Grows
<1> QED
  BY <1>1, <1>2, <1>3, <1>4 DEF TaskOK

LEMMA CachedKept == ASSUME Grows, NEW id, NEW c, CachedOK(id, c) PROVE CachedOK(id, c)'
<1>1. id < 0 => Made(-id, c.result)'
  BY MadeKept DEF CachedOK
<1> QED
  BY <1>1 DEF CachedOK, Grows

LEMMA RowKept == ASSUME Grows, NEW id, NEW r, RowOK(id, r) PROVE RowOK(id, r)'
<1>1. id < 0 => Made(-id, r.result)'
  BY MadeKept DEF RowOK
<1> QED
  BY <1>1 DEF RowOK, Grows

LEMMA CacheKept == ASSUME Grows, CacheOK, cache' = cache PROVE CacheOK'
  BY CachedKept DEF CacheOK

LEMMA RowsKept == ASSUME Grows, RowsOK, rows' = rows PROVE RowsOK'
  BY RowKept DEF RowsOK

LEMMA KeysKept == ASSUME Grows, KeysOK, keys' = keys PROVE KeysOK'
  BY ListedKept DEF KeysOK

LEMMA MonitorsKept == ASSUME Grows, MonitorsOK, monitor' = monitor PROVE MonitorsOK'
  BY TaskKept DEF MonitorsOK, Busy, At

LEMMA Constants ==
  /\ Groups = 1..Cardinality(Groups) /\ Cardinality(Groups) \in Nat
  /\ MaxPackages \in Nat /\ MaxFaults \in Nat /\ MaxLength \in Nat /\ Asks \in Nat
  /\ IsFiniteSet(Monitors) /\ Ids \subseteq Int
  /\ \A g \in Groups : g \in Nat /\ g > 0 /\ -g \in Ids
  /\ \A i \in 1..MaxPackages : i \in Nat /\ i > 0 /\ i \in Ids
<1>1. IsFiniteSet(Groups) /\ Groups = 1..Cardinality(Groups)
  BY ResultsAssumption
<1>2. Cardinality(Groups) \in Nat
  BY <1>1, FS_CardinalityType
<1>3. MaxPackages \in Nat /\ MaxFaults \in Nat /\ IsFiniteSet(Monitors)
  BY ResultsAssumption
<1>4. MaxLength \in Nat /\ Asks \in Nat
  BY ApiAssumption
<1>5. Ids \subseteq Int
  BY <1>2, <1>3 DEF Ids
<1>6. ASSUME NEW g \in Groups PROVE g \in Nat /\ g > 0 /\ -g \in Ids
  BY <1>1, <1>2, <1>3 DEF Ids
<1>7. ASSUME NEW i \in 1..MaxPackages PROVE i \in Nat /\ i > 0 /\ i \in Ids
  BY <1>2, <1>3 DEF Ids
<1> QED
  BY <1>1, <1>2, <1>3, <1>4, <1>5, <1>6, <1>7

\* What a monitor does once it has read the list: its member and list stay.
Later(m) == \/ monitor'[m] = monitor[m]
            \/ monitor'[m] = Waiting
            \/ /\ Busy(m) /\ monitor'[m].pc \notin {"get", "list", "collate", "extend"}
               /\ monitor'[m].name = monitor[m].name
               /\ monitor'[m].group_list = monitor[m].group_list

LEMMA DistinctKept ==
  ASSUME Grows, MonitorsOK, \A m \in Monitors : Later(m), NEW g \in Groups,
         keys'[g] = keys[g] \/ keys'[g] = <<>>, DistinctOK(g)
  PROVE DistinctOK(g)'
<1> SUFFICES ASSUME Single(g)' PROVE /\ Distinct(keys[g])'
             /\ \A m \in Monitors : (Busy(m)' /\ Of(m)'.group = g) =>
                  /\ Distinct(monitor[m].group_list)'
                  /\ Unlisted(m, keys[g])'
                  /\ \A n \in Monitors : (Busy(n)' /\ Of(n)'.group = g) =>
                       Unlisted(m, monitor[n].group_list)'
  BY DEF DistinctOK
<1>1. Single(g)
  BY SingleKept
<1>2. Distinct(keys[g])'
  BY <1>1 DEF DistinctOK, Distinct
<1>3. ASSUME NEW m \in Monitors, Busy(m)', Of(m)'.group = g
      PROVE /\ Busy(m) /\ Of(m).group = g
            /\ monitor'[m].name = monitor[m].name
            /\ monitor'[m].group_list = monitor[m].group_list
            /\ Reading(m)' => Reading(m)
  <2>1. monitor'[m] # Waiting
    BY <1>3 DEF Busy, At, Waiting
  <2>2. Busy(m)
    BY <2>1, <1>3 DEF Later, Busy, At
  <2>3. monitor[m].name \in DOMAIN pkgs
    BY <2>2 DEF MonitorsOK, TaskOK
  <2>4. monitor'[m].name = monitor[m].name /\ monitor'[m].group_list = monitor[m].group_list
    BY <2>1 DEF Later
  <2>5. Of(m).group = g
    BY <2>3, <2>4, <1>3 DEF Of, Grows
  <2>6. Reading(m)' => Reading(m)
    BY <2>1 DEF Later, Reading, At
  <2> QED
    BY <2>2, <2>4, <2>5, <2>6
<1>4. ASSUME NEW m \in Monitors, Busy(m)', Of(m)'.group = g
      PROVE /\ Distinct(monitor[m].group_list)'
            /\ Unlisted(m, keys[g])'
  BY <1>1, <1>3, <1>4 DEF DistinctOK, Distinct, Unlisted
<1>5. ASSUME NEW m \in Monitors, Busy(m)', Of(m)'.group = g,
             NEW n \in Monitors, Busy(n)', Of(n)'.group = g
      PROVE Unlisted(m, monitor[n].group_list)'
  <2>1. Unlisted(m, monitor[n].group_list)
    BY <1>1, <1>3, <1>5 DEF DistinctOK
  <2> QED
    BY <2>1, <1>3, <1>5 DEF Unlisted
<1> QED
  BY <1>2, <1>4, <1>5

\* It is at the same member as before, if it is at one.
SameMember(m) == Busy(m)' => Busy(m) /\ monitor'[m].name = monitor[m].name

LEMMA LaterSame == ASSUME NEW m, Later(m) PROVE SameMember(m)
  BY DEF Later, SameMember, Busy, At, Waiting

LEMMA DeliveredKept ==
  ASSUME Grows, DeliveredOK, MonitorsOK, \A m \in Monitors : SameMember(m),
         delivered' = delivered, failed' = failed, faults' \in faults..MaxFaults, faults \in Nat,
         NEW m, acked' = acked \/ (m \in Monitors /\ Busy(m) /\ acked' = acked \cup {monitor[m].name})
  PROVE DeliveredOK'
<1>1. failed' \cup acked' \subseteq {i \in DOMAIN pkgs' : delivered'[i] > 0}
  <2>1. (m \in Monitors /\ Busy(m)) =>
          monitor[m].name \in DOMAIN pkgs /\ delivered[monitor[m].name] >= 1
    BY DEF MonitorsOK, TaskOK
  <2> QED
    BY <2>1 DEF DeliveredOK, Grows
<1>2. \A i \in 1..MaxPackages : /\ delivered'[i] <= faults' + 1
                                /\ delivered'[i] > 0 => i \in DOMAIN pkgs'
  BY Constants DEF DeliveredOK, Grows
<1>3. ASSUME NEW k \in Monitors, NEW n \in Monitors,
             k # n /\ Busy(k)' /\ Busy(n)' /\ monitor'[k].name = monitor'[n].name
      PROVE delivered'[monitor'[k].name] >= 2
  BY <1>3 DEF DeliveredOK, SameMember
<1> QED
  BY <1>1, <1>2, <1>3 DEF DeliveredOK

\* While a monitor is at work the object and its call are left alone.
LEMMA ApiKept ==
  ASSUME Grows, ObjOK, CallOK, AnswerOK, UNCHANGED api, conf' = conf, args' \subseteq args,
         faults' \in 0..MaxFaults
  PROVE ObjOK' /\ CallOK' /\ AnswerOK'
<1>1. ObjOK'
  BY DEF ObjOK, api, Grows
<1>2. CallOK'
  <2>1. call.pc = "members" => Listed(obj.group, call.keys)'
    <3>1. PICK g, list : g = obj.group /\ list = call.keys
      OBVIOUS
    <3>2. call.pc = "members" => Listed(g, list)'
      BY <3>1, ListedKept DEF CallOK
    <3> QED
      BY <3>1, <3>2 DEF api
  <2> QED
    BY <2>1 DEF CallOK, api, Ops
<1>3. AnswerOK'
  BY DEF AnswerOK, api, Grows
<1> QED
  BY <1>1, <1>2, <1>3

LEMMA PkgsKept == ASSUME PkgsOK, pkgs' = pkgs, UNCHANGED api PROVE PkgsOK'
  BY DEF PkgsOK, PkgOK, api

\* The states a task may move to, in which it is as TaskOK says.
Allowed(t, pc) ==
  /\ pc \in {"chain", "set", "prune", "find", "write", "delete", "forget", "acknowledge"}
  /\ t.id >= 0 => /\ pc \notin {"delete", "forget"}
                  /\ pc = "set" => pkgs[t.name].cached
                  /\ pc \in {"prune", "find", "write"} => ~pkgs[t.name].cached
                  /\ pc = "chain" => pkgs[t.name].chain > 0
  /\ t.id < 0 => pc # "chain"

LEMMA AllowedOK == ASSUME NEW t, TaskOK(t), NEW pc, Allowed(t, pc)
                   PROVE TaskOK([t EXCEPT !.pc = pc])
<1> DEFINE u == [t EXCEPT !.pc = pc]
<1>1. /\ u \in Task /\ u.pc = pc /\ u.name = t.name /\ u.id = t.id /\ u.success = t.success
      /\ u.result = t.result /\ u.group_list = t.group_list /\ u.task_obj = t.task_obj
  BY DEF TaskOK, Task, Allowed
<1> HIDE DEF u
<1>2. TaskOK(u)
  BY <1>1 DEF TaskOK, Allowed
<1> QED
  BY <1>2 DEF u

\* One monitor takes a step with its task; the others do not.
Turns(m) == /\ monitor' \in [Monitors -> Task \cup {Waiting}]
            /\ \A n \in Monitors : n # m => monitor'[n] = monitor[n]
            /\ monitor'[m] = Waiting \/ TaskOK(monitor'[m])

LEMMA MoveTurns ==
  ASSUME MonitorsOK, NEW m \in Monitors, Busy(m), NEW pc, Move(m, pc), Allowed(monitor[m], pc)
  PROVE /\ Turns(m) /\ \A n \in Monitors : Later(n)
        /\ monitor'[m] = [monitor[m] EXCEPT !.pc = pc]
        /\ monitor'[m].pc = pc /\ monitor'[m].name = monitor[m].name
<1> DEFINE u == [monitor[m] EXCEPT !.pc = pc]
<1>1. TaskOK(monitor[m]) /\ monitor[m] \in Task
  BY DEF MonitorsOK, TaskOK
<1>2. TaskOK(u)
  BY <1>1, AllowedOK
<1>3. u \in Task /\ u.pc = pc /\ u.name = monitor[m].name /\ u.group_list = monitor[m].group_list
  BY <1>1 DEF Task, Allowed
<1>4. pc \notin {"get", "list", "collate", "extend"}
  BY DEF Allowed
<1>5. monitor' = [monitor EXCEPT ![m] = u]
  BY DEF Move
<1> HIDE DEF u
<1>6. /\ monitor'[m] = u /\ \A n \in Monitors : n # m => monitor'[n] = monitor[n]
      /\ monitor' \in [Monitors -> Task \cup {Waiting}]
  BY <1>3, <1>5 DEF MonitorsOK
<1>7. Turns(m)
  BY <1>2, <1>6 DEF Turns
<1>8. \A n \in Monitors : Later(n)
  BY <1>3, <1>4, <1>6 DEF Later
<1> QED
  BY <1>3, <1>6, <1>7, <1>8 DEF u

LEMMA WaitTurns ==
  ASSUME MonitorsOK, NEW m \in Monitors, monitor' = [monitor EXCEPT ![m] = Waiting]
  PROVE Turns(m) /\ \A n \in Monitors : Later(n)
<1>1. /\ monitor'[m] = Waiting /\ \A n \in Monitors : n # m => monitor'[n] = monitor[n]
      /\ monitor' \in [Monitors -> Task \cup {Waiting}]
  BY DEF MonitorsOK
<1> QED
  BY <1>1 DEF Turns, Later

LEMMA TurnsOK == ASSUME MonitorsOK, Grows, NEW m \in Monitors, Turns(m) PROVE MonitorsOK'
<1>1. ASSUME NEW n \in Monitors, Busy(n)' PROVE TaskOK(monitor[n])'
  <2>1. TaskOK(monitor'[n])
    BY <1>1 DEF Turns, MonitorsOK, Busy, At, Waiting
  <2>2. PICK t : t = monitor'[n]
    OBVIOUS
  <2>3. TaskOK(t)'
    BY <2>1, <2>2, TaskKept
  <2> QED
    BY <2>2, <2>3
<1> QED
  BY <1>1 DEF MonitorsOK, Turns

\* What a step of a monitor leaves to be shown.
LEMMA MonitorStep ==
  ASSUME AInv, Grows, UNCHANGED api, conf' = conf, args' \subseteq args, faults' \in faults..MaxFaults,
         delivered' = delivered, failed' = failed,
         NEW m \in Monitors, Busy(m), Turns(m), \A n \in Monitors : Later(n),
         acked' = acked \/ acked' = acked \cup {monitor[m].name},
         \A g \in Groups : keys'[g] = keys[g] \/ keys'[g] = <<>>,
         PkgsOK', KeysOK', CacheOK', RowsOK'
  PROVE AInv'
<1>0. faults \in Nat /\ faults' \in 0..MaxFaults
  BY Constants DEF AInv, ObjOK
<1>1. ObjOK' /\ CallOK' /\ AnswerOK'
  BY <1>0, ApiKept DEF AInv
<1>2. DeliveredOK'
  BY <1>0, DeliveredKept, LaterSame DEF AInv
<1>3. MonitorsOK'
  BY TurnsOK DEF AInv
<1>4. \A g \in Groups : DistinctOK(g)'
  BY DistinctKept DEF AInv
<1> QED
  BY <1>1, <1>2, <1>3, <1>4 DEF AInv

LEMMA SameGrows == ASSUME AInv, pkgs' = pkgs, delivered' = delivered, failed' = failed,
                          UNCHANGED api
                   PROVE Grows /\ PkgsOK'
<1>1. DOMAIN pkgs \subseteq 1..MaxPackages
  BY Constants DEF AInv, PkgsOK
<1>2. Grows
  BY <1>1, Constants DEF Grows, AInv, DeliveredOK, api
<1> QED
  BY <1>2, PkgsKept DEF AInv

LEMMA NoListing == ASSUME NEW g PROVE Listed(g, <<>>)
  BY DEF Listed, Result

LEMMA EmptyResult == <<>> \in Result
  BY DEF Result

LEMMA TaskPkg == ASSUME AInv, NEW t, TaskOK(t)
                 PROVE /\ t.name \in DOMAIN pkgs /\ t.name \in 1..MaxPackages /\ t.name \in Nat
                       /\ PkgOK(pkgs[t.name]) /\ pkgs[t.name] \in Package
                       /\ pkgs[t.name].group \in Groups /\ pkgs[t.name].group \in Nat
                       /\ t.id \in Ids /\ t.id \in Int
<1>1. t.name \in DOMAIN pkgs /\ t.name \in 1..MaxPackages /\ t.id \in Ids
  BY DEF TaskOK, Task
<1>2. PkgOK(pkgs[t.name])
  BY <1>1 DEF AInv, PkgsOK
<1>3. pkgs[t.name] \in Package
  BY <1>2 DEF PkgOK
<1>4. pkgs[t.name].group \in Groups
  BY <1>3 DEF Package
<1> QED
  BY <1>1, <1>2, <1>3, <1>4, Constants

LEMMA AtBusy == ASSUME NEW m, NEW pc, At(m, pc), pc # "get" PROVE Busy(m)
  BY DEF At, Busy

-----------------------------------------------------------------------------
\* The invariant, step by step.
LEMMA RaiseAInv == ASSUME AInv, NEW m \in Monitors, Raise(m), UNCHANGED api PROVE AInv'
<1>1. Busy(m) /\ TaskOK(monitor[m]) /\ MonitorsOK
  BY DEF Raise, AInv, MonitorsOK, Busy
<1>2. Grows /\ PkgsOK'
  BY SameGrows DEF Raise
<1>3. CacheOK' /\ RowsOK' /\ KeysOK'
  BY <1>2, CacheKept, RowsKept, KeysKept DEF Raise, AInv
<1>4. Turns(m) /\ \A n \in Monitors : Later(n)
  <2>1. CASE At(m, "chain") /\ ~Of(m).cached
    BY <2>1, <1>1, WaitTurns DEF Raise
  <2>2. CASE ~(At(m, "chain") /\ ~Of(m).cached)
    <3>1. PICK pc : /\ pc = IF At(m, "delete") \/ At(m, "forget") THEN "acknowledge"
                            ELSE After(monitor[m])
                    /\ Move(m, pc)
      BY <2>2 DEF Raise
    <3>2. Allowed(monitor[m], pc)
      BY <3>1, <1>1, Constants DEF Allowed, After, Collated, TaskOK, Task
    <3> QED
      BY <3>1, <3>2, <1>1, MoveTurns
  <2> QED
    BY <2>1, <2>2
<1>5. faults' \in faults..MaxFaults
  BY Constants DEF Raise, Fault, AInv, ObjOK
<1>6. acked' = acked /\ keys' = keys /\ args' = args /\ conf' = conf /\ delivered' = delivered /\ failed' = failed
  BY DEF Raise
<1> QED
  BY <1>1, <1>2, <1>3, <1>4, <1>5, <1>6, MonitorStep

LEMMA DieAInv == ASSUME AInv, NEW m \in Monitors, Die(m), UNCHANGED api PROVE AInv'
<1>1. Busy(m) /\ MonitorsOK
  BY DEF Die, AInv, Busy
<1>2. Grows /\ PkgsOK'
  BY SameGrows DEF Die
<1>3. CacheOK' /\ RowsOK' /\ KeysOK'
  BY <1>2, CacheKept, RowsKept, KeysKept DEF Die, AInv
<1>4. Turns(m) /\ \A n \in Monitors : Later(n)
  BY <1>1, WaitTurns DEF Die
<1>5. faults' \in faults..MaxFaults
  BY Constants DEF Die, Fault, AInv, ObjOK
<1>6. acked' = acked /\ keys' = keys /\ args' = args /\ conf' = conf /\ delivered' = delivered /\ failed' = failed
  BY DEF Die
<1> QED
  BY <1>1, <1>2, <1>3, <1>4, <1>5, <1>6, MonitorStep

LEMMA SetTaskAInv == ASSUME AInv, NEW m \in Monitors, SetTask(m), UNCHANGED api PROVE AInv'
<1> DEFINE t == monitor[m]
<1>1. Busy(m) /\ TaskOK(t) /\ MonitorsOK
  BY DEF SetTask, AInv, MonitorsOK, Busy, At
<1>2. Grows /\ PkgsOK'
  BY SameGrows DEF SetTask
<1>3. RowsOK' /\ KeysOK'
  BY <1>2, RowsKept, KeysKept DEF SetTask, AInv
<1>4. CacheOK'
  <2> DEFINE c == [success |-> t.success, result |-> t.result]
  <2>1. c \in Stored /\ c.success = t.success /\ c.result = t.result
    BY <1>1 DEF TaskOK, Task, Stored
  <2> HIDE DEF c
  <2>2. CachedOK(t.id, c)
    <3>1. t.id \in Ids /\ t.name \in Nat /\ pkgs[t.name].group \in Nat
      BY <1>1, TaskPkg
    <3>2. t.id >= 0 => /\ t.id \in DOMAIN pkgs /\ delivered[t.id] >= 1 /\ pkgs[t.id].cached
                       /\ c.result = <<t.id>>
      BY <1>1, <2>1 DEF TaskOK, SetTask, At
    <3>3. t.id >= 0 => (~c.success => t.id \in failed)
      BY <1>1, <2>1, Zenon DEF TaskOK
    <3>4. t.id < 0 => Made(-t.id, c.result)
      <4>1. t.id < 0 => pkgs[t.name].group = -t.id
        BY <1>1, <3>1 DEF TaskOK
      <4> QED
        BY <4>1, <1>1, <2>1 DEF TaskOK
    <3> QED
      BY <2>1, <3>1, <3>2, <3>3, <3>4 DEF CachedOK
  <2>3. PICK d, e : d = c /\ e = t.id
    OBVIOUS
  <2>4. cache' = [x \in DOMAIN cache \cup {e} |-> IF x = e THEN d ELSE cache[x]]
    BY <2>3 DEF SetTask, Put, c
  <2>5. CachedOK(e, d)'
    BY <2>2, <2>3, <1>2, CachedKept
  <2>6. \A x \in DOMAIN cache : CachedOK(x, cache[x])
    BY DEF AInv, CacheOK
  <2>7. ASSUME NEW x \in DOMAIN cache' PROVE CachedOK(x, cache[x])'
    <3>1. PICK y : y = cache[x]
      OBVIOUS
    <3>2. x # e => CachedOK(x, y)'
      BY <2>4, <2>6, <2>7, <3>1, <1>2, CachedKept
    <3>3. cache'[x] = IF x = e THEN d ELSE y
      BY <2>4, <2>7, <3>1
    <3> QED
      BY <2>5, <3>2, <3>3
  <2> QED
    BY <2>7 DEF CacheOK
<1>5. Turns(m) /\ \A n \in Monitors : Later(n)
  <2>1. PICK pc : pc = After(t) /\ Move(m, pc)
    BY DEF SetTask
  <2>2. Allowed(t, pc)
    BY <2>1, <1>1, Constants DEF Allowed, After, Collated, TaskOK, Task
  <2> QED
    BY <2>1, <2>2, <1>1, MoveTurns
<1>6. /\ acked' = acked /\ keys' = keys /\ args' = args /\ conf' = conf
      /\ delivered' = delivered /\ failed' = failed /\ faults' \in faults..MaxFaults /\ faults \in Nat /\ faults' \in 0..MaxFaults
  BY Constants DEF SetTask, AInv, ObjOK
<1> QED
  BY <1>1, <1>2, <1>3, <1>4, <1>5, <1>6, MonitorStep

LEMMA DeleteMembersAInv ==
  ASSUME AInv, NEW m \in Monitors, DeleteMembers(m), UNCHANGED api PROVE AInv'
<1>1. Busy(m) /\ TaskOK(monitor[m]) /\ MonitorsOK
  BY DEF DeleteMembers, AInv, MonitorsOK, Busy, At
<1>2. Grows /\ PkgsOK'
  BY SameGrows DEF DeleteMembers
<1>3. RowsOK' /\ KeysOK'
  BY <1>2, RowsKept, KeysKept DEF DeleteMembers, AInv
<1>4. CacheOK'
  <2>1. DOMAIN cache' \subseteq DOMAIN cache /\ \A x \in DOMAIN cache' : cache'[x] = cache[x]
    BY DEF DeleteMembers, Drop, Restrict
  <2> QED
    BY <2>1, <1>2, CachedKept DEF AInv, CacheOK
<1>5. Turns(m) /\ \A n \in Monitors : Later(n)
  <2>1. Allowed(monitor[m], "forget")
    BY <1>1, Constants DEF Allowed, DeleteMembers, At, TaskOK, Task
  <2> QED
    BY <2>1, <1>1, MoveTurns DEF DeleteMembers
<1>6. /\ acked' = acked /\ keys' = keys /\ args' = args /\ conf' = conf
      /\ delivered' = delivered /\ failed' = failed /\ faults' \in faults..MaxFaults /\ faults \in Nat /\ faults' \in 0..MaxFaults
  BY Constants DEF DeleteMembers, AInv, ObjOK
<1> QED
  BY <1>1, <1>2, <1>3, <1>4, <1>5, <1>6, MonitorStep

LEMMA DeleteGroupAInv ==
  ASSUME AInv, NEW m \in Monitors, DeleteGroup(m), UNCHANGED api PROVE AInv'
<1>1. Busy(m) /\ TaskOK(monitor[m]) /\ MonitorsOK
  BY DEF DeleteGroup, AInv, MonitorsOK, Busy, At
<1>2. Grows /\ PkgsOK'
  BY SameGrows DEF DeleteGroup
<1>3. RowsOK' /\ CacheOK'
  BY <1>2, RowsKept, CacheKept DEF DeleteGroup, AInv
<1>4. \A g \in Groups : keys'[g] = keys[g] \/ keys'[g] = <<>>
  BY DEF DeleteGroup, AInv, KeysOK
<1>5. KeysOK'
  <2>1. keys' \in [Groups -> Result]
    BY EmptyResult DEF DeleteGroup, AInv, KeysOK
  <2>2. ASSUME NEW g \in Groups PROVE Listed(g, keys[g])'
    <3>1. PICK k : k = keys'[g]
      OBVIOUS
    <3>2. Listed(g, k)
      BY <3>1, <1>4, NoListing DEF AInv, KeysOK
    <3>3. Listed(g, k)'
      BY <1>2, <3>2, ListedKept
    <3> QED
      BY <3>1, <3>3
  <2> QED
    BY <2>1, <2>2 DEF KeysOK
<1>6. Turns(m) /\ \A n \in Monitors : Later(n)
  <2>1. Allowed(monitor[m], "acknowledge")
    BY <1>1 DEF Allowed
  <2> QED
    BY <2>1, <1>1, MoveTurns DEF DeleteGroup
<1>7. /\ acked' = acked /\ args' \subseteq args /\ conf' = conf
      /\ delivered' = delivered /\ failed' = failed /\ faults' \in faults..MaxFaults /\ faults \in Nat /\ faults' \in 0..MaxFaults
  BY Constants DEF DeleteGroup, AInv, ObjOK
<1> QED
  BY <1>1, <1>2, <1>3, <1>4, <1>5, <1>6, <1>7, MonitorStep

LEMMA PruneAInv == ASSUME AInv, NEW m \in Monitors, Prune(m), UNCHANGED api PROVE AInv'
<1>1. Busy(m) /\ TaskOK(monitor[m]) /\ MonitorsOK
  BY DEF Prune, AInv, MonitorsOK, Busy, At
<1>2. Grows /\ PkgsOK'
  BY SameGrows DEF Prune
<1>3. KeysOK' /\ CacheOK'
  BY <1>2, KeysKept, CacheKept DEF Prune, AInv
<1>4. RowsOK'
  <2>1. DOMAIN rows' \subseteq DOMAIN rows /\ \A x \in DOMAIN rows' : rows'[x] = rows[x]
    BY DEF Prune, Drop, Restrict
  <2> QED
    BY <2>1, <1>2, RowKept DEF AInv, RowsOK
<1>5. Turns(m) /\ \A n \in Monitors : Later(n)
  <2>1. Allowed(monitor[m], "find")
    BY <1>1 DEF Allowed, Prune, At, TaskOK
  <2> QED
    BY <2>1, <1>1, MoveTurns DEF Prune
<1>6. /\ acked' = acked /\ keys' = keys /\ args' = args /\ conf' = conf
      /\ delivered' = delivered /\ failed' = failed /\ faults' \in faults..MaxFaults /\ faults \in Nat /\ faults' \in 0..MaxFaults
  BY Constants DEF Prune, AInv, ObjOK
<1> QED
  BY <1>1, <1>2, <1>3, <1>4, <1>5, <1>6, MonitorStep

LEMMA FindAInv == ASSUME AInv, NEW m \in Monitors, Find(m), UNCHANGED api PROVE AInv'
<1> DEFINE t == monitor[m]
           obj1 == IF t.id \in DOMAIN rows /\ rows[t.id].name = t.name THEN rows[t.id] ELSE NoRow
           u == [t EXCEPT !.pc = "write", !.task_obj = obj1]
<1>1. Busy(m) /\ TaskOK(t) /\ MonitorsOK /\ t.pc = "find"
  BY DEF Find, AInv, MonitorsOK, Busy, At
<1>2. Grows /\ PkgsOK'
  BY SameGrows DEF Find
<1>3. KeysOK' /\ CacheOK' /\ RowsOK'
  BY <1>2, KeysKept, CacheKept, RowsKept DEF Find, AInv
<1>4. obj1 \in Row \cup {NoRow} /\ obj1.group \in {0, IF t.id < 0 THEN 0 ELSE pkgs[t.name].group}
  <2>1. CASE t.id \in DOMAIN rows /\ rows[t.id].name = t.name
    <3>1. RowOK(t.id, rows[t.id])
      BY <2>1 DEF AInv, RowsOK
    <3>2. t.id >= 0 => t.id = t.name
      BY <1>1 DEF TaskOK
    <3>3. t.id \in Int
      BY <1>1, TaskPkg
    <3> QED
      BY <2>1, <3>1, <3>2, <3>3 DEF RowOK
  <2>2. CASE ~(t.id \in DOMAIN rows /\ rows[t.id].name = t.name)
    BY <2>2 DEF NoRow
  <2> QED
    BY <2>1, <2>2
<1>5. monitor' = [monitor EXCEPT ![m] = u]
  BY DEF Find
<1> HIDE DEF obj1
<1>6. t \in Task
  BY <1>1 DEF TaskOK
<1>7. /\ u \in Task /\ u.pc = "write" /\ u.name = t.name /\ u.id = t.id /\ u.success = t.success
      /\ u.result = t.result /\ u.group_list = t.group_list /\ u.task_obj = obj1
  BY <1>4, <1>6 DEF Task
<1> HIDE DEF u
<1>8. TaskOK(u)
  BY <1>1, <1>4, <1>7 DEF TaskOK
<1>9. /\ monitor'[m] = u /\ \A n \in Monitors : n # m => monitor'[n] = monitor[n]
      /\ monitor' \in [Monitors -> Task \cup {Waiting}]
  BY <1>5, <1>7, <1>1 DEF MonitorsOK
<1>10. Turns(m) /\ \A n \in Monitors : Later(n)
  BY <1>1, <1>7, <1>8, <1>9 DEF Turns, Later
<1>11. /\ acked' = acked /\ keys' = keys /\ args' = args /\ conf' = conf
       /\ delivered' = delivered /\ failed' = failed /\ faults' \in faults..MaxFaults /\ faults \in Nat /\ faults' \in 0..MaxFaults
  BY Constants DEF Find, AInv, ObjOK
<1> QED
  BY <1>1, <1>2, <1>3, <1>10, <1>11, MonitorStep

LEMMA WriteAInv == ASSUME AInv, NEW m \in Monitors, Write(m), UNCHANGED api PROVE AInv'
<1> DEFINE t == monitor[m]
           p == pkgs[t.name]
<1>1. Busy(m) /\ TaskOK(t) /\ MonitorsOK /\ t.pc = "write"
  BY DEF Write, AInv, MonitorsOK, Busy, At
<1>2. Grows /\ PkgsOK'
  BY SameGrows DEF Write
<1>3. KeysOK' /\ CacheOK'
  BY <1>2, KeysKept, CacheKept DEF Write, AInv
<1>4. RowsOK'
  <2>1. PICK group, e, d :
          /\ group = IF Collated(t) THEN 0 ELSE p.group
          /\ e = t.id
          /\ d = [name |-> t.name, success |-> t.success, result |-> t.result,
                  group |-> IF t.task_obj = NoRow THEN group ELSE t.task_obj.group]
    OBVIOUS
  <2>2. rows' = rows \/ rows' = [x \in DOMAIN rows \cup {e} |-> IF x = e THEN d ELSE rows[x]]
    <3>1. CASE t.task_obj = NoRow
      <4>1. d = [name |-> t.name, group |-> group, success |-> t.success, result |-> t.result]
        BY <2>1, <3>1
      <4> QED
        BY <2>1, <3>1, <4>1 DEF Write, Put, Of
    <3>2. CASE t.task_obj # NoRow
      <4> DEFINE new == [name |-> t.name, group |-> group, success |-> t.success, result |-> t.result]
      <4>1. d = [new EXCEPT !.group = t.task_obj.group]
        BY <2>1, <3>2
      <4> QED
        BY <2>1, <3>2, <4>1 DEF Write, Put, Of
    <3> QED
      BY <3>1, <3>2
  <2>3. /\ e \in Ids /\ e \in Int /\ t.name \in 1..MaxPackages /\ t.name \in Nat
        /\ p.group \in Groups /\ p.group \in Nat
    BY <1>1, <2>1, TaskPkg
  <2>4. t \in Task
    BY <1>1 DEF TaskOK
  <2>5. d.group \in {0, IF e < 0 THEN 0 ELSE p.group}
    BY <1>1, <2>1 DEF TaskOK, Collated
  <2>6. d \in Row /\ d.success = t.success /\ d.result = t.result
    <3>1. t.success \in BOOLEAN /\ t.result \in Result /\ d.group \in Groups \cup {0}
      BY <2>3, <2>4, <2>5 DEF Task
    <3>2. /\ d = [name |-> t.name, success |-> t.success, result |-> t.result, group |-> d.group]
      BY <2>1
    <3> QED
      BY <2>3, <3>1, <3>2 DEF Row
  <2>7. RowOK(e, d)
    <3>1. e >= 0 => /\ e \in DOMAIN pkgs /\ delivered[e] >= 1 /\ ~pkgs[e].cached
                    /\ d.result = <<e>> /\ d.group \in {0, pkgs[e].group}
      BY <1>1, <2>1, <2>5, <2>6 DEF TaskOK
    <3>2. e >= 0 => (~d.success => e \in failed)
      BY <1>1, <2>1, <2>6, Zenon DEF TaskOK
    <3>3. e < 0 => d.group = 0 /\ Made(-e, d.result)
      <4>1. e < 0 => p.group = -e
        BY <1>1, <2>1, <2>3 DEF TaskOK
      <4> QED
        BY <4>1, <1>1, <2>1, <2>5, <2>6 DEF TaskOK
    <3> QED
      BY <2>3, <2>6, <3>1, <3>2, <3>3 DEF RowOK
  <2>8. RowOK(e, d)'
    BY <2>7, <1>2, RowKept
  <2>9. \A x \in DOMAIN rows : RowOK(x, rows[x])
    BY DEF AInv, RowsOK
  <2>10. ASSUME NEW x \in DOMAIN rows' PROVE RowOK(x, rows[x])'
    <3>1. PICK y : y = rows[x]
      OBVIOUS
    <3>2. x \in DOMAIN rows => RowOK(x, y)'
      BY <2>9, <3>1, <1>2, RowKept
    <3>3. (x \in DOMAIN rows /\ rows'[x] = y) \/ (x = e /\ rows'[x] = d)
      BY <2>2, <2>10, <3>1
    <3> QED
      BY <2>8, <3>2, <3>3
  <2> QED
    BY <2>10 DEF RowsOK
<1>5. Turns(m) /\ \A n \in Monitors : Later(n)
  <2>1. PICK pc : pc = After(t) /\ Move(m, pc)
    BY DEF Write
  <2>2. Allowed(t, pc)
    BY <2>1, <1>1, Constants DEF Allowed, After, Collated, TaskOK, Task
  <2> QED
    BY <2>1, <2>2, <1>1, MoveTurns
<1>6. /\ acked' = acked /\ keys' = keys /\ args' = args /\ conf' = conf
      /\ delivered' = delivered /\ failed' = failed /\ faults' \in faults..MaxFaults /\ faults \in Nat /\ faults' \in 0..MaxFaults
  BY Constants DEF Write, AInv, ObjOK
<1> QED
  BY <1>1, <1>2, <1>3, <1>4, <1>5, <1>6, MonitorStep

LEMMA AcknowledgeAInv ==
  ASSUME AInv, NEW m \in Monitors, Acknowledge(m), UNCHANGED api PROVE AInv'
<1>1. Busy(m) /\ MonitorsOK
  BY DEF Acknowledge, AInv, Busy, At
<1>2. Grows /\ PkgsOK'
  BY SameGrows DEF Acknowledge
<1>3. CacheOK' /\ RowsOK' /\ KeysOK'
  BY <1>2, CacheKept, RowsKept, KeysKept DEF Acknowledge, AInv
<1>4. Turns(m) /\ \A n \in Monitors : Later(n)
  BY <1>1, WaitTurns DEF Acknowledge
<1>5. acked' = acked \/ acked' = acked \cup {monitor[m].name}
  BY DEF Acknowledge
<1>6. /\ keys' = keys /\ args' = args /\ conf' = conf
      /\ delivered' = delivered /\ failed' = failed /\ faults' \in faults..MaxFaults /\ faults \in Nat /\ faults' \in 0..MaxFaults
  BY Constants DEF Acknowledge, AInv, ObjOK
<1> QED
  BY <1>1, <1>2, <1>3, <1>4, <1>5, <1>6, MonitorStep

LEMMA AddPkg ==
  ASSUME AInv, NEW p \in Package, Len(pkgs) < MaxPackages, pkgs' = Append(pkgs, p),
         delivered' = delivered, failed' = failed, obj'.kind = obj.kind
  PROVE /\ Grows
        /\ pkgs' \in Seq(Package) /\ Len(pkgs') <= MaxPackages
        /\ DOMAIN pkgs' = DOMAIN pkgs \cup {Len(pkgs) + 1}
        /\ pkgs'[Len(pkgs) + 1] = p /\ Len(pkgs) + 1 \notin DOMAIN pkgs
        /\ \A i \in DOMAIN pkgs : pkgs'[i] = pkgs[i]
        /\ Len(pkgs) + 1 \in 1..MaxPackages /\ delivered[Len(pkgs) + 1] = 0
<1>1. pkgs \in Seq(Package) /\ Len(pkgs) \in Nat
  BY DEF AInv, PkgsOK
<1>2. /\ pkgs' \in Seq(Package) /\ Len(pkgs') <= MaxPackages
      /\ DOMAIN pkgs' = DOMAIN pkgs \cup {Len(pkgs) + 1}
      /\ pkgs'[Len(pkgs) + 1] = p /\ Len(pkgs) + 1 \notin DOMAIN pkgs
      /\ \A i \in DOMAIN pkgs : pkgs'[i] = pkgs[i]
  BY <1>1, Constants
<1>3. DOMAIN pkgs \subseteq 1..MaxPackages /\ Len(pkgs) + 1 \in 1..MaxPackages
  BY <1>1, Constants DEF AInv, PkgsOK
<1>4. delivered[Len(pkgs) + 1] = 0
  BY <1>2, <1>3, Constants DEF AInv, DeliveredOK
<1>5. Grows
  BY <1>2, <1>3, Constants DEF Grows, AInv, DeliveredOK
<1> QED
  BY <1>2, <1>3, <1>4, <1>5

LEMMA RestOK ==
  ASSUME NEW p \in Package, p.chain > 0
  PROVE /\ Rest(p) \in Package /\ Rest(p).run = p.run /\ Rest(p).group = p.group
        /\ Rest(p).iter_count = p.iter_count /\ Rest(p).cached = p.cached
        /\ Rest(p).item = p.item + 1 /\ Rest(p).chain = p.chain - 1
<1>1. p.item \in Nat /\ p.chain \in Nat
  BY DEF Package
<1>2. p.item + 1 \in Nat /\ p.chain - 1 \in Nat
  BY <1>1
<1>3. PICK a, b : a = p.item + 1 /\ b = p.chain - 1
  OBVIOUS
<1>4. Rest(p) = [p EXCEPT !.item = a, !.chain = b]
  BY <1>3 DEF Rest
<1>5. Rest(p) \in Package
  BY <1>2, <1>3, <1>4 DEF Package
<1>6. /\ Rest(p).run = p.run /\ Rest(p).group = p.group
      /\ Rest(p).iter_count = p.iter_count /\ Rest(p).cached = p.cached
      /\ Rest(p).item = a /\ Rest(p).chain = b
  BY <1>4 DEF Package
<1> QED
  BY <1>3, <1>5, <1>6

LEMMA ProgressIs ==
  ASSUME AInv, NEW m \in Monitors, Progress(m), UNCHANGED api
  PROVE \E p, q \in Package :
    /\ p = pkgs[monitor[m].name] /\ monitor[m].name \in DOMAIN pkgs /\ monitor[m].pc = "chain"
    /\ PkgOK(p) /\ p.chain > 0 /\ monitor[m].id >= 0 /\ obj.kind = "Chain"
    /\ q.run = p.run /\ q.group = p.group /\ q.iter_count = p.iter_count
    /\ q.cached = p.cached /\ q.item = p.item + 1 /\ q.chain = p.chain - 1
    /\ pkgs' = Append(pkgs, q) /\ Len(pkgs) < MaxPackages
    /\ Grows /\ pkgs' \in Seq(Package) /\ Len(pkgs') <= MaxPackages
    /\ DOMAIN pkgs' = DOMAIN pkgs \cup {Len(pkgs) + 1} /\ pkgs'[Len(pkgs) + 1] = q
    /\ \A i \in DOMAIN pkgs : pkgs'[i] = pkgs[i]
    /\ Len(pkgs) + 1 \notin DOMAIN pkgs
    /\ Len(pkgs) + 1 \in 1..MaxPackages /\ delivered[Len(pkgs) + 1] = 0
    /\ acked' = acked /\ keys' = keys /\ args' = args /\ conf' = conf /\ cache' = cache
    /\ rows' = rows /\ delivered' = delivered /\ failed' = failed /\ faults' = faults
<1> DEFINE t == monitor[m]
           p == pkgs[t.name]
<1>1. TaskOK(t) /\ t.pc = "chain"
  BY DEF Progress, AInv, MonitorsOK, Busy, At
<1>2. t.name \in DOMAIN pkgs /\ PkgOK(p) /\ p \in Package /\ p.chain > 0 /\ t.id >= 0
  <2>1. t.id >= 0
    BY <1>1, TaskPkg DEF TaskOK
  <2> QED
    BY <1>1, <2>1, TaskPkg DEF TaskOK
<1>3. PICK q : q = Rest(p)
  OBVIOUS
<1>4. /\ q \in Package /\ q.run = p.run /\ q.group = p.group /\ q.iter_count = p.iter_count
      /\ q.cached = p.cached /\ q.item = p.item + 1 /\ q.chain = p.chain - 1
  BY <1>2, <1>3, RestOK
<1>5. obj.kind = "Chain"
  BY <1>2 DEF PkgOK, AInv, ObjOK, Objects
<1>6. pkgs' = Append(pkgs, q) /\ Len(pkgs) < MaxPackages
  BY <1>3 DEF Progress, Of
<1>7. /\ acked' = acked /\ keys' = keys /\ args' = args /\ conf' = conf /\ cache' = cache
      /\ rows' = rows /\ delivered' = delivered /\ failed' = failed /\ faults' = faults
  BY DEF Progress
<1>8. obj'.kind = obj.kind
  BY DEF api
<1>9. /\ Grows /\ pkgs' \in Seq(Package) /\ Len(pkgs') <= MaxPackages
      /\ DOMAIN pkgs' = DOMAIN pkgs \cup {Len(pkgs) + 1} /\ pkgs'[Len(pkgs) + 1] = q
      /\ \A i \in DOMAIN pkgs : pkgs'[i] = pkgs[i]
      /\ Len(pkgs) + 1 \notin DOMAIN pkgs
      /\ Len(pkgs) + 1 \in 1..MaxPackages /\ delivered[Len(pkgs) + 1] = 0
  BY <1>4, <1>6, <1>7, <1>8, AddPkg
<1> QED
  BY <1>1, <1>2, <1>4, <1>5, <1>6, <1>7, <1>9

LEMMA ProgressAInv == ASSUME AInv, NEW m \in Monitors, Progress(m), UNCHANGED api PROVE AInv'
<1> DEFINE t == monitor[m]
<1>1. Busy(m) /\ TaskOK(t) /\ MonitorsOK /\ t.pc = "chain"
  BY DEF Progress, AInv, MonitorsOK, Busy, At
<1>2. PICK p, q \in Package :
        /\ p = pkgs[t.name] /\ PkgOK(p) /\ p.chain > 0 /\ t.id >= 0 /\ obj.kind = "Chain"
        /\ q.run = p.run /\ q.group = p.group /\ q.iter_count = p.iter_count
        /\ q.cached = p.cached /\ q.item = p.item + 1 /\ q.chain = p.chain - 1
        /\ Grows /\ pkgs' \in Seq(Package) /\ Len(pkgs') <= MaxPackages
        /\ DOMAIN pkgs' = DOMAIN pkgs \cup {Len(pkgs) + 1} /\ pkgs'[Len(pkgs) + 1] = q
        /\ \A i \in DOMAIN pkgs : pkgs'[i] = pkgs[i]
        /\ acked' = acked /\ keys' = keys /\ args' = args /\ conf' = conf /\ cache' = cache
        /\ rows' = rows /\ delivered' = delivered /\ failed' = failed /\ faults' = faults
  BY ProgressIs
<1>3. PkgOK(q)
  <2>1. p.item \in Nat
    BY <1>2 DEF Package
  <2> QED
    BY <1>2, <2>1 DEF PkgOK
<1>4. faults' \in faults..MaxFaults
  BY <1>2, Constants DEF AInv, ObjOK
<1>5. obj' = obj /\ call' = call /\ runs' = runs
  BY DEF api
<1>6. PkgsOK'
  <2>1. \A i \in DOMAIN pkgs' : PkgOK(pkgs'[i])
    BY <1>2, <1>3 DEF AInv, PkgsOK
  <2>2. \A i \in DOMAIN pkgs' : PkgOK(pkgs[i])'
    BY <2>1, <1>5 DEF PkgOK
  <2>3. call.pc # "push"
    BY <1>2 DEF AInv, CallOK
  <2> QED
    BY <2>2, <2>3, <1>2, <1>5 DEF PkgsOK
<1>7. CacheOK' /\ RowsOK' /\ KeysOK'
  BY <1>2, CacheKept, RowsKept, KeysKept DEF AInv
<1>8. Turns(m) /\ \A n \in Monitors : Later(n)
  <2>1. PICK pc : pc = (IF Of(m).cached THEN "set" ELSE "prune") /\ Move(m, pc)
    BY DEF Progress
  <2>2. Allowed(t, pc)
    BY <2>1, <1>1, <1>2, Constants DEF Allowed, Of
  <2> QED
    BY <2>1, <2>2, <1>1, MoveTurns
<1> QED
  BY <1>1, <1>2, <1>4, <1>6, <1>7, <1>8, MonitorStep

\* Reading the list, and appending to it.
LEMMA ReadListAInv == ASSUME AInv, NEW m \in Monitors, ReadList(m), UNCHANGED api PROVE AInv'
<1> DEFINE t == monitor[m]
           p == pkgs[t.name]
           pc == IF Ready(p, keys[p.group]) THEN "collate" ELSE "extend"
           u == [t EXCEPT !.group_list = keys[p.group], !.pc = pc]
<1>1. Busy(m) /\ TaskOK(t) /\ MonitorsOK /\ t.pc = "list" /\ t \in Task
  BY DEF ReadList, AInv, MonitorsOK, Busy, At, TaskOK
<1>2. Grows /\ PkgsOK'
  BY SameGrows DEF ReadList
<1>3. CacheOK' /\ RowsOK' /\ KeysOK'
  BY <1>2, CacheKept, RowsKept, KeysKept DEF ReadList, AInv
<1>4. p.group \in Groups /\ t.id \in Int
  BY <1>1, TaskPkg
<1>5. t.id >= 0
  BY <1>1, <1>4 DEF TaskOK
<1>6. keys[p.group] \in Result /\ Listed(p.group, keys[p.group])
  BY <1>4 DEF AInv, KeysOK
<1>7. /\ u \in Task /\ u.pc = pc /\ u.name = t.name /\ u.id = t.id /\ u.success = t.success
      /\ u.result = t.result /\ u.group_list = keys[p.group] /\ u.task_obj = t.task_obj
  BY <1>1, <1>6 DEF Task, Result
<1>8. monitor' = [monitor EXCEPT ![m] = u]
  BY DEF ReadList, Of
<1> HIDE DEF u
<1>9. TaskOK(u)
  BY <1>1, <1>5, <1>6, <1>7 DEF TaskOK
<1>10. /\ monitor'[m] = u /\ \A n \in Monitors : n # m => monitor'[n] = monitor[n]
       /\ monitor' \in [Monitors -> Task \cup {Waiting}]
  BY <1>8, <1>7, <1>1 DEF MonitorsOK
<1>11. MonitorsOK'
  BY <1>1, <1>2, <1>9, <1>10, TurnsOK DEF Turns
<1>12. /\ acked' = acked /\ keys' = keys /\ args' = args /\ conf' = conf /\ pkgs' = pkgs
       /\ delivered' = delivered /\ failed' = failed /\ faults' \in faults..MaxFaults /\ faults \in Nat /\ faults' \in 0..MaxFaults
  BY Constants DEF ReadList, AInv, ObjOK
<1>13. ObjOK' /\ CallOK' /\ AnswerOK'
  BY <1>2, <1>12, ApiKept DEF AInv
<1>14. DeliveredOK'
  <2>1. \A n \in Monitors : SameMember(n)
    BY <1>1, <1>7, <1>10 DEF SameMember, Busy, At
  <2> QED
    BY <2>1, <1>1, <1>2, <1>12, DeliveredKept DEF AInv
<1>15. ASSUME NEW g \in Groups PROVE DistinctOK(g)'
  <2> SUFFICES ASSUME Single(g)' PROVE /\ Distinct(keys[g])'
               /\ \A k \in Monitors : (Busy(k)' /\ Of(k)'.group = g) =>
                    /\ Distinct(monitor[k].group_list)'
                    /\ Unlisted(k, keys[g])'
                    /\ \A n \in Monitors : (Busy(n)' /\ Of(n)'.group = g) =>
                         Unlisted(k, monitor[n].group_list)'
    BY DEF DistinctOK
  <2>1. Single(g) /\ DistinctOK(g)
    BY <1>2, SingleKept DEF AInv
  <2>2. \A n \in Monitors : /\ Busy(n)' = Busy(n) /\ Of(n)' = Of(n)
                            /\ monitor'[n].name = monitor[n].name /\ (Reading(n)' => Reading(n))
                            /\ monitor'[n].group_list = IF n = m THEN keys[p.group]
                                                        ELSE monitor[n].group_list
    <3>1. /\ Busy(m)' = Busy(m) /\ Of(m)' = Of(m) /\ Reading(m)
          /\ monitor'[m].name = monitor[m].name /\ monitor'[m].group_list = keys[p.group]
      BY <1>1, <1>7, <1>10, <1>12 DEF Busy, At, Of, Reading
    <3>2. ASSUME NEW n \in Monitors, n # m PROVE monitor'[n] = monitor[n]
      BY <1>10, <3>2
    <3> QED
      BY <3>1, <3>2, <1>12 DEF Busy, At, Of, Reading
  <2>3. Distinct(keys[g])'
    BY <2>1, <1>12 DEF DistinctOK
  <2>4. ASSUME NEW k \in Monitors, Busy(k)', Of(k)'.group = g
        PROVE /\ Distinct(monitor[k].group_list)' /\ Unlisted(k, keys[g])'
    <3>1. Busy(k) /\ Of(k).group = g
      BY <2>2, <2>4
    <3>2. Unlisted(k, keys[g])'
      BY <3>1, <2>1, <2>2, <1>12 DEF DistinctOK, Unlisted
    <3>3. Distinct(monitor[k].group_list)'
      <4>1. CASE k = m
        <5>1. monitor'[k].group_list = keys[g]
          BY <3>1, <2>2, <4>1 DEF Of
        <5> QED
          BY <5>1, <2>1 DEF DistinctOK, Distinct
      <4>2. CASE k # m
        BY <3>1, <2>1, <2>2, <4>2 DEF DistinctOK, Distinct
      <4> QED
        BY <4>1, <4>2
    <3> QED
      BY <3>2, <3>3
  <2>5. ASSUME NEW k \in Monitors, Busy(k)', Of(k)'.group = g,
               NEW n \in Monitors, Busy(n)', Of(n)'.group = g
        PROVE Unlisted(k, monitor[n].group_list)'
    <3>1. Busy(k) /\ Of(k).group = g /\ Busy(n) /\ Of(n).group = g
      BY <2>2, <2>5
    <3>2. Unlisted(k, keys[g]) /\ Unlisted(k, monitor[n].group_list)
      BY <3>1, <2>1 DEF DistinctOK
    <3>3. monitor'[n].group_list = keys[g] \/ monitor'[n].group_list = monitor[n].group_list
      BY <3>1, <2>2 DEF Of
    <3> QED
      BY <3>2, <3>3, <2>2 DEF Unlisted
  <2> QED
    BY <2>3, <2>4, <2>5
<1> QED
  BY <1>2, <1>3, <1>11, <1>13, <1>14, <1>15 DEF AInv

LEMMA AppendResult ==
  ASSUME NEW s \in Result, NEW i \in 1..MaxPackages
  PROVE /\ Append(s, i) \in Result /\ Len(Append(s, i)) = Len(s) + 1 /\ Len(s) \in Nat
        /\ DOMAIN s = 1..Len(s) /\ DOMAIN Append(s, i) = DOMAIN s \cup {Len(s) + 1}
        /\ Append(s, i)[Len(s) + 1] = i /\ \A a \in DOMAIN s : Append(s, i)[a] = s[a]
  BY DEF Result

LEMMA ExtendAInv == ASSUME AInv, NEW m \in Monitors, Extend(m), UNCHANGED api PROVE AInv'
<1> DEFINE t == monitor[m]
           p == pkgs[t.name]
<1>1. Busy(m) /\ TaskOK(t) /\ MonitorsOK /\ t.pc = "extend" /\ t \in Task
  BY DEF Extend, AInv, MonitorsOK, Busy, At, TaskOK
<1> PICK h : h = p.group
  OBVIOUS
<1>2. Grows /\ PkgsOK'
  BY SameGrows DEF Extend
<1>3. CacheOK' /\ RowsOK'
  BY <1>2, CacheKept, RowsKept DEF Extend, AInv
<1>4. /\ h \in Groups /\ t.id = t.name /\ t.name \in 1..MaxPackages /\ t.name \in DOMAIN pkgs
      /\ p.cached /\ delivered[t.name] >= 1
  BY <1>1, TaskPkg DEF TaskOK
<1>5. Listed(h, t.group_list) /\ t.group_list \in Result
  BY <1>1 DEF TaskOK, Listed
<1>6. PICK list : list = Append(t.group_list, t.name)
  OBVIOUS
<1>7. /\ list \in Result /\ Len(t.group_list) \in Nat
      /\ DOMAIN list = DOMAIN t.group_list \cup {Len(t.group_list) + 1}
      /\ DOMAIN t.group_list = 1..Len(t.group_list)
      /\ list[Len(t.group_list) + 1] = t.name /\ \A a \in DOMAIN t.group_list : list[a] = t.group_list[a]
  BY <1>4, <1>5, <1>6, AppendResult
<1>8. keys' = [keys EXCEPT ![h] = list] /\ keys'[h] = list /\ \A g \in Groups : g # h => keys'[g] = keys[g]
  BY <1>4, <1>6 DEF Extend, Of, AInv, KeysOK
<1>9. Listed(h, list)
  BY <1>4, <1>5, <1>7 DEF Listed, Members
<1>10. KeysOK'
  <2>1. keys' \in [Groups -> Result]
    BY <1>7, <1>8 DEF AInv, KeysOK
  <2>2. ASSUME NEW g \in Groups PROVE Listed(g, keys[g])'
    <3>1. PICK k : k = keys'[g]
      OBVIOUS
    <3>2. Listed(g, k)
      BY <3>1, <1>8, <1>9 DEF AInv, KeysOK
    <3>3. Listed(g, k)'
      BY <1>2, <3>2, ListedKept
    <3> QED
      BY <3>1, <3>3
  <2> QED
    BY <2>1, <2>2 DEF KeysOK
<1>11. Turns(m) /\ (\A n \in Monitors : Later(n)) /\ monitor'[m].pc \in {"chain", "set"}
  <2>1. PICK pc : pc = (IF Of(m).chain > 0 THEN "chain" ELSE "set") /\ Move(m, pc)
    BY DEF Extend
  <2>2. Allowed(t, pc)
    BY <2>1, <1>1, <1>4, Constants DEF Allowed, Of
  <2> QED
    BY <2>1, <2>2, <1>1, MoveTurns
<1>12. MonitorsOK'
  BY <1>1, <1>2, <1>11, TurnsOK
<1>13. /\ acked' = acked /\ args' = args /\ conf' = conf /\ pkgs' = pkgs
       /\ delivered' = delivered /\ failed' = failed /\ faults' \in faults..MaxFaults /\ faults \in Nat /\ faults' \in 0..MaxFaults
  BY Constants DEF Extend, AInv, ObjOK
<1>14. ObjOK' /\ CallOK' /\ AnswerOK'
  BY <1>2, <1>13, ApiKept DEF AInv
<1>15. DeliveredOK'
  BY <1>1, <1>2, <1>11, <1>13, LaterSame, DeliveredKept DEF AInv
<1>16. ASSUME NEW g \in Groups, g # h PROVE DistinctOK(g)'
  BY <1>1, <1>2, <1>8, <1>11, <1>16, DistinctKept DEF AInv
<1>17. DistinctOK(h)'
  <2> SUFFICES ASSUME Single(h)' PROVE /\ Distinct(keys[h])'
               /\ \A k \in Monitors : (Busy(k)' /\ Of(k)'.group = h) =>
                    /\ Distinct(monitor[k].group_list)'
                    /\ Unlisted(k, keys[h])'
                    /\ \A n \in Monitors : (Busy(n)' /\ Of(n)'.group = h) =>
                         Unlisted(k, monitor[n].group_list)'
    BY DEF DistinctOK
  <2>1. Single(h) /\ DistinctOK(h)
    BY <1>2, <1>4, SingleKept DEF AInv
  <2>2. /\ Distinct(t.group_list) /\ Unlisted(m, t.group_list)
        /\ \A a \in DOMAIN t.group_list : t.group_list[a] # t.name
    BY <1>1, <2>1 DEF DistinctOK, Of, Unlisted, Reading, At
  <2>3. Distinct(keys[h])'
    <3>1. Distinct(list)
      BY <2>2, <1>7 DEF Distinct
    <3> QED
      BY <3>1, <1>8 DEF Distinct
  <2>4. ASSUME NEW n \in Monitors, Busy(n)', Of(n)'.group = h
        PROVE /\ Busy(n) /\ Of(n).group = h /\ (Reading(n)' => (Reading(n) /\ n # m))
              /\ monitor'[n].name = monitor[n].name
              /\ monitor'[n].group_list = monitor[n].group_list
    <3>1. /\ monitor'[n] # Waiting
      BY <2>4 DEF Busy, At, Waiting
    <3>2. /\ Busy(n) /\ monitor'[n].name = monitor[n].name
          /\ monitor'[n].group_list = monitor[n].group_list /\ (Reading(n)' => Reading(n))
      BY <3>1, <2>4, <1>11 DEF Later, Busy, At, Reading
    <3>3. Reading(n)' => n # m
      BY <1>11 DEF Reading, At
    <3> QED
      BY <3>2, <3>3, <2>4, <1>13 DEF Of
  <2>5. ASSUME NEW k \in Monitors, Busy(k)', Of(k)'.group = h
        PROVE Distinct(monitor[k].group_list)' /\ Unlisted(k, keys[h])'
    <3>1. Distinct(monitor[k].group_list)'
      BY <2>1, <2>4, <2>5 DEF DistinctOK, Distinct
    <3>2. ASSUME Reading(k)' PROVE \A a \in DOMAIN list : list[a] # monitor'[k].name
      <4>1. Unlisted(k, t.group_list)
        BY <1>1, <2>1, <2>4, <2>5 DEF DistinctOK, Of
      <4>2. monitor[k].name # t.name
        <5>1. delivered[t.name] <= 1
          BY <2>1, <1>4 DEF Single, Members
        <5>2. delivered[t.name] \in Nat
          BY <1>4, Constants DEF AInv, DeliveredOK
        <5> QED
          BY <5>1, <5>2, <1>1, <2>4, <2>5, <3>2 DEF AInv, DeliveredOK
      <4> QED
        BY <4>1, <4>2, <1>7, <2>4, <2>5, <3>2 DEF Unlisted
    <3> QED
      BY <3>1, <3>2, <1>8 DEF Unlisted
  <2>6. ASSUME NEW k \in Monitors, Busy(k)', Of(k)'.group = h,
               NEW n \in Monitors, Busy(n)', Of(n)'.group = h
        PROVE Unlisted(k, monitor[n].group_list)'
    <3>1. Unlisted(k, monitor[n].group_list)
      BY <2>1, <2>4, <2>6 DEF DistinctOK
    <3> QED
      BY <3>1, <2>4, <2>6 DEF Unlisted
  <2> QED
    BY <2>3, <2>5, <2>6
<1> QED
  BY <1>2, <1>3, <1>10, <1>12, <1>14, <1>15, <1>16, <1>17 DEF AInv

\* The task becomes the iterable's.
LEMMA CollateAInv == ASSUME AInv, NEW m \in Monitors, Collate(m), UNCHANGED api PROVE AInv'
<1> DEFINE t == monitor[m]
           p == pkgs[t.name]
           h == p.group
           r == [n \in DOMAIN t.group_list |-> Head(cache[t.group_list[n]].result)] \o t.result
           whole == [t EXCEPT !.id = -h, !.result = r]
<1>1. Busy(m) /\ TaskOK(t) /\ MonitorsOK /\ t.pc = "collate" /\ t \in Task
  BY DEF Collate, AInv, MonitorsOK, Busy, At, TaskOK
<1>2. Grows /\ PkgsOK'
  BY SameGrows DEF Collate
<1>3. CacheOK' /\ RowsOK' /\ KeysOK'
  BY <1>2, CacheKept, RowsKept, KeysKept DEF Collate, AInv
<1>4. /\ h \in Groups /\ t.id = t.name /\ t.name \in 1..MaxPackages /\ t.name \in DOMAIN pkgs
      /\ p.cached /\ Ready(p, t.group_list) /\ t.result = <<t.name>> /\ PkgOK(p) /\ p \in Package
  BY <1>1, TaskPkg DEF TaskOK
<1>5. Listed(h, t.group_list) /\ t.group_list \in Result
  BY <1>1 DEF TaskOK, Listed
<1>6. /\ acked' = acked /\ keys' = keys /\ args' = args /\ conf' = conf
      /\ delivered' = delivered /\ failed' = failed /\ faults' \in faults..MaxFaults /\ faults \in Nat /\ faults' \in 0..MaxFaults
  BY Constants DEF Collate, AInv, ObjOK
<1>7. CASE ~(ToSet(t.group_list) \subseteq DOMAIN cache /\ Of(m).group \in args)
  <2>1. Move(m, "acknowledge") /\ Allowed(t, "acknowledge")
    BY <1>7, <1>4, Constants DEF Collate, Allowed
  <2>2. Turns(m) /\ (\A n \in Monitors : Later(n))
    BY <2>1, <1>1, MoveTurns
  <2> QED
    BY <1>1, <1>2, <1>3, <1>6, <2>2, MonitorStep
<1>8. CASE ToSet(t.group_list) \subseteq DOMAIN cache /\ Of(m).group \in args
  <2>1. r = Append(t.group_list, t.name)
    <3>1. ASSUME NEW n \in DOMAIN t.group_list
          PROVE Head(cache[t.group_list[n]].result) = t.group_list[n]
      <4>1. t.group_list[n] \in DOMAIN cache
        BY <1>8 DEF ToSet
      <4>2. t.group_list[n] >= 0
        BY <1>5, Constants DEF Result
      <4>3. cache[t.group_list[n]].result = <<t.group_list[n]>>
        BY <4>1, <4>2 DEF AInv, CacheOK, CachedOK
      <4> QED
        BY <4>3
    <3>2. PICK s : s = [n \in DOMAIN t.group_list |-> Head(cache[t.group_list[n]].result)]
      OBVIOUS
    <3>3. s = [n \in DOMAIN t.group_list |-> t.group_list[n]]
      BY <3>1, <3>2
    <3>4. t.group_list = [n \in DOMAIN t.group_list |-> t.group_list[n]]
      BY <1>5 DEF Result
    <3>5. s = t.group_list
      BY <3>3, <3>4
    <3>6. t.group_list \o <<t.name>> = Append(t.group_list, t.name)
      BY <1>4, <1>5 DEF Result
    <3> QED
      BY <3>2, <3>5, <3>6, <1>4
  <2>2. PICK res : res = Append(t.group_list, t.name)
    OBVIOUS
  <2>3. /\ res \in Result /\ Len(t.group_list) \in Nat /\ Len(res) = Len(t.group_list) + 1
        /\ DOMAIN res = DOMAIN t.group_list \cup {Len(t.group_list) + 1}
        /\ DOMAIN t.group_list = 1..Len(t.group_list)
        /\ res[Len(t.group_list) + 1] = t.name /\ \A a \in DOMAIN t.group_list : res[a] = t.group_list[a]
    BY <1>4, <1>5, <2>2, AppendResult
  <2>4. p.iter_count \in Nat /\ p.iter_count > 0 /\ Len(res) = p.iter_count /\ obj.kind = "Iter"
    <3>1. p.iter_count \in Nat
      BY <1>4 DEF Package
    <3>2. p.iter_count > 0 /\ Len(t.group_list) = p.iter_count - 1
      BY <1>4 DEF Ready
    <3> QED
      BY <3>1, <3>2, <2>3, <1>4 DEF PkgOK
  <2>5. Made(h, res)
    <3>1. \A n \in DOMAIN res : res[n] \in Members(h)
      BY <1>4, <1>5, <2>3 DEF Listed, Members
    <3>2. \A i \in Members(h) : pkgs[i].iter_count = p.iter_count
      <4>1. ASSUME NEW i \in Members(h) PROVE pkgs[i].iter_count = p.iter_count
        <5>1. pkgs[i].run = pkgs[i].group /\ p.run = p.group /\ i \in DOMAIN pkgs
          BY <2>4, <1>4 DEF Members, AInv, PkgsOK, PkgOK
        <5> QED
          BY <5>1, <1>4, <2>4 DEF Members, AInv, PkgsOK
      <4> QED
        BY <4>1
    <3>3. Single(h) => Distinct(res)
      <4>1. ASSUME Single(h) PROVE Distinct(t.group_list) /\ Unlisted(m, t.group_list)
        BY <4>1, <1>1, <1>4 DEF AInv, DistinctOK, Of
      <4>2. ASSUME Single(h) PROVE \A a \in DOMAIN t.group_list : t.group_list[a] # t.name
        BY <4>1, <4>2, <1>1 DEF Unlisted, Reading, At
      <4> QED
        BY <4>1, <4>2, <2>3 DEF Distinct
    <3>4. Len(res) > 0
      BY <2>3
    <3> QED
      BY <3>1, <3>2, <3>3, <3>4, <2>3, <2>4 DEF Made
  <2>6. PICK w : w = whole
    OBVIOUS
  <2>7. /\ w \in Task /\ w.id = -h /\ w.result = res /\ w.name = t.name /\ w.success = t.success
        /\ w.group_list = t.group_list /\ w.task_obj = t.task_obj /\ w.pc = t.pc
    <3>1. w = [t EXCEPT !.id = -h, !.result = res]
      BY <2>1, <2>2, <2>6
    <3>2. -h \in Ids
      BY <1>4, Constants
    <3> QED
      BY <3>1, <3>2, <1>1, <2>3 DEF Task
  <2>8. PICK pc : /\ pc = IF Of(m).iter_cached THEN "set" ELSE save_task(w, Of(m))
                  /\ monitor' = [monitor EXCEPT ![m] = [w EXCEPT !.pc = pc]]
    BY <1>8, <2>6 DEF Collate, Of
  <2>9. pc \in {"set", "delete", "prune"}
    <3>1. Collated(w) /\ Of(m).chain = 0
      <4>1. -h < 0
        BY <1>4, Constants
      <4> QED
        BY <4>1, <2>7, <2>4, <1>4 DEF Collated, Of, PkgOK
    <3> QED
      BY <3>1, <2>8 DEF save_task, After
  <2>10. PICK u : u = [w EXCEPT !.pc = pc]
    OBVIOUS
  <2>11. /\ u \in Task /\ u.pc = pc /\ u.id = -h /\ u.result = res /\ u.name = t.name
         /\ u.success = t.success /\ u.group_list = t.group_list /\ u.task_obj = t.task_obj
    BY <2>7, <2>9, <2>10 DEF Task
  <2>12. TaskOK(u)
    <3>1. h \in Nat /\ h > 0
      BY <1>4, Constants
    <3>2. u.task_obj = NoRow
      BY <1>1, <2>11 DEF TaskOK
    <3>3. u.task_obj.group = 0
      BY <3>2 DEF NoRow
    <3> QED
      BY <1>1, <2>5, <2>9, <2>11, <3>1, <3>3 DEF TaskOK
  <2>13. /\ monitor'[m] = u /\ \A n \in Monitors : n # m => monitor'[n] = monitor[n]
         /\ monitor' \in [Monitors -> Task \cup {Waiting}]
    BY <2>8, <2>10, <2>11, <1>1 DEF MonitorsOK
  <2>14. Turns(m) /\ \A n \in Monitors : Later(n)
    BY <1>1, <2>9, <2>11, <2>12, <2>13 DEF Turns, Later
  <2> QED
    BY <1>1, <1>2, <1>3, <1>6, <2>14, MonitorStep
<1> QED
  BY <1>7, <1>8

LEMMA DeliverAInv ==
  ASSUME AInv, NEW m \in Monitors, NEW i \in DOMAIN pkgs, NEW success \in BOOLEAN,
         Deliver(m, i, success), UNCHANGED api
  PROVE AInv'
<1> DEFINE p == pkgs[i]
           t == [pc |-> "list", name |-> i, id |-> i, success |-> success, result |-> <<i>>,
                 group_list |-> <<>>, task_obj |-> NoRow]
<1>1. ~Busy(m) /\ monitor[m] = Waiting /\ MonitorsOK
  BY DEF Deliver, AInv, MonitorsOK, Busy, At, Task
<1>2. /\ i \in 1..MaxPackages /\ i \in Nat /\ i > 0 /\ i \in Ids /\ PkgOK(p) /\ p \in Package
      /\ p.chain \in Nat
  <2>1. i \in 1..MaxPackages
    BY Constants DEF AInv, PkgsOK
  <2>2. PkgOK(p) /\ p \in Package
    BY DEF AInv, PkgsOK, PkgOK
  <2> QED
    BY <2>1, <2>2, Constants DEF Package
<1>3. /\ delivered' = [delivered EXCEPT ![i] = @ + 1]
      /\ acked' = acked /\ keys' = keys /\ args' = args /\ conf' = conf /\ pkgs' = pkgs
      /\ cache' = cache /\ rows' = rows
  BY DEF Deliver
<1>4. /\ faults \in Nat /\ faults' \in faults..MaxFaults /\ faults' \in 0..MaxFaults
      /\ delivered[i] # 0 => faults' = faults + 1
  BY Constants DEF Deliver, Fault, AInv, ObjOK
<1>5. /\ delivered' \in [1..MaxPackages -> 0..(MaxFaults + 1)]
      /\ delivered'[i] = delivered[i] + 1 /\ delivered[i] \in Nat
      /\ \A j \in 1..MaxPackages : j # i => delivered'[j] = delivered[j]
      /\ \A j \in 1..MaxPackages : delivered'[j] <= faults' + 1
  <2>1. /\ delivered \in [1..MaxPackages -> 0..(MaxFaults + 1)]
        /\ \A j \in 1..MaxPackages : delivered[j] \in Nat /\ delivered[j] <= faults + 1
    BY Constants DEF AInv, DeliveredOK
  <2>2. /\ delivered'[i] = delivered[i] + 1 /\ delivered[i] \in Nat
        /\ \A j \in 1..MaxPackages : j # i => delivered'[j] = delivered[j]
    BY <2>1, <1>2, <1>3
  <2>3. delivered[i] + 1 <= faults' + 1
    BY <2>1, <1>2, <1>4
  <2>4. \A j \in 1..MaxPackages : delivered'[j] <= faults' + 1
    BY <2>1, <2>2, <2>3, <1>4
  <2>5. delivered[i] + 1 \in 0..(MaxFaults + 1)
    BY <2>1, <2>3, <1>2, <1>4, Constants
  <2>6. delivered' \in [1..MaxPackages -> 0..(MaxFaults + 1)]
    BY <2>1, <2>5, <1>2, <1>3
  <2> QED
    BY <2>2, <2>4, <2>6
<1>6. failed \subseteq failed' /\ failed' \subseteq failed \cup {i} /\ (~success => i \in failed')
  BY DEF Deliver
<1>7. obj' = obj /\ call' = call /\ runs' = runs
  BY DEF api
<1>8. Grows
  <2>1. DOMAIN pkgs \subseteq 1..MaxPackages
    BY Constants DEF AInv, PkgsOK
  <2> QED
    BY <2>1, <1>3, <1>5, <1>6, <1>7, Constants DEF Grows, AInv, DeliveredOK
<1>9. CacheOK' /\ RowsOK' /\ KeysOK' /\ PkgsOK'
  BY <1>3, <1>8, CacheKept, RowsKept, KeysKept, PkgsKept DEF AInv
<1>10. ObjOK' /\ CallOK' /\ AnswerOK'
  BY <1>3, <1>4, <1>8, ApiKept DEF AInv
<1>11. PICK u : u = [t EXCEPT !.pc = Begin(t, p)]
  OBVIOUS
<1>12. /\ u.pc \in {"list", "acknowledge", "chain", "prune"}
       /\ u.pc = "list" <=> p.cached
       /\ u.pc = "chain" => p.chain > 0
       /\ u.pc = Begin(t, p)
  BY <1>2, <1>11 DEF Begin, save_task, After, Collated
<1>13. /\ u.name = i /\ u.id = i /\ u.success = success /\ u.result = <<i>>
       /\ u.group_list = <<>> /\ u.task_obj = NoRow
  BY <1>11
<1>14. u \in Task
  <2>1. PICK e, r : e = <<>> /\ r = <<i>>
    OBVIOUS
  <2>2. e \in Result /\ r \in Result
    BY <2>1, <1>2, EmptyResult DEF Result
  <2>3. u = [pc |-> u.pc, name |-> i, id |-> i, success |-> success, result |-> r,
             group_list |-> e, task_obj |-> NoRow]
    BY <2>1, <1>11, <1>12
  <2>4. Result = Seq(1..MaxPackages)
    BY DEF Result
  <2> QED
    BY <2>2, <2>3, <2>4, <1>2, <1>12 DEF Task
<1>15. /\ monitor'[m] = u /\ \A n \in Monitors : n # m => monitor'[n] = monitor[n]
       /\ monitor' \in [Monitors -> Task \cup {Waiting}]
  BY <1>11, <1>14, <1>1 DEF MonitorsOK, Deliver
<1>16. TaskOK(u)'
  <2>1. Listed(p.group, u.group_list)'
    BY <1>3, <1>13, NoListing DEF Listed
  <2>2. u.task_obj.group = 0
    BY <1>13 DEF NoRow
  <2>3. ~u.success => u.name \in failed'
    BY <1>6, <1>13, Zenon
  <2> QED
    BY <2>1, <2>2, <2>3, <1>2, <1>3, <1>5, <1>12, <1>13, <1>14 DEF TaskOK
<1>17. MonitorsOK'
  <2>1. ASSUME NEW n \in Monitors, Busy(n)' PROVE TaskOK(monitor[n])'
    <3>1. CASE n = m
      BY <3>1, <1>15, <1>16
    <3>2. CASE n # m
      <4>1. PICK x : x = monitor[n]
        OBVIOUS
      <4>2. TaskOK(x) /\ monitor'[n] = x
        BY <2>1, <3>2, <4>1, <1>15, <1>1 DEF MonitorsOK, Busy, At
      <4>3. TaskOK(x)'
        BY <4>2, <1>8, TaskKept
      <4> QED
        BY <4>2, <4>3
    <3> QED
      BY <3>1, <3>2
  <2> QED
    BY <2>1, <1>15 DEF MonitorsOK
<1>18. \A n \in Monitors : n # m =>
         Busy(n)' = Busy(n) /\ Of(n)' = Of(n) /\ monitor'[n] = monitor[n] /\ Reading(n)' = Reading(n)
  BY <1>3, <1>15 DEF Busy, At, Of, Reading
<1>19. \A n \in Monitors : Busy(n) => monitor[n].name \in 1..MaxPackages /\ delivered[monitor[n].name] >= 1
  BY <1>1 DEF MonitorsOK, TaskOK, Task
<1>20. DeliveredOK'
  <2>1. failed' \cup acked' \subseteq {j \in DOMAIN pkgs' : delivered'[j] > 0}
    BY <1>2, <1>3, <1>5, <1>6, Constants DEF AInv, DeliveredOK, PkgsOK
  <2>2. \A j \in 1..MaxPackages : delivered'[j] > 0 => j \in DOMAIN pkgs'
    BY <1>3, <1>5 DEF AInv, DeliveredOK
  <2>3. ASSUME NEW k \in Monitors, NEW n \in Monitors,
               k # n /\ Busy(k)' /\ Busy(n)' /\ monitor'[k].name = monitor'[n].name
        PROVE delivered'[monitor'[k].name] >= 2
    <3>1. CASE k # m /\ n # m
      <4>1. delivered[monitor[k].name] >= 2 /\ monitor[k].name \in 1..MaxPackages
        BY <2>3, <3>1, <1>18, <1>19 DEF AInv, DeliveredOK
      <4> QED
        BY <4>1, <3>1, <1>5, <1>18, Constants
    <3>2. CASE k = m
      <4>1. monitor[n].name = i /\ delivered[i] >= 1
        BY <2>3, <3>2, <1>13, <1>15, <1>18, <1>19
      <4> QED
        BY <4>1, <3>2, <1>5, <1>13, <1>15
    <3>3. CASE n = m
      <4>1. monitor[k].name = i /\ delivered[i] >= 1 /\ monitor'[k].name = i
        BY <2>3, <3>3, <1>13, <1>15, <1>18, <1>19
      <4> QED
        BY <4>1, <1>5
    <3> QED
      BY <3>1, <3>2, <3>3
  <2> QED
    BY <2>1, <2>2, <2>3, <1>5 DEF DeliveredOK
<1>21. ASSUME NEW g \in Groups PROVE DistinctOK(g)'
  <2> SUFFICES ASSUME Single(g)' PROVE /\ Distinct(keys[g])'
               /\ \A k \in Monitors : (Busy(k)' /\ Of(k)'.group = g) =>
                    /\ Distinct(monitor[k].group_list)'
                    /\ Unlisted(k, keys[g])'
                    /\ \A n \in Monitors : (Busy(n)' /\ Of(n)'.group = g) =>
                         Unlisted(k, monitor[n].group_list)'
    BY DEF DistinctOK
  <2>1. Single(g) /\ DistinctOK(g)
    BY <1>8, SingleKept DEF AInv
  <2>2. Distinct(keys[g])'
    BY <2>1, <1>3 DEF DistinctOK
  <2>3. i \in Members(g) => delivered[i] = 0
    BY <1>3, <1>5 DEF Single, Members
  <2>4. \A a \in DOMAIN keys[g] : keys[g][a] # i
    BY <2>3 DEF AInv, KeysOK, Listed
  <2>5. \A n \in Monitors : (Busy(n) /\ Of(n).group = g) =>
          \A a \in DOMAIN monitor[n].group_list : monitor[n].group_list[a] # i
    BY <2>3 DEF AInv, MonitorsOK, TaskOK, Listed, Of
  <2>6. DOMAIN monitor'[m].group_list = {}
    BY <1>13, <1>15
  <2>7. ASSUME NEW k \in Monitors, Busy(k)', Of(k)'.group = g
        PROVE Distinct(monitor[k].group_list)' /\ Unlisted(k, keys[g])'
    <3>1. CASE k = m
      BY <3>1, <2>4, <2>6, <1>3, <1>13, <1>15 DEF Distinct, Unlisted
    <3>2. CASE k # m
      BY <3>2, <2>1, <2>7, <1>3, <1>18 DEF DistinctOK, Distinct, Unlisted
    <3> QED
      BY <3>1, <3>2
  <2>8. ASSUME NEW k \in Monitors, Busy(k)', Of(k)'.group = g,
               NEW n \in Monitors, Busy(n)', Of(n)'.group = g
        PROVE Unlisted(k, monitor[n].group_list)'
    <3>1. CASE n = m
      BY <3>1, <2>6 DEF Unlisted
    <3>2. CASE n # m /\ k = m
      BY <3>2, <2>5, <2>8, <1>13, <1>15, <1>18 DEF Unlisted
    <3>3. CASE n # m /\ k # m
      BY <3>3, <2>1, <2>8, <1>18 DEF DistinctOK, Unlisted
    <3> QED
      BY <3>1, <3>2, <3>3
  <2> QED
    BY <2>2, <2>7, <2>8
<1> QED
  BY <1>9, <1>10, <1>17, <1>20, <1>21 DEF AInv

-----------------------------------------------------------------------------
\* The program's own steps.
LEMMA ApiStep ==
  ASSUME AInv, Grows, monitor' = monitor, delivered' = delivered, failed' = failed,
         acked' = acked, faults' = faults,
         \A g \in Groups : keys'[g] = keys[g] \/ keys'[g] = <<>>,
         ObjOK', CallOK', AnswerOK', PkgsOK', KeysOK', CacheOK', RowsOK'
  PROVE AInv'
<1>1. \A m \in Monitors : Later(m)
  BY DEF Later
<1>2. faults \in Nat /\ faults' \in faults..MaxFaults
  BY Constants DEF AInv, ObjOK
<1>3. DeliveredOK'
  BY <1>1, <1>2, LaterSame, DeliveredKept DEF AInv
<1>4. \A g \in Groups : DistinctOK(g)'
  BY <1>1, DistinctKept DEF AInv
<1>5. MonitorsOK'
  BY MonitorsKept DEF AInv
<1> QED
  BY <1>3, <1>4, <1>5 DEF AInv

LEMMA PkgsAgain ==
  ASSUME PkgsOK, pkgs' = pkgs, obj'.kind = obj.kind, call.pc # "push", call'.pc # "push",
         obj.kind = "Chain" => obj'.group = obj.group /\ obj'.cached = obj.cached,
         runs' = runs
  PROVE PkgsOK'
<1>1. ASSUME NEW i \in DOMAIN pkgs PROVE PkgOK(pkgs[i])'
  <2>1. PkgOK(pkgs[i])
    BY DEF PkgsOK
  <2> QED
    BY <2>1 DEF PkgOK
<1> QED
  BY <1>1 DEF PkgsOK

\* A step that only changes the object, the call and the answer.
LEMMA TalkStep ==
  ASSUME AInv, UNCHANGED vars, obj'.kind = obj.kind, call.pc # "push", call'.pc # "push",
         obj.kind = "Chain" => obj'.group = obj.group /\ obj'.cached = obj.cached,
         runs' = runs, ObjOK', CallOK', AnswerOK'
  PROVE AInv'
<1>1. PkgsOK'
  BY PkgsAgain DEF AInv, vars
<1>2. Grows
  <2>1. DOMAIN pkgs \subseteq 1..MaxPackages
    BY Constants DEF AInv, PkgsOK
  <2> QED
    BY <2>1, Constants DEF Grows, AInv, DeliveredOK, vars
<1>3. KeysOK' /\ CacheOK' /\ RowsOK'
  BY <1>2, KeysKept, CacheKept, RowsKept DEF AInv, vars
<1> QED
  BY <1>1, <1>2, <1>3, ApiStep DEF vars

LEMMA AnswerKept == ASSUME AnswerOK, answer' = answer, pkgs' = pkgs PROVE AnswerOK'
  BY DEF AnswerOK

LEMMA NothingOK == ASSUME AInv, answer' = Nothing \/ answer' = [Nothing EXCEPT !.value = "raised"]
                   PROVE AnswerOK'
<1>1. PICK v \in {"nothing", "raised"} :
        answer' = [value |-> v, made |-> {}, late |-> FALSE, run |-> 0, op |-> "none", length |-> 0]
  BY DEF Nothing
<1>2. 0 \in 0..Cardinality(Groups) /\ 0 \in 0..MaxLength
  BY Constants
<1>3. answer' \in [value : {"nothing", "results", "raised"}, made : SUBSET (1..MaxPackages),
                   late : BOOLEAN, run : 0..Cardinality(Groups),
                   op : {"none", "result", "result_group"}, length : 0..MaxLength]
  BY <1>1, <1>2
<1>4. answer'.made = {} /\ answer'.value # "results"
  BY <1>1
<1> QED
  BY <1>3, <1>4 DEF AnswerOK

LEMMA SetOptionAInv == ASSUME AInv, SetOption PROVE AInv'
<1>1. obj \in Objects
  BY DEF AInv, ObjOK
<1>2. /\ obj' \in Objects /\ obj'.kind = obj.kind /\ obj.kind = "AsyncTask" /\ ~obj'.started
      /\ obj'.id = obj.id
  BY <1>1 DEF SetOption, Objects
<1>3. call = Free /\ call' = Free /\ UNCHANGED vars /\ runs' = runs /\ answer' = answer /\ asked' = asked
  BY DEF SetOption
<1>4. ObjOK'
  BY <1>2, <1>3 DEF AInv, ObjOK, vars
<1>5. CallOK' /\ call.pc = "free"
  BY <1>3 DEF CallOK, Calls, Free
<1>6. AnswerOK'
  BY <1>3, AnswerKept DEF AInv, vars
<1> QED
  BY <1>2, <1>3, <1>4, <1>5, <1>6, TalkStep

LEMMA AskAInv == ASSUME AInv, Ask PROVE AInv'
<1>1. /\ call = Free /\ obj.started /\ UNCHANGED vars /\ obj' = obj /\ runs' = runs
      /\ asked' = asked + 1 /\ asked < Asks /\ answer' = Nothing
  BY DEF Ask
<1>2. call' \in Calls /\ call'.pc \in {"count", "poll"} /\ call'.op \in Ops
  <2>1. PICK op \in Ops, failures \in BOOLEAN :
          call' = [pc |-> IF op = "result" THEN "poll" ELSE "count", op |-> op,
                   failures |-> failures, late |-> FALSE, keys |-> <<>>,
                   count |-> IF obj.kind = "Chain" THEN obj.length ELSE runs]
    BY DEF Ask
  <2>2. PICK c, e : c = (IF obj.kind = "Chain" THEN obj.length ELSE runs) /\ e = <<>>
    OBVIOUS
  <2>3. c \in Nat /\ e \in Result
    BY <2>2, Constants, EmptyResult DEF AInv, ObjOK, Objects
  <2>4. op \in {"result", "result_group"}
    BY DEF Ops, AInv, ObjOK, Objects
  <2>5. call' = [pc |-> IF op = "result" THEN "poll" ELSE "count", op |-> op,
                 failures |-> failures, late |-> FALSE, keys |-> e, count |-> c]
    BY <2>1, <2>2
  <2> QED
    BY <2>3, <2>4, <2>5 DEF Calls
<1>3. ObjOK'
  BY <1>1, Constants DEF AInv, ObjOK, vars
<1>4. CallOK' /\ call.pc = "free"
  BY <1>1, <1>2 DEF CallOK, Free, Ops
<1>5. AnswerOK'
  BY <1>1, NothingOK
<1> QED
  BY <1>1, <1>2, <1>3, <1>4, <1>5, TalkStep

LEMMA ElapseAInv == ASSUME AInv, Elapse PROVE AInv'
<1>1. UNCHANGED vars /\ obj' = obj /\ runs' = runs /\ asked' = asked /\ answer' = answer
  BY DEF Elapse
<1>2. call \in Calls /\ call.pc \in {"count", "poll"} /\ obj.started /\ call.op \in Ops
  BY DEF Elapse, AInv, CallOK
<1>3. call' \in Calls /\ call'.pc \in {"free", "poll"} /\ (call'.pc = "poll" => call'.op = call.op)
  <2>1. CASE call.pc = "count" /\ call' = [call EXCEPT !.pc = "poll", !.late = TRUE]
    <3>1. call \in [pc : {"count", "poll", "get", "members"}, op : {"result", "result_group"},
                    failures : BOOLEAN, late : BOOLEAN, keys : Result, count : Nat]
      BY <1>2 DEF Calls, Free
    <3>2. /\ call' \in [pc : {"count", "poll", "get", "members"}, op : {"result", "result_group"},
                        failures : BOOLEAN, late : BOOLEAN, keys : Result, count : Nat]
          /\ call'.pc = "poll" /\ call'.op = call.op
      BY <2>1, <3>1
    <3> QED
      BY <3>2 DEF Calls
  <2>2. CASE call' = Free
    BY <2>2 DEF Calls, Free
  <2> QED
    BY <2>1, <2>2, <1>2 DEF Elapse
<1>4. ObjOK' /\ AnswerOK'
  BY <1>1, AnswerKept DEF AInv, ObjOK, vars
<1>5. CallOK'
  BY <1>1, <1>2, <1>3 DEF CallOK, Ops
<1> QED
  BY <1>1, <1>2, <1>3, <1>4, <1>5, TalkStep

LEMMA CountedAInv == ASSUME AInv, Counted PROVE AInv'
<1>1. UNCHANGED vars /\ obj' = obj /\ runs' = runs /\ asked' = asked /\ answer' = answer
  BY DEF Counted
<1>2. call \in Calls /\ call.pc = "count" /\ obj.started /\ call.op \in Ops
  BY DEF Counted, AInv, CallOK
<1>3. call' \in Calls /\ call'.pc = "poll" /\ call'.op = call.op
  BY <1>2 DEF Counted, Calls, Free
<1>4. ObjOK' /\ AnswerOK'
  BY <1>1, AnswerKept DEF AInv, ObjOK, vars
<1>5. CallOK'
  BY <1>1, <1>2, <1>3 DEF CallOK, Ops
<1> QED
  BY <1>1, <1>2, <1>3, <1>4, <1>5, TalkStep

\* What the object's own result is made of.
LEMMA OwnResult ==
  ASSUME AInv, obj.started, obj.kind # "Chain", NEW r,
         obj.id >= 0 => r = <<obj.id>>, obj.id < 0 => Made(-obj.id, r)
  PROVE ToSet(r) \subseteq DOMAIN pkgs /\ \A i \in ToSet(r) : pkgs[i].run = runs
<1>1. obj \in Objects /\ obj.id \in Int /\ obj.id # 0 /\ runs \in Nat
  <2>1. obj \in Objects /\ obj.id # 0 /\ runs \in Nat
    BY Constants DEF AInv, ObjOK
  <2>2. obj.id \in Ids
    BY <2>1 DEF Objects
  <2> QED
    BY <2>1, <2>2, Constants
<1>2. CASE obj.kind = "AsyncTask"
  <2>1. obj.id \in DOMAIN pkgs /\ pkgs[obj.id].run = runs /\ obj.id >= 0
    BY <1>1, <1>2 DEF AInv, ObjOK, PkgsOK
  <2>2. ToSet(r) = {obj.id}
    BY <2>1 DEF ToSet
  <2> QED
    BY <2>1, <2>2
<1>3. CASE obj.kind = "Iter"
  <2>1. obj.id = -runs /\ obj.id < 0 /\ -obj.id = runs
    BY <1>1, <1>3, Constants DEF AInv, ObjOK
  <2>2. Made(runs, r)
    BY <2>1
  <2>3. \A i \in ToSet(r) : i \in Members(runs)
    BY <2>2 DEF Made, ToSet
  <2>4. \A i \in DOMAIN pkgs : pkgs[i].group = pkgs[i].run
    BY <1>3 DEF AInv, PkgsOK, PkgOK
  <2> QED
    BY <2>3, <2>4 DEF Members
<1> QED
  BY <1>1, <1>2, <1>3 DEF Objects

LEMMA AnsweredOK ==
  ASSUME AInv, NEW value \in {"results", "raised"}, NEW made, Answer(value, made), pkgs' = pkgs,
         made \subseteq DOMAIN pkgs, call.pc \in {"poll", "get", "members"},
         (value = "results" /\ call.op = "result") => \A i \in made : pkgs[i].run = runs
  PROVE AnswerOK' /\ call' = Free
<1>1. call \in [pc : {"count", "poll", "get", "members"}, op : {"result", "result_group"},
               failures : BOOLEAN, late : BOOLEAN, keys : Result, count : Nat]
  BY DEF AInv, CallOK, Calls, Free
<1>2. call.op \in {"result", "result_group"} /\ call.late \in BOOLEAN
  BY <1>1
<1>3. DOMAIN pkgs \subseteq 1..MaxPackages
  BY Constants DEF AInv, PkgsOK
<1>4. runs \in 0..Cardinality(Groups) /\ obj.length \in 0..MaxLength
  BY DEF AInv, ObjOK, Objects
<1>5. answer' = [value |-> value, made |-> made, late |-> call.late, run |-> runs,
                 op |-> call.op, length |-> obj.length]
  BY DEF Answer
<1>6. answer' \in [value : {"nothing", "results", "raised"}, made : SUBSET (1..MaxPackages),
                   late : BOOLEAN, run : 0..Cardinality(Groups),
                   op : {"none", "result", "result_group"}, length : 0..MaxLength]
  BY <1>2, <1>3, <1>4, <1>5
<1>7. answer'.value = value /\ answer'.made = made /\ answer'.run = runs /\ answer'.op = call.op
  BY <1>5
<1> QED
  BY <1>6, <1>7 DEF AnswerOK, Answer

\* After an answer.
LEMMA AnswerStep ==
  ASSUME AInv, UNCHANGED <<vars, obj, runs, asked>>, call.pc # "push", AnswerOK', call' = Free
  PROVE AInv'
<1>1. ObjOK'
  BY DEF AInv, ObjOK, vars
<1>2. CallOK' /\ call'.pc # "push"
  BY DEF CallOK, Calls, Free
<1> QED
  BY <1>1, <1>2, TalkStep

LEMMA PollAInv == ASSUME AInv, Poll PROVE AInv'
<1>1. UNCHANGED <<vars, obj, runs, asked>> /\ call.pc = "poll"
  BY DEF Poll
<1>2. /\ call \in [pc : {"count", "poll", "get", "members"}, op : {"result", "result_group"},
                   failures : BOOLEAN, late : BOOLEAN, keys : Result, count : Nat]
      /\ obj.started /\ call.op \in Ops /\ obj.group \in Groups /\ obj \in Objects
  BY <1>1 DEF AInv, CallOK, Calls, Free, ObjOK
<1>3. call.op = "result" => obj.kind # "Chain"
  BY <1>2 DEF Ops
<1>4. CASE result_cached
  <2>1. PICK r : r = cache[obj.id].result
    OBVIOUS
  <2>2. obj.id \in DOMAIN cache /\ call.op = "result" /\ Answer("results", ToSet(r))
    BY <2>1, <1>4 DEF result_cached
  <2>3. CachedOK(obj.id, cache[obj.id])
    BY <2>2 DEF AInv, CacheOK
  <2>4. ToSet(r) \subseteq DOMAIN pkgs /\ \A i \in ToSet(r) : pkgs[i].run = runs
    BY <2>1, <2>2, <2>3, <1>2, <1>3, OwnResult DEF CachedOK
  <2> QED
    BY <2>2, <2>4, <1>1, AnsweredOK, AnswerStep DEF vars
<1>5. CASE result_exists
  <2>1. answer' = answer /\ call' = [call EXCEPT !.pc = "get"] /\ call.op = "result"
    BY <1>5 DEF result_exists
  <2>2. call' \in Calls /\ call'.pc = "get" /\ call'.op = call.op
    BY <2>1, <1>2 DEF Calls
  <2>3. ObjOK' /\ AnswerOK'
    BY <2>1, <1>1, AnswerKept DEF AInv, ObjOK, vars
  <2>4. CallOK'
    BY <2>1, <2>2, <1>1, <1>2 DEF CallOK, Ops
  <2> QED
    BY <2>2, <2>3, <2>4, <1>1, TalkStep
<1>6. CASE result_group_cached
  <2>1. /\ answer' = answer /\ call' = [call EXCEPT !.pc = "members", !.keys = keys[obj.group]]
        /\ call.op = "result_group"
    BY <1>6 DEF result_group_cached
  <2>2. keys[obj.group] \in Result /\ Listed(obj.group, keys[obj.group])
    BY <1>2 DEF AInv, KeysOK
  <2>3. /\ call' \in Calls /\ call'.pc = "members" /\ call'.op = call.op
        /\ call'.keys = keys[obj.group]
    BY <2>1, <2>2, <1>2 DEF Calls
  <2>4. ObjOK' /\ AnswerOK'
    BY <2>1, <1>1, AnswerKept DEF AInv, ObjOK, vars
  <2>5. Listed(obj.group, call.keys)'
    BY <2>2, <2>3, <1>1 DEF Listed, Members, vars
  <2>6. CallOK'
    BY <2>1, <2>3, <2>5, <1>1, <1>2 DEF CallOK, Ops
  <2> QED
    BY <2>3, <2>4, <2>6, <1>1, TalkStep
<1>7. CASE result_group
  <2>1. PICK found : /\ found \subseteq Labelled /\ Answer("results", found)
                     /\ call.op = "result_group"
    BY <1>7 DEF result_group
  <2>2. ASSUME NEW id \in Labelled PROVE id \in DOMAIN pkgs
    <3>1. id \in DOMAIN rows /\ rows[id].group = obj.group
      BY DEF Labelled
    <3>2. RowOK(id, rows[id])
      BY <3>1 DEF AInv, RowsOK
    <3>3. id \in Int /\ obj.group # 0
      BY <3>2, <1>2, Constants DEF RowOK
    <3> QED
      BY <3>1, <3>2, <3>3 DEF RowOK
  <2>3. found \subseteq DOMAIN pkgs
    BY <2>1, <2>2
  <2> QED
    BY <2>1, <2>3, <1>1, AnsweredOK, AnswerStep DEF vars
<1> QED
  BY <1>4, <1>5, <1>6, <1>7 DEF Poll

LEMMA GetRowAInv == ASSUME AInv, GetRow PROVE AInv'
<1>1. UNCHANGED <<vars, obj, runs, asked>> /\ call.pc = "get"
  BY DEF GetRow
<1>2. obj.started /\ obj.kind # "Chain" /\ call.op = "result"
  BY <1>1 DEF AInv, CallOK, Ops
<1>3. CASE obj.id \in DOMAIN rows
  <2>1. PICK r : r = rows[obj.id].result
    OBVIOUS
  <2>2. Answer("results", ToSet(r))
    BY <2>1, <1>3 DEF GetRow
  <2>3. RowOK(obj.id, rows[obj.id])
    BY <1>3 DEF AInv, RowsOK
  <2>4. ToSet(r) \subseteq DOMAIN pkgs /\ \A i \in ToSet(r) : pkgs[i].run = runs
    BY <2>1, <2>3, <1>2, OwnResult DEF RowOK
  <2> QED
    BY <2>2, <2>4, <1>1, AnsweredOK, AnswerStep DEF vars
<1>4. CASE obj.id \notin DOMAIN rows
  <2>1. Answer("raised", {})
    BY <1>4 DEF GetRow
  <2> QED
    BY <2>1, <1>1, AnsweredOK, AnswerStep DEF vars
<1> QED
  BY <1>3, <1>4

LEMMA GetMembersAInv == ASSUME AInv, GetMembers PROVE AInv'
<1>1. UNCHANGED <<vars, obj, runs, asked>> /\ call.pc = "members"
  BY DEF GetMembers
<1>2. call.op = "result_group" /\ ToSet(call.keys) \subseteq DOMAIN pkgs
  BY <1>1 DEF AInv, CallOK, Listed, Members, ToSet
<1>3. PICK value, made : value \in {"results", "raised"} /\ made \subseteq ToSet(call.keys) /\ Answer(value, made)
  BY DEF GetMembers
<1> QED
  BY <1>1, <1>2, <1>3, AnsweredOK, AnswerStep DEF vars

LEMMA SameLists == ASSUME AInv, Grows, keys' = keys, cache' = cache, rows' = rows
                   PROVE KeysOK' /\ CacheOK' /\ RowsOK'
  BY KeysKept, CacheKept, RowsKept DEF AInv

LEMMA StillGrows == ASSUME AInv, pkgs' = pkgs, delivered' = delivered, failed' = failed,
                           obj'.kind = obj.kind
                    PROVE Grows
<1>1. DOMAIN pkgs \subseteq 1..MaxPackages
  BY Constants DEF AInv, PkgsOK
<1> QED
  BY <1>1, Constants DEF Grows, AInv, DeliveredOK

\* delete_group leaves nothing that was not there.
LEMMA DeleteGroupOK ==
  ASSUME AInv, Grows, NEW g \in Groups, delete_group(g)
  PROVE /\ KeysOK' /\ CacheOK' /\ RowsOK'
        /\ \A h \in Groups : keys'[h] = keys[h] \/ keys'[h] = <<>>
<1>1. CASE conf.CACHED
  <2>1. keys' = [keys EXCEPT ![g] = <<>>] /\ cache' = Drop(cache, ToSet(keys[g])) /\ rows' = rows
    BY <1>1 DEF delete_group
  <2>2. \A h \in Groups : keys'[h] = keys[h] \/ keys'[h] = <<>>
    BY <2>1 DEF AInv, KeysOK
  <2>3. KeysOK'
    <3>1. keys' \in [Groups -> Result]
      BY <2>1, EmptyResult DEF AInv, KeysOK
    <3>2. ASSUME NEW h \in Groups PROVE Listed(h, keys[h])'
      <4>1. PICK k : k = keys'[h]
        OBVIOUS
      <4>2. Listed(h, k)
        BY <4>1, <2>2, NoListing DEF AInv, KeysOK
      <4>3. Listed(h, k)'
        BY <4>2, ListedKept
      <4> QED
        BY <4>1, <4>3
    <3> QED
      BY <3>1, <3>2 DEF KeysOK
  <2>4. DOMAIN cache' \subseteq DOMAIN cache /\ \A x \in DOMAIN cache' : cache'[x] = cache[x]
    BY <2>1 DEF Drop, Restrict
  <2>5. CacheOK'
    BY <2>4, CachedKept DEF AInv, CacheOK
  <2>6. RowsOK'
    BY <2>1, RowsKept DEF AInv
  <2> QED
    BY <2>2, <2>3, <2>5, <2>6
<1>2. CASE ~conf.CACHED
  <2>1. /\ rows' = [id \in DOMAIN rows |-> IF rows[id].group = g
                                           THEN [rows[id] EXCEPT !.group = 0] ELSE rows[id]]
        /\ keys' = keys /\ cache' = cache
    BY <1>2 DEF delete_group
  <2>2. KeysOK' /\ CacheOK'
    BY <2>1, KeysKept, CacheKept DEF AInv
  <2>3. ASSUME NEW id \in DOMAIN rows' PROVE RowOK(id, rows[id])'
    <3>1. id \in DOMAIN rows /\ RowOK(id, rows[id])
      BY <2>1, <2>3 DEF AInv, RowsOK
    <3>2. PICK r : r = rows[id]
      OBVIOUS
    <3>3. PICK s : s = [r EXCEPT !.group = 0]
      OBVIOUS
    <3>4. r \in Row
      BY <3>1, <3>2 DEF RowOK
    <3>5. s \in Row /\ s.group = 0 /\ s.result = r.result /\ s.success = r.success
      BY <3>3, <3>4 DEF Row
    <3>6. RowOK(id, s)
      BY <3>1, <3>2, <3>5 DEF RowOK
    <3>7. RowOK(id, r)' /\ RowOK(id, s)'
      BY <3>1, <3>2, <3>6, RowKept
    <3>8. rows'[id] = s \/ rows'[id] = r
      BY <2>1, <3>1, <3>2, <3>3
    <3> QED
      BY <3>7, <3>8
  <2> QED
    BY <2>1, <2>2, <2>3 DEF RowsOK
<1> QED
  BY <1>1, <1>2

LEMMA AppendAInv == ASSUME AInv, append PROVE AInv'
<1>1. /\ call = Free /\ call' = Free /\ call.pc # "push" /\ call'.pc # "push"
      /\ obj.length < MaxLength /\ conf' = conf /\ pkgs' = pkgs /\ delivered' = delivered
      /\ failed' = failed /\ acked' = acked /\ monitor' = monitor /\ args' = args
      /\ faults' = faults /\ runs' = runs /\ asked' = asked
  BY DEF append, Free
<1>2. obj \in Objects /\ obj.length \in 0..MaxLength /\ obj.length + 1 \in 0..MaxLength
  <2>1. obj \in Objects
    BY DEF AInv, ObjOK
  <2>2. obj.length \in 0..MaxLength
    BY <2>1 DEF Objects
  <2> QED
    BY <1>1, <2>1, <2>2, Constants
<1>3. CallOK'
  BY <1>1 DEF CallOK, Calls, Free
<1>4. PICK k : k = obj.length + 1
  OBVIOUS
<1>5. /\ obj' \in Objects /\ obj'.kind = obj.kind /\ obj'.group = obj.group /\ obj'.cached = obj.cached
      /\ obj'.length = k /\ obj'.id = obj.id
      /\ ~obj'.started \/ (obj'.started = obj.started /\ obj'.ran = obj.ran)
  <2>1. CASE AppendArguments
    <3>1. obj' = [obj EXCEPT !.length = k, !.started = FALSE]
      BY <2>1, <1>4 DEF AppendArguments
    <3> QED
      BY <3>1, <1>2, <1>4 DEF Objects
  <2>2. CASE AppendLink
    <3>1. PICK d : d = (obj.dirty \/ Outstanding(obj.group) \/ obj.cached # conf.CACHED)
      OBVIOUS
    <3>2. d \in BOOLEAN
      BY <3>1
    <3>3. PICK longer : longer = [obj EXCEPT !.length = k]
      OBVIOUS
    <3>4. /\ longer \in Objects /\ longer.kind = obj.kind /\ longer.group = obj.group
          /\ longer.cached = obj.cached /\ longer.length = k /\ longer.id = obj.id
          /\ longer.started = obj.started /\ longer.ran = obj.ran
      BY <3>3, <1>2, <1>4 DEF Objects
    <3>5. \/ obj' = longer
          \/ obj' = [longer EXCEPT !.dirty = TRUE]
          \/ obj' = [longer EXCEPT !.started = FALSE, !.ran = FALSE, !.dirty = d]
      BY <2>2, <3>1, <3>3, <1>4 DEF AppendLink
    <3> QED
      BY <3>2, <3>4, <3>5 DEF Objects
  <2> QED
    BY <2>1, <2>2 DEF append
<1>6. Grows
  BY <1>1, <1>5, StillGrows
<1>7. PkgsOK'
  BY <1>1, <1>5, PkgsAgain DEF AInv
<1>8. ObjOK'
  BY <1>1, <1>2, <1>4, <1>5 DEF AInv, ObjOK
<1>9. AnswerOK'
  <2>1. answer' = answer \/ answer' = [Nothing EXCEPT !.value = "raised"]
    BY DEF append, AppendArguments, AppendLink
  <2> QED
    BY <2>1, <1>1, AnswerKept, NothingOK DEF AInv
<1>10. CASE keys' = keys /\ cache' = cache /\ rows' = rows
  BY <1>1, <1>3, <1>6, <1>7, <1>8, <1>9, <1>10, SameLists, ApiStep
<1>11. CASE delete_group(obj.group) /\ obj.started
  <2>1. obj.group \in Groups
    BY <1>11 DEF AInv, ObjOK
  <2>2. /\ KeysOK' /\ CacheOK' /\ RowsOK'
        /\ \A h \in Groups : keys'[h] = keys[h] \/ keys'[h] = <<>>
    BY <2>1, <1>6, <1>11, DeleteGroupOK
  <2> QED
    BY <1>1, <1>3, <1>6, <1>7, <1>8, <1>9, <2>2, ApiStep
<1> QED
  BY <1>10, <1>11 DEF append, AppendArguments, AppendLink

LEMMA RunNumber == ASSUME AInv, runs < Cardinality(Groups)
                   PROVE /\ Run \in Groups /\ Run = runs + 1 /\ runs \in Nat
                         /\ Run \in 0..Cardinality(Groups) /\ 1 \in Groups
<1>1. runs \in 0..Cardinality(Groups)
  BY DEF AInv, ObjOK
<1>2. \A g \in 1..Cardinality(Groups) : g \in Groups
  BY Constants
<1> QED
  BY <1>1, <1>2, Constants DEF Run

\* AsyncTask.run and Chain.run
LEMMA RunPkg ==
  ASSUME AInv, call = Free, runs < Cardinality(Groups), NEW p \in Package, async_task(p),
         p.run = Run, PkgOK(p)', obj'.kind = obj.kind, obj.kind # "Iter",
         obj.kind = "Chain" => obj'.cached = obj.cached /\ (obj.group # 0 => obj'.group = obj.group),
         UNCHANGED <<conf, delivered, failed, acked, monitor, keys, cache, rows, faults,
                     answer, asked, args, call>>,
         runs' = Run, obj' \in Objects, obj'.started, obj'.ran, obj'.group \in Groups, obj'.length > 0,
         obj.kind = "AsyncTask" => obj'.id = Len(pkgs) + 1
  PROVE AInv'
<1>1. pkgs' = Append(pkgs, p) /\ Len(pkgs) < MaxPackages
  BY DEF async_task
<1>2. /\ Grows /\ pkgs' \in Seq(Package) /\ Len(pkgs') <= MaxPackages
      /\ DOMAIN pkgs' = DOMAIN pkgs \cup {Len(pkgs) + 1} /\ pkgs'[Len(pkgs) + 1] = p
      /\ \A i \in DOMAIN pkgs : pkgs'[i] = pkgs[i]
      /\ Len(pkgs) + 1 \in 1..MaxPackages
  BY <1>1, AddPkg
<1>3. runs' \in 0..Cardinality(Groups) /\ runs' = runs + 1 /\ runs \in Nat
  BY RunNumber
<1>4. call.pc # "push" /\ call'.pc # "push"
  BY DEF Free
<1>5. CallOK'
  BY DEF CallOK, Calls, Free
<1>6. ASSUME NEW i \in DOMAIN pkgs PROVE PkgOK(pkgs[i])'
  <2>1. PkgOK(pkgs[i]) /\ pkgs[i] \in Package
    BY DEF AInv, PkgsOK, PkgOK
  <2>2. pkgs[i].run \in Nat /\ pkgs[i].run <= runs /\ pkgs[i].group \in Groups /\ 0 \notin Groups
    <3>1. pkgs[i].run \in Groups /\ pkgs[i].group \in Groups
      BY <2>1 DEF Package
    <3> QED
      BY <3>1, <2>1, <1>4, Constants DEF PkgOK
  <2>3. obj.kind = "Chain" => obj.group # 0
    BY <2>1, <2>2 DEF PkgOK
  <2>4. pkgs'[i] = pkgs[i] /\ pkgs[i].run <= runs'
    BY <1>2, <1>3, <2>2
  <2> QED
    BY <2>1, <2>3, <2>4 DEF PkgOK
<1>7. PkgsOK'
  <2>1. ASSUME NEW i \in DOMAIN pkgs' PROVE PkgOK(pkgs[i])'
    <3>1. CASE i \in DOMAIN pkgs
      BY <3>1, <1>6
    <3>2. CASE i = Len(pkgs) + 1
      BY <3>2, <1>2
    <3> QED
      BY <3>1, <3>2, <1>2
  <2> QED
    BY <2>1, <1>2, <1>4 DEF PkgsOK
<1>8. AnswerOK'
  BY <1>2 DEF AInv, AnswerOK
<1>9. ObjOK'
  <2>1. obj.kind = "AsyncTask" => obj'.id # 0 /\ obj'.id \in DOMAIN pkgs' /\ pkgs'[obj'.id].run = runs'
    BY <1>2, <1>3, Constants
  <2> QED
    BY <2>1, <1>3 DEF AInv, ObjOK, Objects
<1>10. KeysOK' /\ CacheOK' /\ RowsOK'
  BY <1>2, SameLists
<1> QED
  BY <1>2, <1>5, <1>7, <1>8, <1>9, <1>10, ApiStep

LEMMA PkgIs == ASSUME AInv, runs < Cardinality(Groups), NEW item \in Nat, NEW g \in Groups
               PROVE /\ Pkg(item, g) \in Package /\ Pkg(item, g).run = Run /\ Pkg(item, g).item = item
                     /\ Pkg(item, g).group = g /\ Pkg(item, g).iter_count = 0
                     /\ Pkg(item, g).chain = 0 /\ Pkg(item, g).cached = obj.cached
<1>1. obj.cached \in BOOLEAN
  BY DEF AInv, ObjOK, Objects
<1> QED
  BY <1>1, RunNumber DEF Pkg, Package

LEMMA RunTaskAInv == ASSUME AInv, run, RunTask PROVE AInv'
<1>1. /\ call = Free /\ runs < Cardinality(Groups) /\ obj.kind = "AsyncTask" /\ runs' = Run
      /\ async_task(Pkg(1, 1)) /\ obj.length > 0
      /\ UNCHANGED <<conf, delivered, failed, acked, monitor, keys, cache, rows, faults,
                     answer, asked, args, call>>
  BY DEF run, RunTask
<1>2. PICK p, k : p = Pkg(1, 1) /\ k = Len(pkgs) + 1
  OBVIOUS
<1>3. obj' = [obj EXCEPT !.id = k, !.group = 1, !.started = TRUE, !.ran = TRUE]
  BY <1>2 DEF RunTask
<1>4. Run \in Groups /\ Run = runs + 1 /\ 1 \in Groups
  BY <1>1, RunNumber
<1>5. /\ p \in Package /\ p.run = Run /\ p.item = 1 /\ p.group = 1 /\ p.iter_count = 0
      /\ p.chain = 0 /\ p.cached = obj.cached
  BY <1>1, <1>2, <1>4, PkgIs
<1>6. obj \in Objects
  BY DEF AInv, ObjOK
<1>7. k \in Ids
  BY <1>1, <1>2, <1>5, AddPkg, Constants DEF async_task, AInv, PkgsOK
<1>8. /\ obj' \in Objects /\ obj'.kind = obj.kind /\ obj'.group = 1 /\ obj'.started /\ obj'.ran
      /\ obj'.length = obj.length /\ obj'.id = k
  BY <1>3, <1>4, <1>6, <1>7 DEF Objects
<1>9. PkgOK(p)'
  <2>1. p.run <= runs'
    BY <1>1, <1>4, <1>5, Constants
  <2> QED
    BY <2>1, <1>1, <1>5, <1>8 DEF PkgOK
<1> QED
  BY <1>1, <1>2, <1>4, <1>5, <1>8, <1>9, RunPkg

LEMMA RunChainIs ==
  ASSUME AInv, run, RunChain
  PROVE \E p \in Package :
    /\ call = Free /\ obj.kind = "Chain" /\ runs < Cardinality(Groups) /\ obj.length > 0
    /\ Run \in Groups /\ Run = runs + 1 /\ runs \in Nat /\ runs' = Run
    /\ p.run = Run /\ p.item = 1 /\ p.iter_count = 0 /\ p.cached = obj.cached
    /\ p.chain = obj.length - 1 /\ p.group = obj'.group
    /\ async_task(p)
    /\ obj' \in Objects /\ obj'.kind = "Chain" /\ obj'.started /\ obj'.ran
    /\ obj'.length = obj.length /\ obj'.cached = obj.cached /\ obj'.group \in Groups
    /\ obj.group # 0 => obj'.group = obj.group
    /\ obj.ran => obj'.dirty
    /\ obj.dirty => obj'.dirty
    /\ UNCHANGED <<conf, delivered, failed, acked, monitor, keys, cache, rows, faults,
                   answer, asked, args, call>>
<1>1. /\ call = Free /\ runs < Cardinality(Groups) /\ obj.kind = "Chain" /\ runs' = Run
      /\ obj.length > 0
      /\ UNCHANGED <<conf, delivered, failed, acked, monitor, keys, cache, rows, faults,
                     answer, asked, args, call>>
  BY DEF run, RunChain
<1>2. obj \in Objects
  BY DEF AInv, ObjOK
<1>3. PICK g, q, links, d : /\ g = ChainGroup /\ q = Pkg(1, g) /\ links = Links
                            /\ d = (obj.dirty \/ obj.ran)
  OBVIOUS
<1>4. Run \in Groups /\ Run = runs + 1 /\ runs \in Nat
  BY <1>1, RunNumber
<1>5. g \in Groups /\ (obj.group # 0 => g = obj.group)
  BY <1>2, <1>3, <1>4 DEF ChainGroup, Objects
<1>6. /\ q \in Package /\ q.run = Run /\ q.item = 1 /\ q.group = g /\ q.iter_count = 0
      /\ q.chain = 0 /\ q.cached = obj.cached
  BY <1>1, <1>3, <1>5, PkgIs
<1>7. links \in Nat /\ links = obj.length - 1
  BY <1>1, <1>2, <1>3, Constants DEF Links, Objects
<1>8. PICK p : p = [q EXCEPT !.chain = links]
  OBVIOUS
<1>9. /\ p \in Package /\ p.run = Run /\ p.item = 1 /\ p.group = g /\ p.iter_count = 0
      /\ p.cached = obj.cached /\ p.chain = links
  BY <1>6, <1>7, <1>8 DEF Package
<1>10. /\ async_task(p)
       /\ obj' = [obj EXCEPT !.group = g, !.started = TRUE, !.ran = TRUE, !.dirty = d]
  BY <1>3, <1>8 DEF RunChain
<1>11. d \in BOOLEAN /\ (obj.ran => d) /\ (obj.dirty => d)
  BY <1>3
<1>12. /\ obj' \in Objects /\ obj'.kind = obj.kind /\ obj'.group = g /\ obj'.started /\ obj'.ran
       /\ obj'.length = obj.length /\ obj'.cached = obj.cached /\ obj'.dirty = d
  BY <1>2, <1>5, <1>10, <1>11 DEF Objects
<1> QED
  BY <1>1, <1>4, <1>5, <1>7, <1>9, <1>10, <1>11, <1>12

LEMMA RunChainAInv == ASSUME AInv, run, RunChain PROVE AInv'
<1>1. PICK p \in Package :
        /\ call = Free /\ obj.kind = "Chain" /\ runs < Cardinality(Groups) /\ obj.length > 0
        /\ Run \in Groups /\ Run = runs + 1 /\ runs \in Nat /\ runs' = Run
        /\ p.run = Run /\ p.item = 1 /\ p.iter_count = 0 /\ p.cached = obj.cached
        /\ p.group = obj'.group /\ async_task(p)
        /\ obj' \in Objects /\ obj'.kind = "Chain" /\ obj'.started /\ obj'.ran
        /\ obj'.length = obj.length /\ obj'.cached = obj.cached /\ obj'.group \in Groups
        /\ obj.group # 0 => obj'.group = obj.group
        /\ UNCHANGED <<conf, delivered, failed, acked, monitor, keys, cache, rows, faults,
                       answer, asked, args, call>>
  BY RunChainIs
<1>2. PkgOK(p)'
  BY <1>1 DEF PkgOK
<1> QED
  BY <1>1, <1>2, RunPkg

LEMMA RunIterAInv == ASSUME AInv, run, RunIter PROVE AInv'
<1>1. /\ call = Free /\ runs < Cardinality(Groups) /\ obj.kind = "Iter" /\ runs' = runs
      /\ obj.length > 0 /\ pkgs' = pkgs /\ args' = args \cup {Run}
      /\ UNCHANGED <<conf, delivered, failed, acked, monitor, keys, cache, rows, faults,
                     answer, asked>>
  BY DEF run, RunIter
<1>2. obj \in Objects
  BY DEF AInv, ObjOK
<1>3. PICK f, c : /\ f = (obj.forced \/ obj.q_options)
                  /\ c = IF obj.q_options THEN obj.forced ELSE obj.cached
  OBVIOUS
<1>4. f \in BOOLEAN
  BY <1>3
<1>5. c \in BOOLEAN
  BY <1>2, <1>3, Zenon DEF Objects
<1>6. obj' = [obj EXCEPT !.forced = f]
  BY <1>3 DEF RunIter
<1>7. /\ obj' \in Objects /\ obj'.kind = obj.kind /\ obj'.length = obj.length /\ obj'.id = obj.id
      /\ obj'.started = obj.started /\ obj'.ran = obj.ran /\ obj'.group = obj.group
      /\ obj'.cached = obj.cached
  BY <1>2, <1>4, <1>6 DEF Objects
<1>8. call' = [pc |-> "push", left |-> obj.length, iter_cached |-> c]
  BY <1>3 DEF RunIter
<1>9. obj.length \in 1..MaxLength
  BY <1>1, <1>2, Constants DEF Objects
<1>10. call' \in Calls /\ call'.pc = "push" /\ call'.left = obj.length
  BY <1>5, <1>8, <1>9 DEF Calls
<1>11. Run \in Groups /\ Run = runs + 1 /\ runs \in Nat
  BY <1>1, RunNumber
<1>12. CallOK'
  BY <1>1, <1>7, <1>9, <1>10, Constants DEF CallOK
<1>13. Grows
  BY <1>1, <1>7, StillGrows
<1>14. ASSUME NEW i \in DOMAIN pkgs PROVE PkgOK(pkgs[i])' /\ pkgs[i].run # runs + 1
  <2>1. PkgOK(pkgs[i]) /\ call.pc # "push"
    BY <1>1 DEF AInv, PkgsOK, Free
  <2>2. pkgs[i].run <= runs /\ pkgs[i].run \in Nat
    <3>1. pkgs[i].run \in Groups
      BY <2>1 DEF PkgOK, Package
    <3> QED
      BY <2>1, <3>1, Constants DEF PkgOK
  <2> QED
    BY <2>1, <2>2, <1>1, <1>7, <1>11 DEF PkgOK
<1>15. PkgsOK'
  BY <1>1, <1>7, <1>14 DEF AInv, PkgsOK
<1>16. ObjOK'
  BY <1>1, <1>7, <1>11 DEF AInv, ObjOK
<1>17. KeysOK' /\ CacheOK' /\ RowsOK'
  BY <1>1, <1>13, SameLists
<1>18. AnswerOK'
  BY <1>1, AnswerKept DEF AInv
<1> QED
  BY <1>1, <1>12, <1>13, <1>15, <1>16, <1>17, <1>18, ApiStep

LEMMA PushAInv == ASSUME AInv, Push PROVE AInv'
<1>1. /\ call.pc = "push" /\ obj.kind = "Iter" /\ runs < Cardinality(Groups)
      /\ UNCHANGED <<conf, delivered, failed, acked, monitor, keys, args, cache, rows, faults,
                     answer, asked>>
  BY DEF Push, AInv, CallOK
<1>2. obj \in Objects /\ obj.length \in 0..MaxLength
  BY DEF AInv, ObjOK, Objects
<1>3. call \in [pc : {"push"}, left : 1..MaxLength, iter_cached : BOOLEAN] /\ call.left <= obj.length
  BY <1>1 DEF AInv, CallOK, Calls, Free
<1>4. /\ call.left \in Nat /\ call.left > 0 /\ call.iter_cached \in BOOLEAN /\ obj.length \in Nat
      /\ obj.length > 0
  BY <1>2, <1>3, Constants
<1>5. Run \in Groups /\ Run = runs + 1 /\ runs \in Nat /\ Run \in Nat /\ Run > 0
  BY <1>1, RunNumber, Constants
<1>6. PICK item, left : item = obj.length - call.left + 1 /\ left = call.left - 1
  OBVIOUS
<1>7. item \in 1..obj.length /\ item \in Nat
  BY <1>3, <1>4, <1>6
<1>8. PICK q : q = Pkg(item, Run)
  OBVIOUS
<1>9. /\ q \in Package /\ q.run = Run /\ q.item = item /\ q.group = Run /\ q.iter_count = 0
      /\ q.chain = 0
  BY <1>1, <1>5, <1>7, <1>8, PkgIs
<1>10. PICK p : p = [q EXCEPT !.iter_count = obj.length, !.cached = TRUE, !.iter_cached = call.iter_cached]
  OBVIOUS
<1>11. /\ p \in Package /\ p.run = Run /\ p.item = item /\ p.group = Run
       /\ p.iter_count = obj.length /\ p.chain = 0 /\ p.cached
  BY <1>4, <1>9, <1>10 DEF Package
<1>12. pkgs' = Append(pkgs, p) /\ Len(pkgs) < MaxPackages
  BY <1>6, <1>8, <1>10 DEF Push, async_task
<1>13. \/ /\ call.left > 1 /\ call' = [call EXCEPT !.left = left] /\ obj' = obj /\ runs' = runs
       \/ /\ ~(call.left > 1) /\ call' = Free /\ runs' = Run
          /\ obj' = [obj EXCEPT !.id = -Run, !.group = Run, !.started = TRUE, !.ran = TRUE]
  BY <1>6 DEF Push
<1>14. /\ obj' \in Objects /\ obj'.kind = "Iter" /\ obj'.length = obj.length
  BY <1>2, <1>1, <1>5, <1>13, Constants DEF Objects
<1>15. /\ Grows /\ pkgs' \in Seq(Package) /\ Len(pkgs') <= MaxPackages
       /\ DOMAIN pkgs' = DOMAIN pkgs \cup {Len(pkgs) + 1} /\ pkgs'[Len(pkgs) + 1] = p
       /\ \A i \in DOMAIN pkgs : pkgs'[i] = pkgs[i]
  BY <1>1, <1>11, <1>12, <1>14, AddPkg
<1>18. \A i, j \in DOMAIN pkgs' : pkgs'[i].run = pkgs'[j].run =>
        /\ pkgs'[i].iter_count = pkgs'[j].iter_count
        /\ pkgs'[i].item = pkgs'[j].item => i = j
  <2>1. \A i \in DOMAIN pkgs : pkgs[i].run = Run =>
          pkgs[i].iter_count = p.iter_count /\ pkgs[i].item < p.item
    <3>1. ASSUME NEW i \in DOMAIN pkgs, pkgs[i].run = Run
          PROVE pkgs[i].iter_count = p.iter_count /\ pkgs[i].item < p.item
      <4>1. pkgs[i].item <= obj.length - call.left /\ pkgs[i].iter_count = obj.length
        BY <3>1, <1>1, <1>5 DEF AInv, PkgsOK
      <4>2. pkgs[i].item \in Nat
        BY DEF AInv, PkgsOK, PkgOK, Package
      <4> QED
        BY <4>1, <4>2, <1>4, <1>6, <1>11
    <3> QED
      BY <3>1
  <2>2. \A i \in DOMAIN pkgs : pkgs[i].item \in Nat
    BY DEF AInv, PkgsOK, PkgOK, Package
  <2>3. \A i, j \in DOMAIN pkgs : pkgs[i].run = pkgs[j].run =>
          /\ pkgs[i].iter_count = pkgs[j].iter_count
          /\ pkgs[i].item = pkgs[j].item => i = j
    BY <1>1 DEF AInv, PkgsOK
  <2> QED
    BY <2>1, <2>2, <2>3, <1>7, <1>11, <1>15
<1>16. CASE call.left > 1 /\ call' = [call EXCEPT !.left = left] /\ obj' = obj /\ runs' = runs
  <2>1. left \in 1..MaxLength /\ left <= obj.length /\ left \in Nat /\ call.left = left + 1
    <3>1. PICK a, b : a = call.left /\ b = obj.length
      OBVIOUS
    <3>2. a \in 1..MaxLength /\ a <= b /\ b \in Nat /\ a > 1 /\ left = a - 1
      BY <3>1, <1>3, <1>4, <1>6, <1>16
    <3> QED
      BY <3>1, <3>2, Constants
  <2>2. call' \in [pc : {"push"}, left : 1..MaxLength, iter_cached : BOOLEAN] /\ call'.left = left
    BY <1>3, <1>16, <2>1
  <2>3. CallOK' /\ call'.pc = "push"
    BY <2>1, <2>2, <1>1, <1>16 DEF CallOK, Calls
  <2>4. ASSUME NEW i \in DOMAIN pkgs'
        PROVE /\ PkgOK(pkgs[i])'
              /\ pkgs'[i].run = runs' + 1 => /\ pkgs'[i].item <= obj'.length - call'.left
                                             /\ pkgs'[i].iter_count = obj'.length
    <3>1. CASE i \in DOMAIN pkgs
      <4>1. PkgOK(pkgs[i]) /\ pkgs[i] \in Package /\ pkgs'[i] = pkgs[i]
        BY <3>1, <1>15 DEF AInv, PkgsOK, PkgOK
      <4>2. pkgs[i].item \in Nat
        BY <4>1 DEF Package
      <4>3. pkgs[i].run = runs + 1 =>
              pkgs[i].item <= obj.length - call.left /\ pkgs[i].iter_count = obj.length
        BY <3>1, <1>1 DEF AInv, PkgsOK
      <4>4. PkgOK(pkgs[i])'
        BY <4>1, <1>1, <1>16, <2>3 DEF PkgOK
      <4> QED
        BY <4>1, <4>2, <4>3, <4>4, <2>1, <2>2, <1>4, <1>16
    <3>2. CASE i = Len(pkgs) + 1
      <4>1. pkgs'[i] = p
        BY <3>2, <1>15
      <4>2. item <= obj.length - left
        BY <1>4, <1>6, <2>1
      <4>3. PkgOK(p)'
        BY <1>1, <1>5, <1>7, <1>11, <1>14, <1>16, <2>3 DEF PkgOK
      <4> QED
        BY <4>1, <4>2, <4>3, <1>11, <1>16, <2>2
    <3> QED
      BY <3>1, <3>2, <1>15
  <2>6. PkgsOK'
    BY <2>4, <1>18, <1>15 DEF PkgsOK
  <2>7. ObjOK'
    BY <1>1, <1>14, <1>16 DEF AInv, ObjOK
  <2>8. KeysOK' /\ CacheOK' /\ RowsOK' /\ AnswerOK'
    BY <1>1, <1>15, SameLists DEF AInv, AnswerOK
  <2> QED
    BY <1>1, <1>15, <2>3, <2>6, <2>7, <2>8, ApiStep
<1>17. CASE /\ ~(call.left > 1) /\ call' = Free /\ runs' = Run
            /\ obj' = [obj EXCEPT !.id = -Run, !.group = Run, !.started = TRUE, !.ran = TRUE]
  <2>1. CallOK' /\ call'.pc = "free"
    BY <1>17 DEF CallOK, Calls, Free
  <2>2. ASSUME NEW i \in DOMAIN pkgs' PROVE PkgOK(pkgs[i])'
    <3>1. CASE i \in DOMAIN pkgs
      <4>1. PkgOK(pkgs[i]) /\ pkgs[i] \in Package /\ pkgs'[i] = pkgs[i]
        BY <3>1, <1>15 DEF AInv, PkgsOK, PkgOK
      <4>2. pkgs[i].run \in Nat
        BY <4>1, Constants DEF Package
      <4>3. pkgs[i].run <= runs'
        BY <4>1, <4>2, <1>5, <1>17 DEF PkgOK
      <4> QED
        BY <4>1, <4>3, <1>1, <1>14 DEF PkgOK
    <3>2. CASE i = Len(pkgs) + 1
      <4>1. pkgs'[i] = p
        BY <3>2, <1>15
      <4>2. PkgOK(p)'
        BY <1>5, <1>7, <1>11, <1>14, <1>17 DEF PkgOK
      <4> QED
        BY <4>1, <4>2
    <3> QED
      BY <3>1, <3>2, <1>15
  <2>4. PkgsOK'
    BY <2>1, <2>2, <1>18, <1>15 DEF PkgsOK
  <2>5. ObjOK'
    <3>1. obj'.id = -Run /\ obj'.group = Run /\ obj'.id # 0 /\ runs' \in 0..Cardinality(Groups)
      BY <1>1, <1>2, <1>5, <1>17, RunNumber DEF Objects
    <3> QED
      BY <3>1, <1>1, <1>4, <1>5, <1>14, <1>17 DEF AInv, ObjOK
  <2>6. KeysOK' /\ CacheOK' /\ RowsOK' /\ AnswerOK'
    BY <1>1, <1>15, SameLists DEF AInv, AnswerOK
  <2> QED
    BY <1>1, <1>15, <2>1, <2>4, <2>5, <2>6, ApiStep
<1> QED
  BY <1>13, <1>16, <1>17

LEMMA InitAInv == ASSUME ApiInit PROVE AInv
<1>1. PICK kind \in {"AsyncTask", "Iter", "Chain"}, cached \in BOOLEAN, q_options \in BOOLEAN :
        obj = [kind |-> kind, cached |-> cached, q_options |-> q_options, forced |-> FALSE,
               length |-> IF kind = "AsyncTask" THEN 1 ELSE 0, group |-> 0, id |-> 0,
               started |-> FALSE, ran |-> FALSE, dirty |-> FALSE]
  BY DEF ApiInit
<1>2. PICK k : k = IF kind = "AsyncTask" THEN 1 ELSE 0
  OBVIOUS
<1>3. k \in 0..MaxLength /\ 0 \in Ids
  BY <1>2, ApiAssumption, Constants DEF Ids
<1>4. obj \in Objects /\ ~obj.started /\ obj.id = 0
  BY <1>1, <1>2, <1>3 DEF Objects
<1>5. /\ conf \in Settings /\ pkgs = <<>> /\ failed = {} /\ acked = {} /\ args = {}
      /\ delivered = [i \in 1..MaxPackages |-> 0] /\ monitor = [m \in Monitors |-> Waiting]
      /\ keys = [g \in Groups |-> <<>>] /\ cache = <<>> /\ rows = <<>> /\ faults = 0
      /\ runs = 0 /\ call = Free /\ answer = Nothing /\ asked = 0
  BY DEF ApiInit, Init
<1>6. ObjOK
  BY <1>4, <1>5, Constants DEF ObjOK
<1>7. PkgsOK
  BY <1>5, Constants DEF PkgsOK, Free
<1>8. \A m \in Monitors : ~Busy(m)
  BY <1>5 DEF Busy, At, Waiting
<1>9. DeliveredOK
  BY <1>5, <1>8, Constants DEF DeliveredOK
<1>10. MonitorsOK
  BY <1>5, <1>8 DEF MonitorsOK
<1>11. KeysOK
  BY <1>5, EmptyResult, NoListing DEF KeysOK
<1>12. CacheOK /\ RowsOK
  BY <1>5 DEF CacheOK, RowsOK
<1>13. CallOK
  BY <1>5 DEF CallOK, Calls, Free
<1>14. AnswerOK
  <2>1. 0 \in 0..Cardinality(Groups) /\ 0 \in 0..MaxLength
    BY Constants
  <2> QED
    BY <2>1, <1>5 DEF AnswerOK, Nothing
<1>15. \A g \in Groups : DistinctOK(g)
  BY <1>5, <1>8 DEF DistinctOK, Distinct
<1> QED
  BY <1>6, <1>7, <1>9, <1>10, <1>11, <1>12, <1>13, <1>14, <1>15 DEF AInv

LEMMA StepAInv == ASSUME AInv, NEW m \in Monitors, Step(m), UNCHANGED api PROVE AInv'
  BY ReadListAInv, CollateAInv, ExtendAInv, ProgressAInv, SetTaskAInv, DeleteMembersAInv,
     DeleteGroupAInv, PruneAInv, FindAInv, WriteAInv, AcknowledgeAInv DEF Step

LEMMA IdleAInv == ASSUME AInv, UNCHANGED allVars PROVE AInv'
<1>1. Grows /\ PkgsOK'
  BY SameGrows DEF allVars, vars
<1>2. KeysOK' /\ CacheOK' /\ RowsOK'
  BY <1>1, SameLists DEF allVars, vars
<1>3. ObjOK' /\ CallOK' /\ AnswerOK'
  BY <1>1, ApiKept DEF allVars, vars, AInv, ObjOK
<1> QED
  BY <1>1, <1>2, <1>3, ApiStep DEF allVars, vars

LEMMA NextAInv == ASSUME AInv, [ApiNext]_allVars PROVE AInv'
<1>1. CASE append
  BY <1>1, AppendAInv
<1>2. CASE SetOption
  BY <1>2, SetOptionAInv
<1>3. CASE run
  BY <1>3, RunTaskAInv, RunChainAInv, RunIterAInv DEF run
<1>4. CASE Ask
  BY <1>4, AskAInv
<1>5. CASE Elapse
  BY <1>5, ElapseAInv
<1>6. CASE Calling
  BY <1>6, PushAInv, CountedAInv, PollAInv, GetRowAInv, GetMembersAInv DEF Calling
<1>7. CASE Monitoring /\ UNCHANGED api
  BY <1>7, DeliverAInv, StepAInv, RaiseAInv, DieAInv DEF Monitoring
<1>8. CASE UNCHANGED allVars
  BY <1>8, IdleAInv
<1> QED
  BY <1>1, <1>2, <1>3, <1>4, <1>5, <1>6, <1>7, <1>8 DEF ApiNext

\* What the monitors and the program rely on throughout, whatever is delivered twice,
\* fails or dies: the types, what a monitor holds, what the key lists, the cache and the
\* table name, and what the object knows of its last run.
THEOREM ResultsInvariant == ApiSpec => []AInv
<1>1. ApiInit => AInv
  BY InitAInv
<1>2. AInv /\ [ApiNext]_allVars => AInv'
  BY NextAInv
<1> QED
  BY <1>1, <1>2, PTL DEF ApiSpec


\* A collated result is whole, however the monitors worked on the key list: its members
\* are different ones of as many as there are.
LEMMA MadeWhole == ASSUME AInv, NEW g \in Groups, NEW r, Made(g, r) PROVE Whole(g, r)
<1> DEFINE n == Len(r)
<1>1. /\ r \in Result /\ n \in Nat /\ n > 0 /\ DOMAIN r = 1..n /\ obj.kind = "Iter"
      /\ \A a \in 1..n : r[a] \in Members(g) /\ n = pkgs[r[a]].iter_count
  BY DEF Made, Result
<1>2. \A i \in Members(g) : /\ i \in DOMAIN pkgs /\ pkgs[i].run = g /\ pkgs[i].item \in 1..pkgs[i].iter_count
  BY <1>1 DEF Members, AInv, PkgsOK, PkgOK
<1>3. \A i, j \in Members(g) : /\ pkgs[i].iter_count = pkgs[j].iter_count
                               /\ pkgs[i].item = pkgs[j].item => i = j
  BY <1>1, <1>2 DEF AInv, PkgsOK
<1>4. \A i \in Members(g) : pkgs[i].iter_count = n
  BY <1>1, <1>3
<1>5. ASSUME Single(g), NEW i \in Members(g) PROVE i \in ToSet(r)
  <2> DEFINE f == [a \in 1..n |-> pkgs[r[a]].item]
  <2>1. f \in [1..n -> 1..n]
    BY <1>1, <1>2
  <2>2. \A a, b \in 1..n : f[a] = f[b] => a = b
    <3>1. Distinct(r)
      BY <1>5 DEF Made
    <3> QED
      BY <3>1, <1>1, <1>3 DEF Distinct
  <2>3. f \in Injection(1..n, 1..n)
    BY <2>1, <2>2 DEF Injection, IsInjective
  <2>4. IsFiniteSet(1..n)
    BY <1>1, FS_Interval
  <2>5. f \in Surjection(1..n, 1..n)
    BY <2>3, <2>4, FS_Injection
  <2>6. pkgs[i].item \in 1..n
    BY <1>2, <1>4, <1>5
  <2>7. PICK a \in 1..n : f[a] = pkgs[i].item
    BY <2>5, <2>6 DEF Surjection
  <2>8. r[a] = i
    BY <2>7, <1>1, <1>3, <1>5
  <2> QED
    BY <2>8, <1>1 DEF ToSet
<1> QED
  BY <1>4, <1>5 DEF Whole, Single

\* CollatedWhole: what the monitors collate has a part for every argument, and is made
\* of every member unless one was delivered twice.
THEOREM CollatedIsWhole == ApiSpec => []CollatedWhole
<1>1. ASSUME AInv PROVE CollatedWhole
  <2>1. ASSUME NEW g \in Groups PROVE -g < 0 /\ -(-g) = g /\ g \in Nat
    BY Constants
  <2>2. ASSUME NEW g \in Groups, -g \in DOMAIN cache PROVE Whole(g, cache[-g].result)
    <3>1. CachedOK(-g, cache[-g])
      BY <1>1, <2>2 DEF AInv, CacheOK
    <3>2. Made(g, cache[-g].result)
      BY <3>1, <2>1 DEF CachedOK
    <3> QED
      BY <1>1, <3>2, MadeWhole
  <2>3. ASSUME NEW g \in Groups, -g \in DOMAIN rows PROVE Whole(g, rows[-g].result)
    <3>1. RowOK(-g, rows[-g])
      BY <1>1, <2>3 DEF AInv, RowsOK
    <3>2. Made(g, rows[-g].result)
      BY <3>1, <2>1 DEF RowOK
    <3> QED
      BY <1>1, <3>2, MadeWhole
  <2> QED
    BY <2>2, <2>3 DEF CollatedWhole
<1> QED
  BY <1>1, ResultsInvariant, PTL

LEMMA NarrowSeq == ASSUME NEW S, NEW T, NEW s \in Seq(S), \A n \in DOMAIN s : s[n] \in T
               PROVE s \in Seq(T)
<1>1. s \in [1..Len(s) -> T] /\ Len(s) \in Nat
  <2>1. Len(s) \in Nat /\ DOMAIN s = 1..Len(s) /\ s \in [1..Len(s) -> S]
    OBVIOUS
  <2> QED
    BY <2>1
<1> QED
  BY <1>1

\* ApiTypeOK: the types of the object, its call and its answer.
THEOREM ResultsTypeOK == ApiSpec => []ApiTypeOK
<1>1. ASSUME AInv PROVE ApiTypeOK
  <2>1. TypeOK
    <3>1. keys \in [Groups -> Seq(DOMAIN pkgs)]
      <4>1. ASSUME NEW g \in Groups PROVE keys[g] \in Seq(DOMAIN pkgs)
        <5>1. keys[g] \in Seq(1..MaxPackages) /\ \A n \in DOMAIN keys[g] : keys[g][n] \in DOMAIN pkgs
          BY <1>1 DEF AInv, KeysOK, Listed, Result, Members
        <5> QED
          BY <5>1, NarrowSeq
      <4> QED
        BY <4>1, <1>1 DEF AInv, KeysOK
    <3>2. DOMAIN cache \subseteq Ids /\ Range(cache) \subseteq Stored
      BY <1>1 DEF AInv, CacheOK, CachedOK, Range
    <3>3. DOMAIN rows \subseteq Ids /\ Range(rows) \subseteq Row
      BY <1>1 DEF AInv, RowsOK, RowOK, Range
    <3>4. /\ conf \in Settings /\ args \subseteq Groups /\ faults \in 0..MaxFaults
          /\ pkgs \in Seq(Package) /\ Len(pkgs) <= MaxPackages
          /\ monitor \in [Monitors -> Task \cup {Waiting}]
          /\ delivered \in [1..MaxPackages -> 0..(MaxFaults + 1)]
          /\ failed \cup acked \subseteq {i \in DOMAIN pkgs : delivered[i] > 0}
      BY <1>1 DEF AInv, ObjOK, PkgsOK, DeliveredOK, MonitorsOK
    <3> QED
      BY <3>1, <3>2, <3>3, <3>4 DEF TypeOK
  <2>2. /\ call.pc \in {"free", "push", "count", "poll", "get", "members"}
    BY <1>1 DEF AInv, CallOK, Calls, Free
  <2>3. answer.value \in {"nothing", "results", "raised"} /\ answer.made \subseteq DOMAIN pkgs
    BY <1>1 DEF AInv, AnswerOK
  <2>4. runs \in 0..Cardinality(Groups) /\ asked \in 0..Asks
    BY <1>1 DEF AInv, ObjOK
  <2>5. obj \in Objects
    BY <1>1 DEF AInv, ObjOK
  <2> QED
    BY <2>1, <2>2, <2>3, <2>4, <2>5 DEF ApiTypeOK, Objects
<1> QED
  BY <1>1, ResultsInvariant, PTL

-----------------------------------------------------------------------------
\* The save limit.  Every success that a monitor is about to write counts: a monitor
\* that pruned has made room for its own row, or found the table below the limit and
\* at most the others between its look and its write.
Successes == {id \in DOMAIN rows : rows[id].success}
Saving == {m \in Monitors : (At(m, "find") \/ At(m, "write")) /\ monitor[m].success}

SaveInv ==
  (conf.SAVE_LIMIT > 0 /\ conf.SAVE_LIMIT_PER = "None") =>
    Cardinality(Successes) + Cardinality(Saving) <= conf.SAVE_LIMIT + Cardinality(Monitors) - 1

LEMMA SaveFinite == ASSUME AInv
                    PROVE /\ IsFiniteSet(Successes) /\ Cardinality(Successes) \in Nat
                          /\ IsFiniteSet(Saving) /\ Cardinality(Saving) \in Nat
                          /\ Cardinality(Saving) <= Cardinality(Monitors)
                          /\ Cardinality(Monitors) \in Nat /\ conf.SAVE_LIMIT \in Int
<1>1. IsFiniteSet(Ids)
  <2>1. -Cardinality(Groups) \in Int /\ MaxPackages \in Int
    BY Constants
  <2> QED
    BY <2>1, FS_Interval DEF Ids
<1>2. Successes \in SUBSET Ids
  BY DEF Successes, AInv, RowsOK, RowOK
<1>3. IsFiniteSet(Monitors) /\ Saving \in SUBSET Monitors
  BY Constants DEF Saving
<1>4. conf.SAVE_LIMIT \in Int
  BY ResultsAssumption, Constants DEF AInv, ObjOK
<1> QED
  BY <1>1, <1>2, <1>3, <1>4, FS_Subset, FS_CardinalityType

LEMMA SaveFiniteNext == ASSUME AInv'
                        PROVE /\ IsFiniteSet(Successes') /\ Cardinality(Successes') \in Nat
                              /\ IsFiniteSet(Saving') /\ Cardinality(Saving') \in Nat
                              /\ Cardinality(Saving') <= Cardinality(Monitors)
<1>1. IsFiniteSet(Ids)
  <2>1. -Cardinality(Groups) \in Int /\ MaxPackages \in Int
    BY Constants
  <2> QED
    BY <2>1, FS_Interval DEF Ids
<1>2. Successes' \in SUBSET Ids
  BY DEF Successes, AInv, RowsOK, RowOK
<1>3. IsFiniteSet(Monitors) /\ Saving' \in SUBSET Monitors
  BY Constants DEF Saving
<1> QED
  BY <1>1, <1>2, <1>3, FS_Subset, FS_CardinalityType

LEMMA SaveLess ==
  ASSUME AInv, AInv', SaveInv, conf' = conf, Successes' \subseteq Successes, Saving' \subseteq Saving
  PROVE SaveInv'
<1>1. Cardinality(Successes') <= Cardinality(Successes) /\ Cardinality(Saving') <= Cardinality(Saving)
  BY SaveFinite, FS_Subset
<1>2. /\ Cardinality(Successes') \in Nat /\ Cardinality(Saving') \in Nat
      /\ Cardinality(Successes) \in Nat /\ Cardinality(Saving) \in Nat
      /\ Cardinality(Monitors) \in Nat /\ conf.SAVE_LIMIT \in Int
  BY SaveFinite, SaveFiniteNext
<1> QED
  BY <1>1, <1>2 DEF SaveInv

\* A step of one monitor, and what it leaves of its task.
LEMMA MoveIs ==
  ASSUME AInv, NEW m \in Monitors, Busy(m), NEW pc, Move(m, pc)
  PROVE /\ monitor'[m] = [monitor[m] EXCEPT !.pc = pc]
        /\ monitor'[m].pc = pc /\ monitor'[m].name = monitor[m].name /\ monitor'[m].id = monitor[m].id
        /\ monitor'[m].success = monitor[m].success /\ monitor'[m].group_list = monitor[m].group_list
        /\ \A n \in Monitors : n # m => monitor'[n] = monitor[n]
<1>1. monitor[m] \in Task /\ monitor \in [Monitors -> Task \cup {Waiting}]
  BY DEF AInv, MonitorsOK, TaskOK
<1>2. monitor' = [monitor EXCEPT ![m] = [monitor[m] EXCEPT !.pc = pc]]
  BY DEF Move
<1>3. PICK u : u = [monitor[m] EXCEPT !.pc = pc]
  OBVIOUS
<1>4. /\ u.pc = pc /\ u.name = monitor[m].name /\ u.id = monitor[m].id
      /\ u.success = monitor[m].success /\ u.group_list = monitor[m].group_list
  BY <1>1, <1>3 DEF Task
<1>5. monitor'[m] = u /\ \A n \in Monitors : n # m => monitor'[n] = monitor[n]
  BY <1>1, <1>2, <1>3
<1> QED
  BY <1>3, <1>4, <1>5


\* What the program does not touch.
Talk == append \/ SetOption \/ run \/ Ask \/ Elapse \/ Calling

LEMMA TalkFrame ==
  ASSUME Talk
  PROVE /\ UNCHANGED <<conf, delivered, failed, acked, monitor, faults>>
        /\ append \/ UNCHANGED <<keys, cache, rows>>
        /\ run \/ call.pc = "push" \/ UNCHANGED <<pkgs, args>>
<1>1. CASE append
  BY <1>1 DEF append
<1>2. CASE SetOption
  BY <1>2 DEF SetOption, vars
<1>3. CASE run
  BY <1>3 DEF run
<1>4. CASE Ask
  BY <1>4 DEF Ask, vars
<1>5. CASE Elapse
  BY <1>5 DEF Elapse, vars
<1>6. CASE Calling
  <2>1. CASE Push
    BY <2>1 DEF Push
  <2>2. CASE Counted
    BY <2>2 DEF Counted, vars
  <2>3. CASE Poll
    BY <2>3 DEF Poll, vars
  <2>4. CASE GetRow
    BY <2>4 DEF GetRow, vars
  <2>5. CASE GetMembers
    BY <2>5 DEF GetMembers, vars
  <2> QED
    BY <1>6, <2>1, <2>2, <2>3, <2>4, <2>5 DEF Calling
<1> QED
  BY <1>1, <1>2, <1>3, <1>4, <1>5, <1>6 DEF Talk

\* A monitor moves on: it does not come to find or write.
LEMMA SavingLess ==
  ASSUME AInv, NEW m \in Monitors, \A n \in Monitors : n # m => monitor'[n] = monitor[n],
         monitor'[m].pc \notin {"find", "write"} \/ (Saving = Saving \cup {m})
  PROVE Saving' \subseteq Saving
  BY DEF Saving, At

LEMMA RaiseIs ==
  ASSUME AInv, NEW m \in Monitors, Raise(m) \/ Die(m)
  PROVE /\ \A n \in Monitors : n # m => monitor'[n] = monitor[n]
        /\ monitor'[m].pc \in {"get", "delete", "acknowledge"}
        /\ faults' > 0 /\ faults' = faults + 1 /\ faults \in Nat
        /\ UNCHANGED <<conf, pkgs, delivered, failed, acked, keys, args, cache, rows>>
<1>1. Busy(m) /\ monitor \in [Monitors -> Task \cup {Waiting}]
  BY DEF Raise, Die, Busy, AInv, MonitorsOK
<1>2. faults' = faults + 1 /\ faults \in Nat /\ faults' > 0
  BY Constants DEF Raise, Die, Fault, AInv, ObjOK
<1>3. UNCHANGED <<conf, pkgs, delivered, failed, acked, keys, args, cache, rows>>
  BY DEF Raise, Die
<1>4. CASE monitor' = [monitor EXCEPT ![m] = Waiting]
  BY <1>1, <1>2, <1>3, <1>4 DEF Waiting
<1>5. CASE monitor' # [monitor EXCEPT ![m] = Waiting]
  <2>1. PICK pc : Move(m, pc) /\ pc \in {"delete", "acknowledge"}
    BY <1>5 DEF Raise, Die, After
  <2> QED
    BY <1>1, <1>2, <1>3, <2>1, MoveIs
<1> QED
  BY <1>4, <1>5

LEMMA DeliverIs ==
  ASSUME AInv, NEW m \in Monitors, NEW i \in DOMAIN pkgs, NEW success \in BOOLEAN,
         Deliver(m, i, success)
  PROVE /\ ~Busy(m) /\ \A n \in Monitors : n # m => monitor'[n] = monitor[n]
        /\ monitor'[m].pc = IF pkgs[i].cached THEN "list"
                            ELSE IF conf.SAVE_LIMIT < 0 /\ success THEN "acknowledge"
                            ELSE IF pkgs[i].chain > 0 THEN "chain" ELSE "prune"
        /\ monitor'[m].name = i /\ monitor'[m].id = i /\ monitor'[m].group_list = <<>>
        /\ i \in 1..MaxPackages /\ delivered[i] \in Nat /\ delivered'[i] = delivered[i] + 1
        /\ \A j \in 1..MaxPackages : j # i => delivered'[j] = delivered[j]
        /\ delivered[i] # 0 => faults' > 0
        /\ delivered[i] = 0 => faults' = faults
        /\ UNCHANGED <<conf, pkgs, acked, keys, args, cache, rows>>
<1> DEFINE t == [pc |-> "list", name |-> i, id |-> i, success |-> success, result |-> <<i>>,
                 group_list |-> <<>>, task_obj |-> NoRow]
<1>1. i \in 1..MaxPackages /\ i \in Nat /\ i > 0
  BY Constants DEF AInv, PkgsOK
<1>2. ~Busy(m) /\ monitor \in [Monitors -> Task \cup {Waiting}]
  BY DEF Deliver, Busy, AInv, MonitorsOK
<1>3. PICK u : u = [t EXCEPT !.pc = Begin(t, pkgs[i])]
  OBVIOUS
<1>4. /\ u.name = i /\ u.id = i /\ u.group_list = <<>>
      /\ u.pc = IF pkgs[i].cached THEN "list"
                ELSE IF conf.SAVE_LIMIT < 0 /\ success THEN "acknowledge"
                ELSE IF pkgs[i].chain > 0 THEN "chain" ELSE "prune"
  BY <1>1, <1>3 DEF Begin, save_task, After, Collated
<1>5. monitor' = [monitor EXCEPT ![m] = u]
  BY <1>3 DEF Deliver
<1>6. monitor'[m] = u /\ \A n \in Monitors : n # m => monitor'[n] = monitor[n]
  BY <1>2, <1>5
<1>7. /\ delivered[i] \in Nat /\ delivered'[i] = delivered[i] + 1
      /\ \A j \in 1..MaxPackages : j # i => delivered'[j] = delivered[j]
  BY <1>1, Constants DEF Deliver, AInv, DeliveredOK
<1>8. /\ delivered[i] # 0 => faults' > 0
      /\ delivered[i] = 0 => faults' = faults
  BY Constants DEF Deliver, Fault, AInv, ObjOK
<1>9. UNCHANGED <<conf, pkgs, acked, keys, args, cache, rows>>
  BY DEF Deliver
<1> QED
  BY <1>1, <1>2, <1>4, <1>6, <1>7, <1>8, <1>9

LEMMA CollateIs ==
  ASSUME AInv, NEW m \in Monitors, Collate(m)
  PROVE /\ \A n \in Monitors : n # m => monitor'[n] = monitor[n]
        /\ monitor'[m].pc \in {"set", "delete", "prune", "acknowledge"}
        /\ monitor'[m].name = monitor[m].name /\ monitor'[m].group_list = monitor[m].group_list
        /\ monitor'[m].pc # "acknowledge" =>
             /\ ToSet(monitor[m].group_list) \subseteq DOMAIN cache /\ Of(m).group \in args
             /\ monitor'[m].id = -Of(m).group
        /\ (ToSet(monitor[m].group_list) \subseteq DOMAIN cache /\ Of(m).group \in args)
             => monitor'[m].pc # "acknowledge"
        /\ monitor'[m].pc = "acknowledge" => monitor'[m].id = monitor[m].id
        /\ UNCHANGED <<conf, pkgs, delivered, failed, acked, keys, args, cache, rows, faults>>
<1> DEFINE t == monitor[m]
           p == pkgs[t.name]
           h == p.group
<1>1. Busy(m) /\ TaskOK(t) /\ t.pc = "collate" /\ t \in Task
  BY DEF Collate, AInv, MonitorsOK, Busy, At, TaskOK
<1>2. UNCHANGED <<conf, pkgs, delivered, failed, acked, keys, args, cache, rows, faults>>
  BY DEF Collate
<1>3. CASE ~(ToSet(t.group_list) \subseteq DOMAIN cache /\ Of(m).group \in args)
  <2>1. Move(m, "acknowledge")
    BY <1>3 DEF Collate
  <2> QED
    BY <1>1, <1>2, <1>3, <2>1, MoveIs
<1>4. CASE ToSet(t.group_list) \subseteq DOMAIN cache /\ Of(m).group \in args
  <2>1. PICK r, k : /\ r = [n \in DOMAIN t.group_list |-> Head(cache[t.group_list[n]].result)] \o t.result
                    /\ k = -h
    OBVIOUS
  <2>2. PICK w : w = [t EXCEPT !.id = k, !.result = r]
    OBVIOUS
  <2>3. w.name = t.name /\ w.id = k /\ w.group_list = t.group_list
    BY <1>1, <2>2 DEF Task
  <2>4. PICK pc : /\ pc = IF Of(m).iter_cached THEN "set" ELSE save_task(w, Of(m))
                  /\ monitor' = [monitor EXCEPT ![m] = [w EXCEPT !.pc = pc]]
    BY <1>4, <2>1, <2>2 DEF Collate, Of
  <2>5. obj.kind = "Iter" /\ Of(m).chain = 0 /\ h \in Nat /\ h > 0
    <3>1. PkgOK(p) /\ h \in Groups /\ p \in Package /\ Ready(p, t.group_list)
      BY <1>1, TaskPkg DEF TaskOK
    <3>2. p.iter_count # 0
      BY <3>1 DEF Ready, Package
    <3> QED
      BY <3>1, <3>2, Constants DEF PkgOK, Of
  <2>6. pc \in {"set", "delete", "prune"}
    <3>1. k = -h
      BY <2>1
    <3>2. Collated(w)
      BY <3>1, <2>3, <2>5 DEF Collated
    <3> QED
      BY <3>2, <2>4, <2>5 DEF save_task, After
  <2>7. PICK u : u = [w EXCEPT !.pc = pc]
    OBVIOUS
  <2>8. u.pc = pc /\ u.name = t.name /\ u.id = k /\ u.group_list = t.group_list
    BY <1>1, <2>2, <2>3, <2>7 DEF Task
  <2>9. monitor'[m] = u /\ \A n \in Monitors : n # m => monitor'[n] = monitor[n]
    BY <2>4, <2>7 DEF AInv, MonitorsOK
  <2> QED
    BY <1>2, <1>4, <2>1, <2>6, <2>8, <2>9 DEF Of
<1> QED
  BY <1>3, <1>4

LEMMA ReadListIs ==
  ASSUME AInv, NEW m \in Monitors, ReadList(m)
  PROVE /\ \A n \in Monitors : n # m => monitor'[n] = monitor[n]
        /\ monitor'[m].pc = IF Ready(Of(m), keys[Of(m).group]) THEN "collate" ELSE "extend"
        /\ monitor'[m].name = monitor[m].name /\ monitor'[m].id = monitor[m].id
        /\ monitor'[m].group_list = keys[Of(m).group]
        /\ UNCHANGED <<conf, pkgs, delivered, failed, acked, keys, args, cache, rows, faults>>
<1> DEFINE t == monitor[m]
<1>1. t \in Task /\ monitor \in [Monitors -> Task \cup {Waiting}]
  BY DEF ReadList, AInv, MonitorsOK, Busy, At, TaskOK
<1>2. PICK u : u = [t EXCEPT !.group_list = keys[Of(m).group],
                             !.pc = IF Ready(Of(m), keys[Of(m).group]) THEN "collate" ELSE "extend"]
  OBVIOUS
<1>3. /\ u.pc = (IF Ready(Of(m), keys[Of(m).group]) THEN "collate" ELSE "extend")
      /\ u.name = t.name /\ u.id = t.id /\ u.group_list = keys[Of(m).group]
  BY <1>1, <1>2 DEF Task
<1>4. monitor' = [monitor EXCEPT ![m] = u]
  BY <1>2 DEF ReadList
<1>5. monitor'[m] = u /\ \A n \in Monitors : n # m => monitor'[n] = monitor[n]
  BY <1>1, <1>4
<1>6. UNCHANGED <<conf, pkgs, delivered, failed, acked, keys, args, cache, rows, faults>>
  BY DEF ReadList
<1> QED
  BY <1>3, <1>5, <1>6

LEMMA FindIs ==
  ASSUME AInv, NEW m \in Monitors, Find(m)
  PROVE /\ \A n \in Monitors : n # m => monitor'[n] = monitor[n]
        /\ monitor'[m].pc = "write" /\ monitor'[m].success = monitor[m].success
        /\ monitor'[m].name = monitor[m].name /\ monitor'[m].id = monitor[m].id
        /\ monitor'[m].group_list = monitor[m].group_list
        /\ monitor'[m].task_obj = NoRow \/ monitor[m].id \in DOMAIN rows
        /\ UNCHANGED <<conf, pkgs, delivered, failed, acked, keys, args, cache, rows, faults>>
<1> DEFINE t == monitor[m]
<1>1. t \in Task /\ monitor \in [Monitors -> Task \cup {Waiting}]
  BY DEF Find, AInv, MonitorsOK, Busy, At, TaskOK
<1>2. PICK r : r = IF t.id \in DOMAIN rows /\ rows[t.id].name = t.name THEN rows[t.id] ELSE NoRow
  OBVIOUS
<1>3. PICK u : u = [t EXCEPT !.pc = "write", !.task_obj = r]
  OBVIOUS
<1>4. /\ u.pc = "write" /\ u.name = t.name /\ u.id = t.id /\ u.group_list = t.group_list
      /\ u.success = t.success /\ u.task_obj = r
  BY <1>1, <1>3 DEF Task
<1>5. monitor' = [monitor EXCEPT ![m] = u]
  BY <1>2, <1>3 DEF Find
<1>6. monitor'[m] = u /\ \A n \in Monitors : n # m => monitor'[n] = monitor[n]
  BY <1>1, <1>5
<1>7. UNCHANGED <<conf, pkgs, delivered, failed, acked, keys, args, cache, rows, faults>>
  BY DEF Find
<1> QED
  BY <1>2, <1>4, <1>6, <1>7


LEMMA TaskAt == ASSUME AInv, NEW m \in Monitors, Busy(m)
                PROVE TaskOK(monitor[m]) /\ monitor[m] \in Task
  BY DEF AInv, MonitorsOK, TaskOK

LEMMA PruneSave == ASSUME AInv, AInv', SaveInv, NEW m \in Monitors, Prune(m) PROVE SaveInv'
<1> DEFINE t == monitor[m]
<1> SUFFICES ASSUME conf.SAVE_LIMIT > 0, conf.SAVE_LIMIT_PER = "None"
             PROVE Cardinality(Successes') + Cardinality(Saving')
                     <= conf.SAVE_LIMIT + Cardinality(Monitors) - 1
  BY DEF SaveInv, Prune
<1>1. Busy(m) /\ t.pc = "prune" /\ conf' = conf
  BY DEF Prune, Busy, At
<1>2. /\ monitor'[m].pc = "find" /\ monitor'[m].success = t.success
      /\ \A n \in Monitors : n # m => monitor'[n] = monitor[n]
  BY <1>1, MoveIs DEF Prune
<1>3. Saving' = IF t.success THEN Saving \cup {m} ELSE Saving
  BY <1>1, <1>2 DEF Saving, At
<1>4. m \notin Saving
  BY <1>1 DEF Saving, At
<1>5. /\ IsFiniteSet(Successes) /\ Cardinality(Successes) \in Nat
      /\ IsFiniteSet(Saving) /\ Cardinality(Saving) \in Nat
      /\ Cardinality(Saving) <= Cardinality(Monitors)
      /\ Cardinality(Monitors) \in Nat /\ conf.SAVE_LIMIT \in Int
      /\ Cardinality(Saving') <= Cardinality(Monitors) /\ Cardinality(Saving') \in Nat
  BY SaveFinite, SaveFiniteNext
<1>6. Cardinality(Successes) + Cardinality(Saving) <= conf.SAVE_LIMIT + Cardinality(Monitors) - 1
  BY DEF SaveInv
<1>7. Cardinality(Saving') <= Cardinality(Saving) + 1
  <2>1. Cardinality(Saving \cup {m}) = Cardinality(Saving) + 1
    BY <1>4, <1>5, FS_AddElement
  <2> QED
    BY <2>1, <1>3, <1>5
<1>8. Peers(t) = Successes
  BY DEF Peers, Successes
<1>9. CASE Surplus(t)
  <2>1. PICK id \in Successes : rows' = Drop(rows, {id})
    BY <1>8, <1>9 DEF Prune
  <2>2. Successes' = Successes \ {id}
    BY <2>1 DEF Successes, Drop, Restrict
  <2>3. Cardinality(Successes') = Cardinality(Successes) - 1
    BY <2>1, <2>2, <1>5, FS_RemoveElement
  <2> QED
    BY <2>3, <1>5, <1>6, <1>7
<1>10. CASE ~Surplus(t)
  <2>1. Successes' = Successes
    BY <1>10 DEF Prune, Successes
  <2>2. CASE t.success
    <3>1. Cardinality(Successes) < conf.SAVE_LIMIT
      BY <1>5, <1>8, <1>10, <2>2 DEF Surplus
    <3> QED
      BY <3>1, <2>1, <1>5
  <2>3. CASE ~t.success
    BY <2>1, <2>3, <1>3, <1>6
  <2> QED
    BY <2>2, <2>3
<1> QED
  BY <1>9, <1>10

LEMMA WriteSave == ASSUME AInv, AInv', SaveInv, NEW m \in Monitors, Write(m) PROVE SaveInv'
<1> DEFINE t == monitor[m]
<1>1. Busy(m) /\ t.pc = "write" /\ conf' = conf /\ t \in Task
  BY TaskAt DEF Write, Busy, At
<1>2. PICK pc : pc = After(t) /\ Move(m, pc) /\ pc \in {"delete", "acknowledge"}
  BY DEF Write, After
<1>3. monitor'[m].pc = pc /\ \A n \in Monitors : n # m => monitor'[n] = monitor[n]
  BY <1>1, <1>2, MoveIs
<1>4. Saving' = Saving \ {m}
  BY <1>2, <1>3 DEF Saving, At
<1>5. Successes' \subseteq Successes \cup {t.id} /\ (~t.success => Successes' \subseteq Successes)
  <2>1. PICK new : new = [name |-> t.name, group |-> IF Collated(t) THEN 0 ELSE Of(m).group,
                          success |-> t.success, result |-> t.result]
    OBVIOUS
  <2>2. \/ rows' = rows
        \/ rows' = Put(rows, t.id, new)
        \/ rows' = Put(rows, t.id, [new EXCEPT !.group = t.task_obj.group])
    BY <2>1 DEF Write
  <2>3. new.success = t.success /\ [new EXCEPT !.group = t.task_obj.group].success = t.success
    BY <2>1
  <2>4. CASE rows' = rows
    BY <2>4 DEF Successes
  <2>5. ASSUME NEW d, d.success = t.success, rows' = Put(rows, t.id, d)
        PROVE Successes' \subseteq Successes \cup {t.id} /\ (~t.success => Successes' \subseteq Successes)
    <3>1. \A x \in Successes' : x # t.id => x \in Successes
      BY <2>5 DEF Successes, Put
    <3>2. t.id \in DOMAIN rows' /\ rows'[t.id] = d
      BY <2>5 DEF Put
    <3>3. t.id \in Successes' => t.success
      BY <2>5, <3>2, Zenon DEF Successes
    <3> QED
      BY <3>1, <3>3
  <2> QED
    BY <2>2, <2>3, <2>4, <2>5
<1>6. CASE ~t.success
  BY <1>1, <1>4, <1>5, <1>6, SaveLess
<1>7. CASE t.success
  <2>1. m \in Saving
    BY <1>1, <1>7 DEF Saving, At
  <2>2. /\ IsFiniteSet(Successes) /\ Cardinality(Successes) \in Nat
        /\ IsFiniteSet(Saving) /\ Cardinality(Saving) \in Nat
        /\ Cardinality(Monitors) \in Nat /\ conf.SAVE_LIMIT \in Int
        /\ Cardinality(Successes') \in Nat
    BY SaveFinite, SaveFiniteNext
  <2>3. Cardinality(Saving') = Cardinality(Saving) - 1
    BY <2>1, <2>2, <1>4, FS_RemoveElement
  <2>4. Cardinality(Successes') <= Cardinality(Successes) + 1
    <3>1. /\ IsFiniteSet(Successes \cup {t.id})
          /\ Cardinality(Successes \cup {t.id}) = IF t.id \in Successes THEN Cardinality(Successes)
                                                 ELSE Cardinality(Successes) + 1
      <4>1. IsFiniteSet(Successes)
        BY <2>2
      <4> QED
        BY <4>1, FS_AddElement
    <3>2. Cardinality(Successes') <= Cardinality(Successes \cup {t.id})
      BY <3>1, <1>5, FS_Subset
    <3>3. Cardinality(Successes \cup {t.id}) \in Nat
      BY <3>1, FS_CardinalityType
    <3> QED
      BY <3>1, <3>2, <3>3, <2>2
  <2> QED
    BY <2>2, <2>3, <2>4, <1>1 DEF SaveInv
<1> QED
  BY <1>6, <1>7

LEMMA SaveStep ==
  ASSUME AInv, AInv', SaveInv, NEW m \in Monitors, Step(m)
  PROVE SaveInv'
<1>1. CASE Prune(m)
  BY <1>1, PruneSave
<1>2. CASE Write(m)
  BY <1>2, WriteSave
<1>3. CASE Find(m)
  <2>1. Saving' = Saving
    BY <1>3, FindIs DEF Saving, At, Find
  <2> QED
    BY <2>1, <1>3, FindIs, SaveLess DEF Successes
<1>4. CASE ReadList(m)
  <2>1. Saving' \subseteq Saving
    BY <1>4, ReadListIs, SavingLess
  <2> QED
    BY <2>1, <1>4, ReadListIs, SaveLess DEF Successes
<1>5. CASE Collate(m)
  <2>1. Saving' \subseteq Saving
    BY <1>5, CollateIs, SavingLess
  <2> QED
    BY <2>1, <1>5, CollateIs, SaveLess DEF Successes
<1>6. CASE Extend(m) \/ SetTask(m) \/ DeleteMembers(m) \/ DeleteGroup(m)
  <2>1. PICK pc \in {"chain", "set", "delete", "forget", "acknowledge"} : Move(m, pc)
    BY <1>6 DEF Extend, SetTask, DeleteMembers, DeleteGroup, After
  <2>2. Busy(m)
    BY <1>6 DEF Extend, SetTask, DeleteMembers, DeleteGroup, At, Busy
  <2>3. Saving' \subseteq Saving
    BY <2>1, <2>2, MoveIs, SavingLess
  <2>4. rows' = rows /\ conf' = conf
    BY <1>6 DEF Extend, SetTask, DeleteMembers, DeleteGroup
  <2> QED
    BY <2>3, <2>4, SaveLess DEF Successes
<1>7. CASE Progress(m)
  <2>1. PICK pc \in {"set", "prune"} : Move(m, pc)
    BY <1>7 DEF Progress
  <2>2. Busy(m)
    BY <1>7 DEF Progress, At, Busy
  <2>3. Saving' \subseteq Saving
    BY <2>1, <2>2, MoveIs, SavingLess
  <2>4. rows' = rows /\ conf' = conf
    BY <1>7 DEF Progress
  <2> QED
    BY <2>3, <2>4, SaveLess DEF Successes
<1>8. CASE Acknowledge(m)
  <2>1. monitor' = [monitor EXCEPT ![m] = Waiting] /\ rows' = rows /\ conf' = conf
    BY <1>8 DEF Acknowledge
  <2>2. monitor'[m].pc = "get" /\ \A n \in Monitors : n # m => monitor'[n] = monitor[n]
    BY <2>1 DEF Waiting, AInv, MonitorsOK
  <2>3. Saving' \subseteq Saving
    BY <2>2, SavingLess
  <2> QED
    BY <2>1, <2>3, SaveLess DEF Successes
<1> QED
  BY <1>1, <1>2, <1>3, <1>4, <1>5, <1>6, <1>7, <1>8 DEF Step

\* SaveLimitNearlyKept: more successes than SAVE_LIMIT, but one for each other monitor
\* at the most.
THEOREM SaveLimitIsNearlyKept == ApiSpec => []SaveLimitNearlyKept
<1>1. ApiInit => SaveInv
  <2> SUFFICES ASSUME ApiInit PROVE SaveInv
    OBVIOUS
  <2>1. Successes = {} /\ Saving = {}
    BY DEF ApiInit, Init, Successes, Saving, At, Waiting
  <2>2. AInv
    BY InitAInv
  <2>3. Cardinality(Monitors) \in Nat /\ conf.SAVE_LIMIT \in Int
    BY <2>2, SaveFinite
  <2> QED
    BY <2>1, <2>3, FS_EmptySet DEF SaveInv
<1>2. AInv /\ AInv' /\ SaveInv /\ [ApiNext]_allVars => SaveInv'
  <2> SUFFICES ASSUME AInv, AInv', SaveInv, [ApiNext]_allVars PROVE SaveInv'
    OBVIOUS
  <2>1. CASE Talk
    <3>1. Saving' = Saving /\ conf' = conf
      BY <2>1, TalkFrame DEF Saving, At
    <3>2. Successes' = Successes
      <4>1. CASE append
        <5>1. \/ rows' = rows
              \/ rows' = [id \in DOMAIN rows |-> IF rows[id].group = obj.group
                                                 THEN [rows[id] EXCEPT !.group = 0] ELSE rows[id]]
          BY <4>1 DEF append, AppendArguments, AppendLink, delete_group
        <5>2. ASSUME NEW id \in DOMAIN rows
              PROVE [rows[id] EXCEPT !.group = 0].success = rows[id].success
          <6>1. rows[id] \in Row
            BY DEF AInv, RowsOK, RowOK
          <6> QED
            BY <6>1 DEF Row
        <5> QED
          BY <5>1, <5>2 DEF Successes
      <4>2. CASE rows' = rows
        BY <4>2 DEF Successes
      <4> QED
        BY <2>1, <4>1, <4>2, TalkFrame
    <3> QED
      BY <3>1, <3>2, SaveLess
  <2>2. CASE Monitoring
    <3>1. PICK m \in Monitors : \/ \E i \in DOMAIN pkgs, success \in BOOLEAN : Deliver(m, i, success)
                                \/ Step(m) \/ Raise(m) \/ Die(m)
      BY <2>2 DEF Monitoring
    <3>2. CASE \E i \in DOMAIN pkgs, success \in BOOLEAN : Deliver(m, i, success)
      <4>1. /\ \A n \in Monitors : n # m => monitor'[n] = monitor[n]
            /\ monitor'[m].pc \notin {"find", "write"}
            /\ rows' = rows /\ conf' = conf
        BY <3>2, DeliverIs
      <4>2. Saving' \subseteq Saving
        BY <4>1, SavingLess
      <4> QED
        BY <4>1, <4>2, SaveLess DEF Successes
    <3>3. CASE Step(m)
      BY <3>3, SaveStep
    <3>4. CASE Raise(m) \/ Die(m)
      <4>1. Saving' \subseteq Saving
        BY <3>4, RaiseIs, SavingLess
      <4> QED
        BY <3>4, <4>1, RaiseIs, SaveLess DEF Successes
    <3> QED
      BY <3>1, <3>2, <3>3, <3>4
  <2>3. CASE UNCHANGED allVars
    BY <2>3 DEF allVars, vars, SaveInv, Successes, Saving, At
  <2> QED
    BY <2>1, <2>2, <2>3 DEF ApiNext, Talk
<1>3. AInv /\ SaveInv => SaveLimitNearlyKept
  <2> SUFFICES ASSUME AInv, SaveInv, conf.SAVE_LIMIT > 0, conf.SAVE_LIMIT_PER = "None"
               PROVE Cardinality(Successes) <= conf.SAVE_LIMIT + Cardinality(Monitors) - 1
    BY DEF SaveLimitNearlyKept, Successes
  <2> QED
    BY SaveFinite DEF SaveInv
<1> QED
  BY <1>1, <1>2, <1>3, ResultsInvariant, PTL DEF ApiSpec


-----------------------------------------------------------------------------
\* The links of a chain.  A delivery of a link pays for the next link, or for the
\* monitor that is about to enqueue it.
LinkOf(r, n) == {j \in DOMAIN pkgs : pkgs[j].run = r /\ pkgs[j].item = n}
DeliveriesOf(r, n) == {d \in LinkOf(r, n) \X (1..(MaxFaults + 1)) : d[2] <= delivered[d[1]]}
AboutTo(r, n) == {m \in Monitors : /\ monitor[m].pc \in {"list", "collate", "extend", "chain"}
                                   /\ monitor[m].name \in LinkOf(r, n)}
Paid(r, n) ==
  Cardinality(LinkOf(r, n + 1)) + Cardinality(AboutTo(r, n)) <= Cardinality(DeliveriesOf(r, n))
SameEnd == \A i, j \in DOMAIN pkgs :
  pkgs[i].run = pkgs[j].run => pkgs[i].item + pkgs[i].chain = pkgs[j].item + pkgs[j].chain
ChainInv == obj.kind = "Chain" => /\ \A r \in Groups, n \in Nat \ {0} : Paid(r, n)
                                  /\ SameEnd

LEMMA LinksFinite ==
  ASSUME AInv, NEW r, NEW n
  PROVE IsFiniteSet(LinkOf(r, n)) /\ IsFiniteSet(DeliveriesOf(r, n)) /\ IsFiniteSet(AboutTo(r, n))
<1>1. LinkOf(r, n) \in SUBSET (1..MaxPackages)
  BY Constants DEF LinkOf, AInv, PkgsOK
<1>2. IsFiniteSet(1..MaxPackages) /\ IsFiniteSet(1..(MaxFaults + 1))
  BY Constants, FS_Interval
<1>3. IsFiniteSet(LinkOf(r, n))
  BY <1>1, <1>2, FS_Subset
<1>4. IsFiniteSet(LinkOf(r, n) \X (1..(MaxFaults + 1)))
  BY <1>2, <1>3, FS_Product
<1>5. IsFiniteSet(DeliveriesOf(r, n))
  BY <1>4, FS_Subset DEF DeliveriesOf
<1>6. IsFiniteSet(AboutTo(r, n))
  BY Constants, FS_Subset DEF AboutTo
<1> QED
  BY <1>3, <1>5, <1>6

LEMMA LinksFiniteNext ==
  ASSUME AInv', NEW r, NEW n
  PROVE IsFiniteSet(LinkOf(r, n)') /\ IsFiniteSet(DeliveriesOf(r, n)') /\ IsFiniteSet(AboutTo(r, n)')
<1>1. LinkOf(r, n)' \in SUBSET (1..MaxPackages)
  BY Constants DEF LinkOf, AInv, PkgsOK
<1>2. IsFiniteSet(1..MaxPackages) /\ IsFiniteSet(1..(MaxFaults + 1))
  BY Constants, FS_Interval
<1>3. IsFiniteSet(LinkOf(r, n)')
  BY <1>1, <1>2, FS_Subset
<1>4. IsFiniteSet(LinkOf(r, n)' \X (1..(MaxFaults + 1)))
  BY <1>2, <1>3, FS_Product
<1>5. IsFiniteSet(DeliveriesOf(r, n)')
  BY <1>4, FS_Subset DEF DeliveriesOf
<1>6. IsFiniteSet(AboutTo(r, n)')
  BY Constants, FS_Subset DEF AboutTo
<1> QED
  BY <1>3, <1>5, <1>6

LEMMA AddOne ==
  ASSUME NEW S, IsFiniteSet(S), NEW x
  PROVE IsFiniteSet(S \cup {x}) /\ Cardinality(S \cup {x}) <= Cardinality(S) + 1
<1>1. Cardinality(S) \in Nat
  BY FS_CardinalityType
<1>2. CASE x \in S
  <2>1. PICK T : T = S \cup {x}
    OBVIOUS
  <2>2. T = S
    BY <1>2, <2>1
  <2>3. Cardinality(T) <= Cardinality(S) + 1
    BY <1>1, <2>2
  <2> QED
    BY <2>1, <2>2, <2>3
<1>3. CASE x \notin S
  <2>1. IsFiniteSet(S \cup {x}) /\ Cardinality(S \cup {x}) = Cardinality(S) + 1
    BY <1>3, FS_AddElement
  <2> QED
    BY <1>1, <2>1
<1> QED
  BY <1>2, <1>3

\* Neither a link nor a monitor more.
LEMMA PaidStill ==
  ASSUME AInv, AInv', NEW r, NEW n, Paid(r, n),
         LinkOf(r, n + 1)' \subseteq LinkOf(r, n + 1), AboutTo(r, n)' \subseteq AboutTo(r, n),
         DeliveriesOf(r, n) \subseteq DeliveriesOf(r, n)'
  PROVE Paid(r, n)'
<1>1. /\ Cardinality(LinkOf(r, n + 1)') <= Cardinality(LinkOf(r, n + 1))
      /\ Cardinality(AboutTo(r, n)') <= Cardinality(AboutTo(r, n))
      /\ Cardinality(DeliveriesOf(r, n)) <= Cardinality(DeliveriesOf(r, n)')
  BY LinksFinite, LinksFiniteNext, FS_Subset
<1>2. /\ Cardinality(LinkOf(r, n + 1)') \in Nat /\ Cardinality(LinkOf(r, n + 1)) \in Nat
      /\ Cardinality(AboutTo(r, n)') \in Nat /\ Cardinality(AboutTo(r, n)) \in Nat
      /\ Cardinality(DeliveriesOf(r, n)) \in Nat /\ Cardinality(DeliveriesOf(r, n)') \in Nat
  BY LinksFinite, LinksFiniteNext, FS_CardinalityType
<1> QED
  BY <1>1, <1>2 DEF Paid

\* The monitor that was about to enqueue a link has done so.
LEMMA PaidOff ==
  ASSUME AInv, AInv', NEW r, NEW n, Paid(r, n), NEW k, NEW m \in AboutTo(r, n),
         LinkOf(r, n + 1)' \subseteq LinkOf(r, n + 1) \cup {k},
         AboutTo(r, n)' \subseteq AboutTo(r, n) \ {m},
         DeliveriesOf(r, n) \subseteq DeliveriesOf(r, n)'
  PROVE Paid(r, n)'
<1>1. /\ IsFiniteSet(LinkOf(r, n + 1)) /\ IsFiniteSet(AboutTo(r, n)) /\ IsFiniteSet(DeliveriesOf(r, n)')
  BY LinksFinite, LinksFiniteNext
<1>2. /\ IsFiniteSet(LinkOf(r, n + 1) \cup {k})
      /\ Cardinality(LinkOf(r, n + 1) \cup {k}) <= Cardinality(LinkOf(r, n + 1)) + 1
  BY <1>1, AddOne
<1>3. /\ IsFiniteSet(AboutTo(r, n) \ {m})
      /\ Cardinality(AboutTo(r, n) \ {m}) = Cardinality(AboutTo(r, n)) - 1
  BY <1>1, FS_RemoveElement
<1>4. /\ Cardinality(LinkOf(r, n + 1)') <= Cardinality(LinkOf(r, n + 1) \cup {k})
      /\ Cardinality(AboutTo(r, n)') <= Cardinality(AboutTo(r, n) \ {m})
      /\ Cardinality(DeliveriesOf(r, n)) <= Cardinality(DeliveriesOf(r, n)')
  BY <1>1, <1>2, <1>3, FS_Subset
<1>5. /\ Cardinality(LinkOf(r, n + 1)') \in Nat /\ Cardinality(LinkOf(r, n + 1)) \in Nat
      /\ Cardinality(LinkOf(r, n + 1) \cup {k}) \in Nat
      /\ Cardinality(AboutTo(r, n)') \in Nat /\ Cardinality(AboutTo(r, n)) \in Nat
      /\ Cardinality(DeliveriesOf(r, n)) \in Nat /\ Cardinality(DeliveriesOf(r, n)') \in Nat
  BY <1>2, LinksFinite, LinksFiniteNext, FS_CardinalityType
<1> QED
  BY <1>2, <1>3, <1>4, <1>5 DEF Paid

\* A delivery more, and perhaps a monitor that is about to enqueue the next link.
LEMMA PaidFor ==
  ASSUME AInv, AInv', NEW r, NEW n, Paid(r, n), NEW m, NEW d,
         LinkOf(r, n + 1)' \subseteq LinkOf(r, n + 1),
         AboutTo(r, n)' \subseteq AboutTo(r, n) \cup {m},
         DeliveriesOf(r, n) \cup {d} \subseteq DeliveriesOf(r, n)', d \notin DeliveriesOf(r, n)
  PROVE Paid(r, n)'
<1>1. /\ IsFiniteSet(LinkOf(r, n + 1)) /\ IsFiniteSet(AboutTo(r, n))
      /\ IsFiniteSet(DeliveriesOf(r, n)) /\ IsFiniteSet(DeliveriesOf(r, n)')
  BY LinksFinite, LinksFiniteNext
<1>2. /\ IsFiniteSet(AboutTo(r, n) \cup {m})
      /\ Cardinality(AboutTo(r, n) \cup {m}) <= Cardinality(AboutTo(r, n)) + 1
  BY <1>1, AddOne
<1>3. Cardinality(DeliveriesOf(r, n) \cup {d}) = Cardinality(DeliveriesOf(r, n)) + 1
  BY <1>1, FS_AddElement
<1>4. /\ Cardinality(LinkOf(r, n + 1)') <= Cardinality(LinkOf(r, n + 1))
      /\ Cardinality(AboutTo(r, n)') <= Cardinality(AboutTo(r, n) \cup {m})
      /\ Cardinality(DeliveriesOf(r, n) \cup {d}) <= Cardinality(DeliveriesOf(r, n)')
  BY <1>1, <1>2, FS_Subset
<1>5. /\ Cardinality(LinkOf(r, n + 1)') \in Nat /\ Cardinality(LinkOf(r, n + 1)) \in Nat
      /\ Cardinality(AboutTo(r, n) \cup {m}) \in Nat
      /\ Cardinality(AboutTo(r, n)') \in Nat /\ Cardinality(AboutTo(r, n)) \in Nat
      /\ Cardinality(DeliveriesOf(r, n)) \in Nat /\ Cardinality(DeliveriesOf(r, n)') \in Nat
  BY <1>2, LinksFinite, LinksFiniteNext, FS_CardinalityType
<1> QED
  BY <1>2, <1>3, <1>4, <1>5 DEF Paid

\* The packages are the same or one more, and those delivered as often.
LEMMA MoreDeliveries ==
  ASSUME AInv, Grows, NEW r, NEW n
  PROVE LinkOf(r, n) \subseteq LinkOf(r, n)' /\ DeliveriesOf(r, n) \subseteq DeliveriesOf(r, n)'
<1>1. LinkOf(r, n) \subseteq LinkOf(r, n)'
  BY DEF LinkOf, Grows
<1>2. ASSUME NEW d \in DeliveriesOf(r, n) PROVE d \in DeliveriesOf(r, n)'
  <2>1. d \in LinkOf(r, n) \X (1..(MaxFaults + 1)) /\ d[2] <= delivered[d[1]]
    BY DEF DeliveriesOf
  <2>2. d[1] \in DOMAIN pkgs /\ d[2] \in Nat /\ d \in LinkOf(r, n)' \X (1..(MaxFaults + 1))
    BY <2>1, <1>1, Constants DEF LinkOf
  <2>3. d[2] <= delivered'[d[1]]
    BY <2>1, <2>2 DEF Grows
  <2> QED
    BY <2>2, <2>3 DEF DeliveriesOf
<1> QED
  BY <1>1, <1>2

LEMMA DeliverGrows ==
  ASSUME AInv, NEW m \in Monitors, NEW i \in DOMAIN pkgs, NEW success \in BOOLEAN,
         Deliver(m, i, success), UNCHANGED api
  PROVE Grows
<1>1. /\ i \in 1..MaxPackages /\ delivered[i] \in Nat /\ delivered'[i] = delivered[i] + 1
      /\ \A j \in 1..MaxPackages : j # i => delivered'[j] = delivered[j]
      /\ pkgs' = pkgs
  BY DeliverIs
<1>2. DOMAIN pkgs \subseteq 1..MaxPackages
  BY Constants DEF AInv, PkgsOK
<1>3. \A j \in 1..MaxPackages : delivered[j] \in Nat
  BY Constants DEF AInv, DeliveredOK
<1>4. \A j \in DOMAIN pkgs : delivered'[j] \in Nat /\ delivered'[j] >= delivered[j]
  BY <1>1, <1>2, <1>3
<1>5. failed \subseteq failed' /\ obj' = obj
  BY DEF Deliver, api
<1> QED
  BY <1>1, <1>2, <1>3, <1>4, <1>5 DEF Grows

\* The object keeps its kind.
LEMMA TalkKind == ASSUME AInv, Talk PROVE obj'.kind = obj.kind
<1>1. obj \in Objects
  BY DEF AInv, ObjOK
<1>2. obj'.kind = obj.kind
  <2>1. CASE append
    BY <2>1, <1>1 DEF append, AppendArguments, AppendLink, Objects
  <2>2. CASE SetOption
    BY <2>2, <1>1 DEF SetOption, Objects
  <2>3. CASE run
    BY <2>3, <1>1 DEF run, RunTask, RunChain, RunIter, Objects
  <2>4. CASE Ask \/ Elapse
    BY <2>4 DEF Ask, Elapse
  <2>5. CASE Calling
    <3>1. CASE Push
      BY <3>1, <1>1 DEF Push, Objects
    <3>2. CASE Counted \/ Poll \/ GetRow \/ GetMembers
      BY <3>2 DEF Counted, Poll, GetRow, GetMembers
    <3> QED
      BY <2>5, <3>1, <3>2 DEF Calling
  <2> QED
    BY <2>1, <2>2, <2>3, <2>4, <2>5 DEF Talk
<1> QED
  BY <1>2

\* The step of a monitor that neither gets nor enqueues anything.
LEMMA ChainStill ==
  ASSUME AInv, AInv', ChainInv, obj'.kind = obj.kind, pkgs' = pkgs, delivered' = delivered,
         \A r, n : AboutTo(r, n)' \subseteq AboutTo(r, n)
  PROVE ChainInv'
<1>1. \A r, n : LinkOf(r, n)' = LinkOf(r, n) /\ DeliveriesOf(r, n)' = DeliveriesOf(r, n)
  BY DEF LinkOf, DeliveriesOf
<1>2. \A r, n : Paid(r, n) => Paid(r, n)'
  BY <1>1, PaidStill
<1> QED
  BY <1>2 DEF ChainInv, SameEnd

\* One monitor moves; it does not come to read the list of a member.
LEMMA ChainMove ==
  ASSUME AInv, AInv', ChainInv, UNCHANGED api, pkgs' = pkgs, delivered' = delivered,
         NEW m \in Monitors, \A k \in Monitors : k # m => monitor'[k] = monitor[k],
         \/ monitor'[m].pc \notin {"list", "collate", "extend", "chain"}
         \/ /\ monitor[m].pc \in {"list", "collate", "extend", "chain"}
            /\ monitor'[m].name = monitor[m].name
  PROVE ChainInv'
<1>1. \A r, n : AboutTo(r, n)' \subseteq AboutTo(r, n)
  BY DEF AboutTo, LinkOf
<1> QED
  BY <1>1, ChainStill DEF api

LEMMA ChainDeliver ==
  ASSUME AInv, AInv', ChainInv, UNCHANGED api, NEW m \in Monitors, NEW i \in DOMAIN pkgs,
         NEW success \in BOOLEAN, Deliver(m, i, success)
  PROVE ChainInv'
<1>1. /\ \A k \in Monitors : k # m => monitor'[k] = monitor[k]
      /\ monitor'[m].name = i /\ i \in 1..MaxPackages /\ delivered[i] \in Nat
      /\ delivered'[i] = delivered[i] + 1 /\ pkgs' = pkgs
      /\ ~Busy(m)
  BY DeliverIs
<1>2. Grows
  BY <1>1, DeliverGrows
<1>3. delivered'[i] \in 1..(MaxFaults + 1)
  <2>1. delivered'[i] \in 0..(MaxFaults + 1)
    BY <1>1 DEF AInv, DeliveredOK
  <2> QED
    BY <1>1, <2>1, Constants
<1>4. ASSUME NEW r, NEW n, Paid(r, n) PROVE Paid(r, n)'
  <2>1. LinkOf(r, n)' = LinkOf(r, n) /\ LinkOf(r, n + 1)' = LinkOf(r, n + 1)
    BY <1>1 DEF LinkOf
  <2>2. DeliveriesOf(r, n) \subseteq DeliveriesOf(r, n)'
    BY <1>2, MoreDeliveries
  <2>3. CASE i \in LinkOf(r, n)
    <3>1. <<i, delivered'[i]>> \in DeliveriesOf(r, n)'
      BY <2>1, <2>3, <1>3 DEF DeliveriesOf
    <3>2. <<i, delivered'[i]>> \notin DeliveriesOf(r, n)
      BY <1>1 DEF DeliveriesOf
    <3>3. AboutTo(r, n)' \subseteq AboutTo(r, n) \cup {m}
      BY <1>1, <2>1 DEF AboutTo
    <3> QED
      BY <1>4, <2>1, <2>2, <3>1, <3>2, <3>3, PaidFor
  <2>4. CASE i \notin LinkOf(r, n)
    <3>1. AboutTo(r, n)' \subseteq AboutTo(r, n)
      BY <1>1, <2>1, <2>4 DEF AboutTo
    <3> QED
      BY <1>4, <2>1, <2>2, <3>1, PaidStill
  <2> QED
    BY <2>3, <2>4
<1> QED
  BY <1>1, <1>4 DEF ChainInv, SameEnd, api

LEMMA ChainProgress ==
  ASSUME AInv, AInv', ChainInv, UNCHANGED api, NEW m \in Monitors, Progress(m)
  PROVE ChainInv'
<1> DEFINE t == monitor[m]
           k == Len(pkgs) + 1
<1>1. PICK p, q \in Package :
        /\ p = pkgs[t.name] /\ t.name \in DOMAIN pkgs /\ t.pc = "chain"
        /\ p.chain > 0 /\ obj.kind = "Chain"
        /\ q.run = p.run /\ q.item = p.item + 1 /\ q.chain = p.chain - 1
        /\ Grows /\ DOMAIN pkgs' = DOMAIN pkgs \cup {k} /\ pkgs'[k] = q
        /\ \A i \in DOMAIN pkgs : pkgs'[i] = pkgs[i]
        /\ delivered' = delivered
  BY ProgressIs
<1>2. p.item \in Nat /\ p.chain \in Nat /\ p.run \in Groups
  BY DEF Package
<1>3. /\ \A j \in Monitors : j # m => monitor'[j] = monitor[j]
      /\ monitor'[m].pc \in {"set", "prune"}
  <2>1. PICK pc \in {"set", "prune"} : Move(m, pc)
    BY DEF Progress
  <2>2. Busy(m)
    BY DEF Progress, At, Busy
  <2> QED
    BY <2>1, <2>2, MoveIs
<1>4. ASSUME NEW j \in Monitors, monitor[j].pc \in {"list", "collate", "extend", "chain"}
      PROVE monitor[j].name \in DOMAIN pkgs
  BY <1>4 DEF AInv, MonitorsOK, TaskOK, Busy, At
<1>5. ASSUME NEW r, NEW n PROVE AboutTo(r, n)' \subseteq AboutTo(r, n) \ {m}
  BY <1>1, <1>3, <1>4 DEF AboutTo, LinkOf
<1>6. ASSUME NEW r \in Groups, NEW n \in Nat \ {0}, Paid(r, n) PROVE Paid(r, n)'
  <2>1. DeliveriesOf(r, n) \subseteq DeliveriesOf(r, n)'
    BY <1>1, MoreDeliveries
  <2>2. AboutTo(r, n)' \subseteq AboutTo(r, n) \ {m}
    BY <1>5
  <2>3. CASE r = p.run /\ n = p.item
    <3>1. m \in AboutTo(r, n)
      BY <1>1, <2>3 DEF AboutTo, LinkOf
    <3>2. LinkOf(r, n + 1)' \subseteq LinkOf(r, n + 1) \cup {k}
      BY <1>1 DEF LinkOf
    <3> QED
      BY <1>6, <2>1, <2>2, <3>1, <3>2, PaidOff
  <2>4. CASE ~(r = p.run /\ n = p.item)
    <3>1. ~(q.run = r /\ q.item = n + 1)
      BY <1>1, <1>2, <2>4
    <3>2. LinkOf(r, n + 1)' \subseteq LinkOf(r, n + 1)
      BY <1>1, <3>1 DEF LinkOf
    <3> QED
      BY <1>6, <2>1, <2>2, <3>2, PaidStill
  <2> QED
    BY <2>3, <2>4
<1>7. SameEnd'
  <2>1. SameEnd
    BY <1>1 DEF ChainInv
  <2>2. \A i \in DOMAIN pkgs : pkgs[i].run = q.run =>
          pkgs[i].item + pkgs[i].chain = q.item + q.chain
    <3>1. q.item + q.chain = p.item + p.chain
      BY <1>1, <1>2
    <3> QED
      BY <1>1, <2>1, <3>1 DEF SameEnd
  <2> QED
    BY <1>1, <2>1, <2>2 DEF SameEnd
<1> QED
  BY <1>6, <1>7 DEF ChainInv, api

\* Chain.run: the first link of a new run.
LEMMA ChainRun ==
  ASSUME AInv, AInv', ChainInv, run, RunChain
  PROVE ChainInv'
<1> DEFINE k == Len(pkgs) + 1
<1>1. PICK p \in Package :
        /\ call = Free /\ obj.kind = "Chain" /\ obj'.kind = "Chain"
        /\ Run = runs + 1 /\ runs \in Nat /\ p.run = Run /\ p.item = 1 /\ async_task(p)
        /\ UNCHANGED <<delivered, failed, monitor>>
  BY RunChainIs
<1>2. /\ Grows /\ DOMAIN pkgs' = DOMAIN pkgs \cup {k} /\ pkgs'[k] = p
      /\ \A i \in DOMAIN pkgs : pkgs'[i] = pkgs[i]
  BY <1>1, AddPkg DEF async_task
<1>3. ASSUME NEW i \in DOMAIN pkgs PROVE pkgs[i].run # p.run
  <2>1. PkgOK(pkgs[i])
    BY DEF AInv, PkgsOK
  <2>2. pkgs[i].run \in Nat /\ pkgs[i].run <= runs
    BY <1>1, <2>1, Constants DEF PkgOK, Package, Free
  <2> QED
    BY <1>1, <2>2
<1>4. ASSUME NEW j \in Monitors, monitor[j].pc \in {"list", "collate", "extend", "chain"}
      PROVE monitor[j].name \in DOMAIN pkgs
  BY <1>4 DEF AInv, MonitorsOK, TaskOK, Busy, At
<1>5. ASSUME NEW r \in Groups, NEW n \in Nat \ {0}, Paid(r, n) PROVE Paid(r, n)'
  <2>1. DeliveriesOf(r, n) \subseteq DeliveriesOf(r, n)'
    BY <1>2, MoreDeliveries
  <2>2. AboutTo(r, n)' \subseteq AboutTo(r, n)
    BY <1>1, <1>2, <1>4 DEF AboutTo, LinkOf
  <2>3. LinkOf(r, n + 1)' \subseteq LinkOf(r, n + 1)
    <3>1. n + 1 # 1
      BY <1>5
    <3> QED
      BY <1>1, <1>2, <3>1 DEF LinkOf
  <2> QED
    BY <1>5, <2>1, <2>2, <2>3, PaidStill
<1>6. SameEnd'
  BY <1>1, <1>2, <1>3 DEF ChainInv, SameEnd
<1> QED
  BY <1>1, <1>5, <1>6 DEF ChainInv

LEMMA ChainStep ==
  ASSUME AInv, AInv', ChainInv, UNCHANGED api, NEW m \in Monitors, Step(m)
  PROVE ChainInv'
<1>1. CASE Progress(m)
  BY <1>1, ChainProgress
<1>2. CASE ReadList(m)
  BY <1>2, ReadListIs, ChainMove DEF ReadList, At
<1>3. CASE Collate(m)
  BY <1>3, CollateIs, ChainMove
<1>4. CASE Find(m)
  BY <1>4, FindIs, ChainMove
<1>5. CASE Extend(m)
  <2>1. PICK pc : Move(m, pc)
    BY <1>5 DEF Extend
  <2>2. Busy(m) /\ pkgs' = pkgs /\ delivered' = delivered /\ monitor[m].pc = "extend"
    BY <1>5 DEF Extend, At, Busy
  <2> QED
    BY <2>1, <2>2, MoveIs, ChainMove
<1>6. CASE SetTask(m) \/ DeleteMembers(m) \/ DeleteGroup(m) \/ Prune(m) \/ Write(m)
  <2>1. PICK pc \in {"delete", "forget", "acknowledge", "find"} : Move(m, pc)
    BY <1>6 DEF SetTask, DeleteMembers, DeleteGroup, Prune, Write, After
  <2>2. Busy(m) /\ pkgs' = pkgs /\ delivered' = delivered
    BY <1>6 DEF SetTask, DeleteMembers, DeleteGroup, Prune, Write, At, Busy
  <2> QED
    BY <2>1, <2>2, MoveIs, ChainMove
<1>7. CASE Acknowledge(m)
  <2>1. /\ monitor' = [monitor EXCEPT ![m] = Waiting] /\ pkgs' = pkgs /\ delivered' = delivered
    BY <1>7 DEF Acknowledge
  <2>2. monitor'[m].pc = "get" /\ \A n \in Monitors : n # m => monitor'[n] = monitor[n]
    BY <2>1 DEF Waiting, AInv, MonitorsOK
  <2> QED
    BY <2>1, <2>2, ChainMove
<1> QED
  BY <1>1, <1>2, <1>3, <1>4, <1>5, <1>6, <1>7 DEF Step

LEMMA ChainTalk == ASSUME AInv, AInv', ChainInv, Talk PROVE ChainInv'
<1>1. obj'.kind = obj.kind
  BY TalkKind
<1>2. CASE run /\ RunChain
  BY <1>2, ChainRun
<1>3. CASE obj.kind = "Chain" /\ ~(run /\ RunChain)
  <2>1. call.pc # "push" /\ ~run
    BY <1>3 DEF AInv, CallOK, run, RunTask, RunIter
  <2>2. UNCHANGED <<pkgs, delivered, monitor>>
    <3>1. CASE append
      BY <3>1 DEF append
    <3>2. CASE ~append
      BY <3>2, <2>1, TalkFrame
    <3> QED
      BY <3>1, <3>2
  <2>3. \A r, n : AboutTo(r, n)' \subseteq AboutTo(r, n)
    BY <2>2 DEF AboutTo, LinkOf
  <2> QED
    BY <1>1, <2>2, <2>3, ChainStill
<1>4. CASE obj.kind # "Chain"
  BY <1>1, <1>4 DEF ChainInv
<1> QED
  BY <1>2, <1>3, <1>4

\* ChainInStep: no link is enqueued more often than the link before it was delivered,
\* and none after the last.
THEOREM LinksFollowDeliveries == ApiSpec => []ChainInStep
<1>1. ApiInit => ChainInv
  <2> SUFFICES ASSUME ApiInit PROVE ChainInv
    OBVIOUS
  <2>1. AInv /\ DOMAIN pkgs = {} /\ \A m \in Monitors : monitor[m].pc = "get"
    <3>1. monitor = [m \in Monitors |-> Waiting] /\ pkgs = <<>>
      BY DEF ApiInit, Init
    <3>2. \A m \in Monitors : monitor[m].pc = "get"
      BY <3>1 DEF Waiting
    <3> QED
      BY <3>1, <3>2, InitAInv
  <2>2. \A r, n : LinkOf(r, n) = {} /\ DeliveriesOf(r, n) = {} /\ AboutTo(r, n) = {}
    BY <2>1 DEF LinkOf, DeliveriesOf, AboutTo
  <2>3. \A r, n : Paid(r, n)
    BY <2>2, FS_EmptySet DEF Paid
  <2> QED
    BY <2>1, <2>3 DEF ChainInv, SameEnd
<1>2. AInv /\ AInv' /\ ChainInv /\ [ApiNext]_allVars => ChainInv'
  <2> SUFFICES ASSUME AInv, AInv', ChainInv, [ApiNext]_allVars PROVE ChainInv'
    OBVIOUS
  <2>1. CASE Talk
    BY <2>1, ChainTalk
  <2>2. CASE Monitoring /\ UNCHANGED api
    <3>1. PICK m \in Monitors : \/ \E i \in DOMAIN pkgs, success \in BOOLEAN : Deliver(m, i, success)
                                \/ Step(m) \/ Raise(m) \/ Die(m)
      BY <2>2 DEF Monitoring
    <3>2. CASE \E i \in DOMAIN pkgs, success \in BOOLEAN : Deliver(m, i, success)
      BY <2>2, <3>2, ChainDeliver
    <3>3. CASE Step(m)
      BY <2>2, <3>3, ChainStep
    <3>4. CASE Raise(m) \/ Die(m)
      BY <2>2, <3>4, RaiseIs, ChainMove
    <3> QED
      BY <3>1, <3>2, <3>3, <3>4
  <2>3. CASE UNCHANGED allVars
    <3>1. \A r, n : AboutTo(r, n)' \subseteq AboutTo(r, n)
      BY <2>3 DEF AboutTo, LinkOf, allVars, vars
    <3> QED
      BY <2>3, <3>1, ChainStill DEF allVars, vars, api
  <2> QED
    BY <2>1, <2>2, <2>3 DEF ApiNext, Talk
<1>3. AInv /\ ChainInv => ChainInStep
  <2> SUFFICES ASSUME AInv, ChainInv, NEW i \in DOMAIN pkgs, pkgs[i].iter_count = 0, pkgs[i].item > 1
               PROVE /\ Cardinality(LinkOf(pkgs[i].run, pkgs[i].item))
                          <= Cardinality(DeliveriesOf(pkgs[i].run, pkgs[i].item - 1))
                     /\ \A j \in LinkOf(pkgs[i].run, 1) : pkgs[i].item <= pkgs[j].chain + 1
    BY DEF ChainInStep, LinkOf, DeliveriesOf
  <2>1. PkgOK(pkgs[i]) /\ pkgs[i] \in Package
    BY DEF AInv, PkgsOK, PkgOK
  <2>2. PICK p, n : p = pkgs[i] /\ n = p.item - 1
    OBVIOUS
  <2>3. /\ p.item \in Nat /\ p.item > 1 /\ n \in Nat \ {0} /\ n + 1 = p.item /\ p.chain \in Nat
        /\ p.run \in Groups
    BY <2>1, <2>2 DEF Package
  <2>4. obj.kind = "Chain"
    <3>1. obj.kind # "AsyncTask"
      BY <2>1, <2>2, <2>3 DEF PkgOK
    <3>2. obj.kind # "Iter"
      BY <2>1, <2>2, <2>3 DEF PkgOK
    <3> QED
      BY <3>1, <3>2 DEF AInv, ObjOK, Objects
  <2>5. Paid(p.run, n) /\ SameEnd
    BY <2>3, <2>4 DEF ChainInv
  <2>6. Cardinality(LinkOf(p.run, p.item)) <= Cardinality(DeliveriesOf(p.run, n))
    <3>1. /\ Cardinality(LinkOf(p.run, n + 1)) \in Nat /\ Cardinality(AboutTo(p.run, n)) \in Nat
          /\ Cardinality(DeliveriesOf(p.run, n)) \in Nat
      BY LinksFinite, FS_CardinalityType
    <3> QED
      BY <2>3, <2>5, <3>1 DEF Paid
  <2>7. ASSUME NEW j \in LinkOf(p.run, 1) PROVE p.item <= pkgs[j].chain + 1
    <3>1. j \in DOMAIN pkgs /\ pkgs[j].run = p.run /\ pkgs[j].item = 1
      BY <2>7 DEF LinkOf
    <3>2. pkgs[j].chain \in Nat
      BY <3>1 DEF AInv, PkgsOK, PkgOK, Package
    <3>3. p.item + p.chain = 1 + pkgs[j].chain
      BY <2>2, <2>5, <3>1 DEF SameEnd
    <3> QED
      BY <2>3, <3>2, <3>3
  <2> QED
    BY <2>2, <2>6, <2>7
<1> QED
  BY <1>1, <1>2, <1>3, ResultsInvariant, PTL DEF ApiSpec


-----------------------------------------------------------------------------
\* While nothing fails and nothing is delivered again.
Alone == \A m, n \in Monitors :
  (m # n /\ Busy(m) /\ Busy(n)) => monitor[m].name # monitor[n].name

\* A monitor that has yet to store a task finds it neither in the cache nor in the table.
Storing(m) == monitor[m].pc \in {"list", "collate", "extend", "chain", "set"} /\ monitor[m].id > 0
Unstored == \A m \in Monitors :
  /\ Storing(m) => monitor[m].name \notin DOMAIN cache
  /\ (Busy(m) /\ ~At(m, "acknowledge") /\ monitor[m].id > 0) => monitor[m].name \notin DOMAIN rows

\* Every member of the group is there, was delivered and is stored.
Full(g) ==
  /\ Members(g) # {}
  /\ \A i \in Members(g) :
       /\ delivered[i] >= 1
       /\ \A n \in 1..pkgs[i].iter_count : \E j \in Members(g) : pkgs[j].item = n
  /\ \A m \in Monitors : Storing(m) => Of(m).group # g
Cleared(g) == keys[g] = <<>> /\ g \notin args /\ Members(g) \cap DOMAIN cache = {}

\* A monitor that has collated an iterable, or its result, is there only when every
\* member was stored; and what is left of the members goes.
Collates(m, g) == Busy(m) /\ monitor[m].id = -g
CollatesOK(m, g) ==
  /\ Full(g)
  /\ Members(g) \cap DOMAIN cache \subseteq ToSet(monitor[m].group_list)
  /\ At(m, "forget") => Members(g) \cap DOMAIN cache = {}
  /\ At(m, "acknowledge") => Cleared(g)
Collating(g) ==
  /\ \A m \in Monitors : Collates(m, g) => CollatesOK(m, g)
  /\ -g \in DOMAIN cache \cup DOMAIN rows =>
       Full(g) /\ ((\E m \in Monitors : Collates(m, g)) \/ Cleared(g))

\* The names in the key lists have an entry, or a monitor that is about to set it.
Backed(i) == \/ i \in DOMAIN cache
             \/ \E m \in Monitors : (At(m, "chain") \/ At(m, "set")) /\ monitor[m].id = i
Forgets(g) == \E m \in Monitors : At(m, "forget") /\ Of(m).group = g
Torn(g) ==
  /\ \A n \in DOMAIN keys[g] : Backed(keys[g][n]) \/ Forgets(g)
  /\ \A m \in Monitors : ((At(m, "collate") \/ At(m, "extend")) /\ Of(m).group = g) =>
       \A n \in DOMAIN monitor[m].group_list : Backed(monitor[m].group_list[n])

\* A monitor that may yet enqueue the next link.
Ahead(m) == monitor[m].pc \in {"list", "collate", "extend", "chain"}

\* A link has one successor at most, enqueued when it was stored.
Links1 == \A i, j \in DOMAIN pkgs : pkgs[i].run = pkgs[j].run =>
  /\ pkgs[i].item = pkgs[j].item => i = j
  /\ pkgs[j].item = pkgs[i].item + 1 =>
       /\ delivered[i] >= 1
       /\ \A m \in Monitors : Ahead(m) => monitor[m].name # i
Linked == \A j \in DOMAIN pkgs : pkgs[j].item > 1 =>
  \E i \in DOMAIN pkgs : pkgs[i].run = pkgs[j].run /\ pkgs[j].item = pkgs[i].item + 1

\* The links of the runs before the last leave no trace.
Past(i) == pkgs[i].run < runs \/ ~obj.ran
Gone(i) == /\ delivered[i] >= 1
           /\ \A m \in Monitors : Busy(m) => /\ monitor[m].name # i
                                             /\ \A n \in DOMAIN monitor[m].group_list :
                                                  monitor[m].group_list[n] # i
           /\ \A n \in DOMAIN keys[obj.group] : keys[obj.group][n] # i
           /\ i \in DOMAIN rows => rows[i].group = 0
PastGone == \A i \in DOMAIN pkgs : Past(i) => Gone(i)

InKeys(f) == \A n \in 1..obj.length :
  \E k \in DOMAIN f : pkgs[f[k]].run = runs /\ pkgs[f[k]].item = n
InRows == \A n \in 1..obj.length :
  \E i \in Labelled : i \in DOMAIN pkgs /\ pkgs[i].run = runs /\ pkgs[i].item = n

\* What a question has found so far.
CallFound ==
  /\ call.pc = "count" => ~call.late /\ call.count = obj.length
  /\ (call.pc = "poll" /\ ~call.late) => IF obj.cached THEN InKeys(keys[obj.group]) ELSE InRows
  /\ call.pc = "members" => /\ obj.cached
                            /\ \A k \in DOMAIN call.keys : pkgs[call.keys[k]].run = runs
                            /\ ~call.late => InKeys(call.keys)


\* What the steps of a monitor do, as far as the faultless part needs it.
Others(m) == \A n \in Monitors : n # m => monitor'[n] = monitor[n]
Same(m) == /\ monitor'[m].name = monitor[m].name /\ monitor'[m].id = monitor[m].id
           /\ monitor'[m].group_list = monitor[m].group_list

LEMMA AloneOK == ASSUME AInv, faults = 0
                 PROVE /\ Alone /\ \A g : Single(g)
                       /\ \A i \in DOMAIN pkgs : delivered[i] \in {0, 1}
<1>1. \A i \in 1..MaxPackages : delivered[i] \in {0, 1}
  BY Constants DEF AInv, DeliveredOK
<1>2. DOMAIN pkgs \subseteq 1..MaxPackages
  BY Constants DEF AInv, PkgsOK
<1>3. \A g : Single(g)
  BY <1>1, <1>2 DEF Single, Members
<1>4. ASSUME NEW m \in Monitors, NEW n \in Monitors, m # n, Busy(m), Busy(n)
      PROVE monitor[m].name # monitor[n].name
  <2>1. monitor[m].name \in DOMAIN pkgs
    BY <1>4 DEF AInv, MonitorsOK, TaskOK
  <2>2. delivered[monitor[m].name] \in {0, 1}
    BY <2>1, <1>1, <1>2
  <2> QED
    BY <1>4, <2>2 DEF AInv, DeliveredOK
<1> QED
  BY <1>1, <1>2, <1>3, <1>4 DEF Alone

LEMMA MovesIs ==
  ASSUME AInv, NEW m \in Monitors, Busy(m), NEW pc, Move(m, pc)
  PROVE Others(m) /\ Same(m) /\ monitor'[m].pc = pc
  BY MoveIs DEF Others, Same

LEMMA ExtendIs ==
  ASSUME AInv, NEW m \in Monitors, Extend(m)
  PROVE /\ Others(m) /\ Same(m) /\ monitor'[m].pc = IF Of(m).chain > 0 THEN "chain" ELSE "set"
        /\ monitor[m].id = monitor[m].name /\ monitor[m].id > 0
        /\ Of(m).group \in Groups
        /\ DOMAIN keys'[Of(m).group] = DOMAIN monitor[m].group_list \cup {Len(monitor[m].group_list) + 1}
        /\ \A a \in DOMAIN monitor[m].group_list :
             keys'[Of(m).group][a] = monitor[m].group_list[a]
        /\ keys'[Of(m).group][Len(monitor[m].group_list) + 1] = monitor[m].name
        /\ \A g \in Groups : g # Of(m).group => keys'[g] = keys[g]
        /\ UNCHANGED <<conf, pkgs, delivered, failed, acked, args, cache, rows, faults>>
<1> DEFINE t == monitor[m]
           h == Of(m).group
<1>1. Busy(m) /\ TaskOK(t) /\ t.pc = "extend" /\ t \in Task
  BY DEF Extend, AInv, MonitorsOK, Busy, At, TaskOK
<1>2. /\ h \in Groups /\ t.id = t.name /\ t.name \in 1..MaxPackages /\ t.id > 0
  BY <1>1, TaskPkg, Constants DEF TaskOK, Of
<1>3. t.group_list \in Result
  BY <1>1 DEF TaskOK, Listed
<1>4. PICK list : list = Append(t.group_list, t.name)
  OBVIOUS
<1>5. /\ DOMAIN list = DOMAIN t.group_list \cup {Len(t.group_list) + 1}
      /\ list[Len(t.group_list) + 1] = t.name /\ \A a \in DOMAIN t.group_list : list[a] = t.group_list[a]
  BY <1>2, <1>3, <1>4, AppendResult
<1>6. keys' = [keys EXCEPT ![h] = list]
  BY <1>2, <1>4 DEF Extend
<1>7. keys'[h] = list /\ \A g \in Groups : g # h => keys'[g] = keys[g]
  BY <1>2, <1>6 DEF AInv, KeysOK
<1>8. PICK pc : pc = (IF Of(m).chain > 0 THEN "chain" ELSE "set") /\ Move(m, pc)
  BY DEF Extend
<1>9. Others(m) /\ Same(m) /\ monitor'[m].pc = pc
  BY <1>1, <1>8, MovesIs
<1>10. UNCHANGED <<conf, pkgs, delivered, failed, acked, args, cache, rows, faults>>
  BY DEF Extend
<1> QED
  BY <1>2, <1>5, <1>7, <1>8, <1>9, <1>10

\* Where a task goes once it is stored.
Stored1(t) == IF t.id < 0 THEN "delete" ELSE "acknowledge"

LEMMA SetTaskIs ==
  ASSUME AInv, NEW m \in Monitors, SetTask(m)
  PROVE /\ Busy(m) /\ Others(m) /\ Same(m) /\ monitor'[m].pc = Stored1(monitor[m])
        /\ DOMAIN cache' = DOMAIN cache \cup {monitor[m].id}
        /\ UNCHANGED <<conf, pkgs, delivered, failed, acked, keys, args, rows, faults>>
<1>1. Busy(m)
  BY DEF SetTask, Busy, At
<1>2. Move(m, Stored1(monitor[m]))
  BY DEF SetTask, After, Collated, Stored1
<1> QED
  BY <1>1, <1>2, MovesIs DEF SetTask, Put

LEMMA DeleteMembersIs ==
  ASSUME AInv, NEW m \in Monitors, DeleteMembers(m)
  PROVE /\ Busy(m) /\ Others(m) /\ Same(m) /\ monitor'[m].pc = "forget" /\ monitor[m].id < 0
        /\ DOMAIN cache' = DOMAIN cache \ ToSet(monitor[m].group_list)
        /\ UNCHANGED <<conf, pkgs, delivered, failed, acked, keys, args, rows, faults>>
<1>1. Busy(m) /\ TaskOK(monitor[m]) /\ monitor[m].pc = "delete"
  BY DEF DeleteMembers, Busy, At, AInv, MonitorsOK
<1>2. monitor[m].id < 0
  BY <1>1, TaskPkg DEF TaskOK
<1>3. Move(m, "forget")
  BY DEF DeleteMembers
<1> QED
  BY <1>1, <1>2, <1>3, MovesIs DEF DeleteMembers, Drop, Restrict

LEMMA DeleteGroupIs ==
  ASSUME AInv, NEW m \in Monitors, DeleteGroup(m)
  PROVE /\ Busy(m) /\ Others(m) /\ Same(m) /\ monitor'[m].pc = "acknowledge" /\ monitor[m].id < 0
        /\ Of(m).group \in Groups /\ keys'[Of(m).group] = <<>> /\ args' = args \ {Of(m).group}
        /\ \A g \in Groups : g # Of(m).group => keys'[g] = keys[g]
        /\ UNCHANGED <<conf, pkgs, delivered, failed, acked, cache, rows, faults>>
<1>1. Busy(m) /\ TaskOK(monitor[m]) /\ monitor[m].pc = "forget"
  BY DEF DeleteGroup, Busy, At, AInv, MonitorsOK
<1>2. monitor[m].id < 0 /\ Of(m).group \in Groups
  BY <1>1, TaskPkg DEF TaskOK, Of
<1>3. Move(m, "acknowledge")
  BY DEF DeleteGroup
<1> QED
  BY <1>1, <1>2, <1>3, MovesIs DEF DeleteGroup, AInv, KeysOK

LEMMA PruneIs ==
  ASSUME AInv, NEW m \in Monitors, Prune(m)
  PROVE /\ Busy(m) /\ Others(m) /\ Same(m) /\ monitor'[m].pc = "find"
        /\ DOMAIN rows' \subseteq DOMAIN rows /\ \A x \in DOMAIN rows' : rows'[x] = rows[x]
        /\ UNCHANGED <<conf, pkgs, delivered, failed, acked, keys, args, cache, faults>>
<1>1. Busy(m)
  BY DEF Prune, Busy, At
<1>2. Move(m, "find")
  BY DEF Prune
<1>3. DOMAIN rows' \subseteq DOMAIN rows /\ \A x \in DOMAIN rows' : rows'[x] = rows[x]
  BY DEF Prune, Drop, Restrict
<1> QED
  BY <1>1, <1>2, <1>3, MovesIs DEF Prune

LEMMA WriteIs ==
  ASSUME AInv, NEW m \in Monitors, Write(m)
  PROVE /\ Busy(m) /\ Others(m) /\ Same(m) /\ monitor'[m].pc = Stored1(monitor[m])
        /\ DOMAIN rows \subseteq DOMAIN rows' /\ DOMAIN rows' \subseteq DOMAIN rows \cup {monitor[m].id}
        /\ \A x \in DOMAIN rows' : x # monitor[m].id => rows'[x] = rows[x]
        /\ UNCHANGED <<conf, pkgs, delivered, failed, acked, keys, args, cache, faults>>
<1>1. Busy(m)
  BY DEF Write, Busy, At
<1>2. Move(m, Stored1(monitor[m]))
  BY DEF Write, After, Collated, Stored1
<1>3. rows' = rows \/ \E r : rows' = Put(rows, monitor[m].id, r)
  BY DEF Write
<1>4. /\ DOMAIN rows \subseteq DOMAIN rows' /\ DOMAIN rows' \subseteq DOMAIN rows \cup {monitor[m].id}
      /\ \A x \in DOMAIN rows' : x # monitor[m].id => rows'[x] = rows[x]
  BY <1>3 DEF Put
<1> QED
  BY <1>1, <1>2, <1>4, MovesIs DEF Write

LEMMA AcknowledgeIs ==
  ASSUME AInv, NEW m \in Monitors, Acknowledge(m)
  PROVE /\ Busy(m) /\ Others(m) /\ monitor'[m] = Waiting
        /\ UNCHANGED <<conf, pkgs, delivered, failed, keys, args, cache, rows, faults>>
<1>1. Busy(m) /\ monitor' = [monitor EXCEPT ![m] = Waiting]
  BY DEF Acknowledge, Busy, At
<1> QED
  BY <1>1 DEF Acknowledge, Others, AInv, MonitorsOK

\* Every step: the task a monitor is at stays, and what is stored is that task or what
\* was collated of its group.
Stores(m) ==
  /\ Busy(m) /\ TaskOK(monitor[m]) /\ Others(m) /\ faults' = faults /\ delivered' = delivered
  /\ failed' = failed /\ conf' = conf
  /\ Grows /\ args' \subseteq args
  /\ Busy(m)' => /\ monitor'[m].name = monitor[m].name
                 /\ monitor'[m].id \in {monitor[m].id, -Of(m).group}
                 /\ monitor'[m].id = monitor[m].id \/ monitor'[m].id < 0
  /\ \A g \in Groups : g # Of(m).group => keys'[g] = keys[g]
  /\ \A x \in DOMAIN cache' : x \in DOMAIN cache \/ (x = monitor[m].id /\ monitor[m].pc = "set")
  /\ \A x \in DOMAIN rows' : x \in DOMAIN rows \/ (x = monitor[m].id /\ monitor[m].pc = "write")
  /\ Storing(m)' => Storing(m)
  /\ monitor[m].pc \in {"set", "write"} => monitor'[m].pc = Stored1(monitor[m])
  /\ monitor[m].pc = "acknowledge" => monitor'[m] = Waiting

LEMMA StoresIs ==
  ASSUME AInv, NEW m \in Monitors, Step(m), UNCHANGED api
  PROVE Stores(m)
<1> DEFINE t == monitor[m]
<1>1. Busy(m) /\ TaskOK(t)
  BY DEF Step, ReadList, Collate, Extend, Progress, SetTask, DeleteMembers, DeleteGroup, Prune,
         Find, Write, Acknowledge, At, Busy, AInv, MonitorsOK
<1>2. ASSUME pkgs' = pkgs, delivered' = delivered, failed' = failed PROVE Grows
  BY <1>2, SameGrows
<1>3. CASE ReadList(m)
  BY <1>1, <1>2, <1>3, ReadListIs DEF Stores, Others, Storing, ReadList, At
<1>4. CASE Collate(m)
  <2>1. Of(m).group \in Nat /\ Of(m).group > 0
    BY <1>1, TaskPkg, Constants DEF Of
  <2>2. t.id = monitor'[m].id \/ (monitor'[m].id = -Of(m).group /\ monitor'[m].id < 0)
    BY <2>1, <1>4, CollateIs
  <2>3. t.pc = "collate" /\ t.id \in Int
    BY <1>1, <1>4, TaskPkg DEF Collate, At
  <2>4. Storing(m)' => Storing(m)
    <3> SUFFICES ASSUME Storing(m)' PROVE Storing(m)
      OBVIOUS
    <3>1. monitor'[m].id > 0
      BY DEF Storing
    <3>2. t.id > 0
      BY <2>1, <2>2, <3>1
    <3> QED
      BY <2>3, <3>2 DEF Storing
  <2> QED
    BY <1>1, <1>2, <1>4, <2>2, <2>3, <2>4, CollateIs DEF Stores, Others
<1>5. CASE Extend(m)
  BY <1>1, <1>2, <1>5, ExtendIs DEF Stores, Others, Same, Storing, Extend, At
<1>6. CASE Progress(m)
  <2>1. PICK pc \in {"set", "prune"} : Move(m, pc)
    BY <1>6 DEF Progress
  <2>2. Others(m) /\ Same(m) /\ monitor'[m].pc = pc
    BY <1>1, <2>1, MovesIs
  <2> QED
    BY <1>1, <1>6, <2>1, <2>2, ProgressIs DEF Stores, Same, Storing
<1>7. CASE SetTask(m)
  BY <1>1, <1>2, <1>7, SetTaskIs DEF Stores, Same, SetTask, At, Storing, Stored1
<1>8. CASE DeleteMembers(m)
  BY <1>1, <1>2, <1>8, DeleteMembersIs DEF Stores, Same, Storing, DeleteMembers, At
<1>9. CASE DeleteGroup(m)
  BY <1>1, <1>2, <1>9, DeleteGroupIs DEF Stores, Same, Storing, DeleteGroup, At
<1>10. CASE Prune(m)
  BY <1>1, <1>2, <1>10, PruneIs DEF Stores, Same, Storing, Prune, At
<1>11. CASE Find(m)
  BY <1>1, <1>2, <1>11, FindIs DEF Stores, Others, Storing, Find, At
<1>12. CASE Write(m)
  BY <1>1, <1>2, <1>12, WriteIs DEF Stores, Same, Write, At, Storing, Stored1
<1>13. CASE Acknowledge(m)
  <2>1. monitor'[m].pc = "get" /\ monitor[m].pc = "acknowledge"
    <3>1. monitor'[m] = Waiting
      BY <1>13, AcknowledgeIs
    <3>2. t.pc = "acknowledge"
      BY <1>13 DEF Acknowledge, At
    <3> QED
      BY <3>1, <3>2 DEF Waiting
  <2>2. ~Busy(m)' /\ ~Storing(m)'
    BY <2>1 DEF Busy, At, Storing
  <2> QED
    BY <1>1, <1>2, <1>13, <2>1, <2>2, AcknowledgeIs DEF Stores
<1> QED
  BY <1>3, <1>4, <1>5, <1>6, <1>7, <1>8, <1>9, <1>10, <1>11, <1>12, <1>13 DEF Step


LEMMA TaskIds == ASSUME AInv', NEW n \in Monitors, Busy(n)' PROVE monitor'[n].id \in Int
<1>1. monitor'[n] \in Task
  BY DEF AInv, MonitorsOK, TaskOK
<1>2. monitor'[n].id \in Ids
  BY <1>1 DEF Task
<1> QED
  BY <1>2, Constants

\* The step of a monitor that stores something leaves the other monitors' tasks unstored.
LEMMA UnstoredStep ==
  ASSUME AInv, AInv', Alone, Unstored, NEW m \in Monitors, Stores(m)
  PROVE Unstored'
<1> DEFINE t == monitor[m]
<1>1. /\ Busy(m) /\ TaskOK(t) /\ Others(m) /\ t.id \in Int /\ t.name \in Nat
      /\ t.id > 0 => t.id = t.name
  BY TaskPkg DEF Stores, TaskOK
<1>2. ASSUME NEW n \in Monitors, Busy(n)
      PROVE monitor[n].id > 0 => monitor[n].id = monitor[n].name /\ (n # m => monitor[n].name # t.id)
  <2>1. TaskOK(monitor[n]) /\ monitor[n].id \in Int /\ monitor[n].name \in Nat
    BY <1>2, TaskPkg DEF AInv, MonitorsOK
  <2>2. monitor[n].id > 0 => monitor[n].id = monitor[n].name
    BY <2>1 DEF TaskOK
  <2>3. n # m => monitor[n].name # t.name
    BY <1>1, <1>2 DEF Alone
  <2> QED
    BY <1>1, <2>1, <2>2, <2>3
<1>3. ASSUME NEW n \in Monitors, Storing(n)' PROVE monitor'[n].name \notin DOMAIN cache'
  <2>1. Storing(n) /\ Busy(n) /\ monitor'[n].name = monitor[n].name /\ monitor[n].id > 0
    <3>1. CASE n = m
      BY <1>3, <3>1 DEF Stores, Storing, Busy, At
    <3>2. CASE n # m
      BY <1>1, <1>3, <3>2 DEF Others, Storing, Busy, At
    <3> QED
      BY <3>1, <3>2
  <2>2. monitor[n].name \notin DOMAIN cache
    BY <2>1 DEF Unstored
  <2>3. monitor[n].name # t.id \/ t.pc # "set"
    <3>1. CASE n = m
      <4>1. t.pc = "set" => monitor'[m].pc = "acknowledge"
        BY <1>1, <2>1, <3>1 DEF Stores, Stored1
      <4> QED
        BY <3>1, <4>1, <1>3 DEF Storing
    <3>2. CASE n # m
      BY <1>2, <2>1, <3>2
    <3> QED
      BY <3>1, <3>2
  <2> QED
    BY <2>1, <2>2, <2>3 DEF Stores
<1>4. ASSUME NEW n \in Monitors, Busy(n)', ~At(n, "acknowledge")', monitor'[n].id > 0
      PROVE monitor'[n].name \notin DOMAIN rows'
  <2>1. /\ Busy(n) /\ ~At(n, "acknowledge") /\ monitor[n].id > 0
        /\ monitor'[n].name = monitor[n].name
    <3>1. CASE n = m
      <4>1. monitor'[m].name = t.name /\ (monitor'[m].id = t.id \/ monitor'[m].id < 0)
        BY <1>4, <3>1 DEF Stores
      <4>2. t.pc # "acknowledge"
        BY <1>4, <3>1 DEF Stores, Busy, At, Waiting
      <4>3. monitor'[m].id \in Int
        BY <1>4, <3>1, TaskIds
      <4> QED
        BY <1>1, <1>4, <3>1, <4>1, <4>2, <4>3 DEF At
    <3>2. CASE n # m
      BY <1>1, <1>4, <3>2 DEF Others, Busy, At
    <3> QED
      BY <3>1, <3>2
  <2>2. monitor[n].name \notin DOMAIN rows
    BY <2>1 DEF Unstored
  <2>3. monitor[n].name # t.id \/ t.pc # "write"
    <3>1. CASE n = m
      <4>1. t.pc = "write" => monitor'[m].pc = "acknowledge"
        BY <1>1, <2>1, <3>1 DEF Stores, Stored1
      <4> QED
        BY <3>1, <4>1, <1>4 DEF At
    <3>2. CASE n # m
      BY <1>2, <2>1, <3>2
    <3> QED
      BY <3>1, <3>2
  <2> QED
    BY <2>1, <2>2, <2>3 DEF Stores
<1> QED
  BY <1>3, <1>4 DEF Unstored

LEMMA UnstoredDeliver ==
  ASSUME AInv, AInv', Unstored, NEW m \in Monitors, NEW i \in DOMAIN pkgs, NEW success \in BOOLEAN,
         Deliver(m, i, success), delivered[i] = 0
  PROVE Unstored'
<1>1. /\ \A n \in Monitors : n # m => monitor'[n] = monitor[n]
      /\ monitor'[m].name = i /\ cache' = cache /\ rows' = rows /\ i \in 1..MaxPackages
  BY DeliverIs
<1>2. i \notin DOMAIN cache
  <2>1. i \in DOMAIN cache => CachedOK(i, cache[i])
    BY DEF AInv, CacheOK
  <2> QED
    BY <1>1, <2>1, Constants DEF CachedOK
<1>3. i \notin DOMAIN rows
  <2>1. i \in DOMAIN rows => RowOK(i, rows[i])
    BY DEF AInv, RowsOK
  <2> QED
    BY <1>1, <2>1, Constants DEF RowOK
<1> QED
  BY <1>1, <1>2, <1>3 DEF Unstored, Storing, Busy, At

\* delete_group takes something out.
LEMMA DropGroupIs ==
  ASSUME NEW g, delete_group(g)
  PROVE /\ DOMAIN cache' \subseteq DOMAIN cache /\ DOMAIN rows' = DOMAIN rows
        /\ conf.CACHED => DOMAIN cache' = DOMAIN cache \ ToSet(keys[g]) /\ rows' = rows
        /\ conf.CACHED => keys' = [keys EXCEPT ![g] = <<>>]
        /\ ~conf.CACHED => UNCHANGED <<keys, cache>>
        /\ (~conf.CACHED) => \A id \in DOMAIN rows :
             rows'[id] = IF rows[id].group = g THEN [rows[id] EXCEPT !.group = 0] ELSE rows[id]
<1>1. CASE conf.CACHED
  BY <1>1 DEF delete_group, Drop, Restrict
<1>2. CASE ~conf.CACHED
  BY <1>2 DEF delete_group
<1> QED
  BY <1>1, <1>2

LEMMA UnstoredTalk == ASSUME Unstored, Talk PROVE Unstored'
<1>1. monitor' = monitor
  BY TalkFrame
<1>2. DOMAIN cache' \subseteq DOMAIN cache /\ DOMAIN rows' \subseteq DOMAIN rows
  <2>1. CASE append
    <3>1. delete_group(obj.group) \/ (cache' = cache /\ rows' = rows)
      BY <2>1 DEF append, AppendArguments, AppendLink
    <3> QED
      BY <3>1, DropGroupIs
  <2>2. CASE ~append
    BY <2>2, TalkFrame
  <2> QED
    BY <2>1, <2>2
<1> QED
  BY <1>1, <1>2 DEF Unstored, Storing, Busy, At


-----------------------------------------------------------------------------
\* An iterable is collated once all its members are stored.
LEMMA ListItems ==
  ASSUME AInv, faults = 0, NEW g \in Groups, NEW r, Made(g, r)
  PROVE /\ \A i \in Members(g) : i \in ToSet(r)
        /\ Members(g) # {}
        /\ \A i \in Members(g) : \A n \in 1..pkgs[i].iter_count :
             \E j \in Members(g) : pkgs[j].item = n
<1> DEFINE n == Len(r)
<1>1. Whole(g, r) /\ Single(g)
  BY MadeWhole, AloneOK
<1>2. \A i \in Members(g) : i \in ToSet(r) /\ n = pkgs[i].iter_count
  BY <1>1 DEF Whole, Single
<1>3. n \in Nat /\ n > 0 /\ DOMAIN r = 1..n /\ \A a \in 1..n : r[a] \in Members(g)
  BY DEF Made, Result
<1>4. r[1] \in Members(g)
  BY <1>3
<1>5. \A i \in Members(g) : /\ i \in DOMAIN pkgs /\ pkgs[i].run = g /\ pkgs[i].item \in 1..n
  BY <1>2 DEF Members, AInv, PkgsOK, PkgOK, Made
<1>6. \A i, j \in Members(g) : pkgs[i].item = pkgs[j].item => i = j
  BY <1>5 DEF AInv, PkgsOK, Made
<1> DEFINE f == [a \in 1..n |-> pkgs[r[a]].item]
<1>7. f \in [1..n -> 1..n]
  BY <1>3, <1>5
<1>8. \A a, b \in 1..n : f[a] = f[b] => a = b
  <2>1. Distinct(r)
    BY <1>1 DEF Made
  <2> QED
    BY <2>1, <1>3, <1>6 DEF Distinct
<1>9. f \in Injection(1..n, 1..n)
  BY <1>7, <1>8 DEF Injection, IsInjective
<1>10. IsFiniteSet(1..n)
  BY <1>3, FS_Interval
<1>11. f \in Surjection(1..n, 1..n)
  BY <1>9, <1>10, FS_Injection
<1>12. ASSUME NEW k \in 1..n PROVE \E j \in Members(g) : pkgs[j].item = k
  <2>1. PICK a \in 1..n : f[a] = k
    BY <1>11, <1>12 DEF Surjection
  <2> QED
    BY <2>1, <1>3
<1> QED
  BY <1>2, <1>4, <1>12

\* A group nobody collates, and whose result is not there, stays so.
LEMMA NotFull ==
  ASSUME NEW g, Collating(g), ~Full(g),
         \A n \in Monitors : Collates(n, g)' => Collates(n, g),
         -g \in DOMAIN cache' => -g \in DOMAIN cache, -g \in DOMAIN rows' => -g \in DOMAIN rows
  PROVE Collating(g)'
<1>1. (\A n \in Monitors : ~Collates(n, g)) /\ -g \notin DOMAIN cache \cup DOMAIN rows
  BY DEF Collating, CollatesOK
<1>2. (\A n \in Monitors : ~Collates(n, g)') /\ -g \notin DOMAIN cache' \cup DOMAIN rows'
  BY <1>1
<1> QED
  BY <1>2 DEF Collating

LEMMA FullKept ==
  ASSUME AInv, Grows, NEW g, Full(g), Members(g)' = Members(g),
         \A n \in Monitors : (Storing(n)' /\ Of(n)'.group = g) => (Storing(n) /\ Of(n).group = g)
  PROVE Full(g)'
<1>1. \A i \in Members(g) : i \in DOMAIN pkgs /\ pkgs'[i] = pkgs[i] /\ delivered'[i] >= delivered[i]
                            /\ delivered[i] \in Nat /\ delivered'[i] \in Nat
  BY DEF Members, Grows
<1>2. \A i \in Members(g) : delivered'[i] >= 1
  BY <1>1 DEF Full
<1>3. \A i \in Members(g) : \A n \in 1..pkgs'[i].iter_count : \E j \in Members(g) : pkgs'[j].item = n
  BY <1>1 DEF Full
<1> QED
  BY <1>2, <1>3 DEF Full

\* What keeps a group as Collating says.
LEMMA GroupKept ==
  ASSUME AInv, Grows, NEW g \in Groups, Collating(g), Members(g)' = Members(g),
         \A n \in Monitors : (Storing(n)' /\ Of(n)'.group = g) => (Storing(n) /\ Of(n).group = g),
         Members(g) \cap DOMAIN cache' \subseteq DOMAIN cache,
         keys'[g] = keys[g] \/ keys'[g] = <<>>, g \in args' => g \in args,
         -g \in DOMAIN cache' \cup DOMAIN rows' =>
           -g \in DOMAIN cache \cup DOMAIN rows \/ \E n \in Monitors : Collates(n, g),
         \A n \in Monitors : Collates(n, g)' =>
           /\ Collates(n, g) /\ monitor'[n].group_list = monitor[n].group_list
           /\ At(n, "forget")' => At(n, "forget") \/ Members(g) \cap DOMAIN cache' = {}
           /\ At(n, "acknowledge")' => At(n, "acknowledge") \/ Cleared(g)',
         \A n \in Monitors : Collates(n, g) => Collates(n, g)' \/ Cleared(g)'
  PROVE Collating(g)'
<1>1. Full(g) => Full(g)'
  BY FullKept
<1>2. Cleared(g) => Cleared(g)'
  BY DEF Cleared
<1>3. ASSUME NEW n \in Monitors, Collates(n, g)' PROVE CollatesOK(n, g)'
  <2>1. CollatesOK(n, g)
    BY <1>3 DEF Collating
  <2>2. Members(g) \cap DOMAIN cache' \subseteq ToSet(monitor'[n].group_list)
    BY <1>3, <2>1 DEF CollatesOK
  <2>3. At(n, "forget")' => Members(g) \cap DOMAIN cache' = {}
    BY <1>3, <2>1 DEF CollatesOK
  <2>4. At(n, "acknowledge")' => Cleared(g)'
    BY <1>2, <1>3, <2>1 DEF CollatesOK
  <2>5. Full(g)'
    BY <1>1, <2>1 DEF CollatesOK
  <2> QED
    BY <2>2, <2>3, <2>4, <2>5 DEF CollatesOK
<1>4. ASSUME -g \in DOMAIN cache' \cup DOMAIN rows'
      PROVE Full(g)' /\ ((\E n \in Monitors : Collates(n, g)') \/ Cleared(g)')
  <2>1. Full(g) /\ ((\E n \in Monitors : Collates(n, g)) \/ Cleared(g))
    BY <1>4 DEF Collating, CollatesOK
  <2> QED
    BY <2>1, <1>1, <1>2
<1> QED
  BY <1>3, <1>4 DEF Collating


\* With the member at hand the list has every member.
LEMMA CollateFinds ==
  ASSUME AInv, faults = 0, NEW m \in Monitors, At(m, "collate")
  PROVE /\ \A i \in Members(Of(m).group) : i = monitor[m].name \/ i \in ToSet(monitor[m].group_list)
        /\ Members(Of(m).group) # {}
        /\ \A i \in Members(Of(m).group) : \A n \in 1..pkgs[i].iter_count :
             \E j \in Members(Of(m).group) : pkgs[j].item = n
        /\ \A i \in Members(Of(m).group) : delivered[i] >= 1
<1> DEFINE t == monitor[m]
           p == pkgs[t.name]
<1>1. Busy(m) /\ TaskOK(t) /\ t.pc = "collate"
  BY DEF At, AInv, MonitorsOK, Busy
<1> PICK h : h = p.group
  OBVIOUS
<1>2. /\ h \in Groups /\ t.name \in DOMAIN pkgs /\ t.name \in 1..MaxPackages /\ PkgOK(p) /\ p \in Package
      /\ Of(m).group = h /\ t.id >= 0
  BY <1>1, TaskPkg DEF Of, TaskOK
<1>3. Ready(p, t.group_list) /\ Listed(h, t.group_list) /\ t.group_list \in Result /\ delivered[t.name] >= 1
  BY <1>1, <1>2 DEF TaskOK, Listed
<1>4. obj.kind = "Iter"
  <2>1. p.iter_count # 0
    BY <1>2, <1>3 DEF Ready, Package
  <2> QED
    BY <2>1, <1>2 DEF PkgOK
<1>5. PICK list, k : list = t.group_list /\ k = Len(list)
  OBVIOUS
<1>6. PICK r : r = Append(list, t.name)
  OBVIOUS
<1>7. /\ r \in Result /\ k \in Nat /\ DOMAIN r = DOMAIN list \cup {k + 1} /\ DOMAIN list = 1..k
      /\ r[k + 1] = t.name /\ (\A a \in DOMAIN list : r[a] = list[a]) /\ Len(r) = k + 1
  BY <1>2, <1>3, <1>5, <1>6, AppendResult
<1>8. \A a \in DOMAIN r : r[a] \in Members(h) /\ delivered[r[a]] >= 1
  BY <1>2, <1>3, <1>5, <1>7 DEF Listed, Members
<1>9. p.iter_count = k + 1
  <2>1. p.iter_count \in Nat
    BY <1>2 DEF Package
  <2> QED
    BY <1>3, <1>5, <1>7, <2>1 DEF Ready
<1>10. \A i \in Members(h) : pkgs[i].iter_count = k + 1
  <2>1. \A i \in Members(h) : i \in DOMAIN pkgs /\ pkgs[i].run = h
    BY <1>4 DEF Members, AInv, PkgsOK, PkgOK
  <2>2. t.name \in Members(h)
    BY <1>2 DEF Members, Of
  <2> QED
    BY <2>1, <2>2, <1>4, <1>9 DEF AInv, PkgsOK
<1>11. Distinct(r)
  <2>1. Single(h) /\ DistinctOK(h)
    BY <1>2, AloneOK DEF AInv
  <2>2. Distinct(list) /\ Unlisted(m, list)
    BY <2>1, <1>1, <1>2, <1>5 DEF DistinctOK
  <2>3. \A a \in DOMAIN list : list[a] # t.name
    BY <2>2, <1>1 DEF Unlisted, Reading, At
  <2> QED
    BY <2>2, <2>3, <1>7 DEF Distinct
<1>12. Made(h, r)
  BY <1>4, <1>7, <1>8, <1>10, <1>11 DEF Made
<1>13. ToSet(r) = ToSet(list) \cup {t.name}
  BY <1>7 DEF ToSet
<1>14. /\ \A i \in Members(h) : i \in ToSet(r)
       /\ Members(h) # {}
       /\ \A i \in Members(h) : \A n \in 1..pkgs[i].iter_count : \E j \in Members(h) : pkgs[j].item = n
  BY <1>2, <1>12, ListItems
<1>15. \A i \in Members(h) : delivered[i] >= 1
  BY <1>8, <1>14 DEF ToSet
<1> QED
  BY <1>2, <1>5, <1>13, <1>14, <1>15

\* The monitors of an iterable enqueue nothing.
LEMMA IterPkgs == ASSUME AInv, NEW m \in Monitors, Step(m), UNCHANGED api, obj.kind = "Iter"
                  PROVE pkgs' = pkgs
<1>1. ~Progress(m)
  BY ProgressIs
<1> QED
  BY <1>1 DEF Step, ReadList, Collate, Extend, SetTask, DeleteMembers, DeleteGroup, Prune, Find,
              Write, Acknowledge

LEMMA MemberIs == ASSUME AInv, NEW g, NEW i \in Members(g)
                  PROVE i \in Nat /\ i > 0 /\ i \in DOMAIN pkgs /\ pkgs[i].group = g
  BY Constants DEF Members, AInv, PkgsOK

\* Another group's monitor.
LEMMA CollatingAside ==
  ASSUME AInv, obj.kind = "Iter", NEW m \in Monitors, Stores(m), pkgs' = pkgs,
         NEW g \in Groups, Collating(g), Of(m).group # g
  PROVE Collating(g)'
<1> DEFINE t == monitor[m]
           h == Of(m).group
<1>1. /\ TaskOK(t) /\ t.name \in Members(h) /\ h \in Nat /\ t.id \in Int /\ g \in Nat /\ g > 0
      /\ t.id = t.name \/ t.id = -h
  BY TaskPkg, Constants DEF Stores, Of, TaskOK, Members
<1>2. t.id # -g /\ -h # -g
  BY <1>1, MemberIs
<1>3. ~Collates(m, g) /\ ~Collates(m, g)'
  BY <1>2 DEF Collates, Stores
<1>4. \A n \in Monitors : n # m => monitor'[n] = monitor[n]
  BY DEF Stores, Others
<1>5. ASSUME NEW n \in Monitors, Storing(n)', Of(n)'.group = g
      PROVE Storing(n) /\ Of(n).group = g
  <2>1. n # m
    BY <1>5 DEF Stores, Of, Storing, Busy, At
  <2> QED
    BY <2>1, <1>4, <1>5 DEF Storing, Of
<1>6. Members(g) \cap DOMAIN cache' \subseteq DOMAIN cache
  <2>1. t.id \notin Members(g)
    BY <1>1, MemberIs
  <2> QED
    BY <2>1 DEF Stores
<1>7. -g \in DOMAIN cache' \cup DOMAIN rows' => -g \in DOMAIN cache \cup DOMAIN rows
  BY <1>2 DEF Stores
<1>8. \A n \in Monitors : Collates(n, g)' =>
        /\ Collates(n, g) /\ monitor'[n].group_list = monitor[n].group_list
        /\ At(n, "forget")' => At(n, "forget")
        /\ At(n, "acknowledge")' => At(n, "acknowledge")
  BY <1>3, <1>4 DEF Collates, Busy, At
<1>9. \A n \in Monitors : Collates(n, g) => Collates(n, g)'
  BY <1>3, <1>4 DEF Collates, Busy, At
<1>10. Grows /\ keys'[g] = keys[g] /\ (g \in args' => g \in args) /\ Members(g)' = Members(g)
  BY DEF Stores, Members
<1> QED
  BY <1>5, <1>6, <1>7, <1>8, <1>9, <1>10, GroupKept


\* The monitor has yet to store its member: the group is not full, before and after.
LEMMA CollatingBefore ==
  ASSUME AInv, NEW m \in Monitors, Stores(m), Storing(m), NEW g \in Groups, Of(m).group = g,
         Collating(g), Busy(m)' => monitor'[m].id = monitor[m].id
  PROVE Collating(g)'
<1> DEFINE t == monitor[m]
<1>1. TaskOK(t) /\ t.id \in Int /\ t.id > 0 /\ g \in Nat /\ t.id # -g
  BY TaskPkg, Constants DEF Stores, Storing
<1>2. ~Full(g)
  BY DEF Full
<1>3. \A n \in Monitors : n # m => monitor'[n] = monitor[n]
  BY DEF Stores, Others
<1>4. \A n \in Monitors : Collates(n, g)' => Collates(n, g)
  BY <1>1, <1>3 DEF Collates, Busy, At
<1>5. /\ -g \in DOMAIN cache' => -g \in DOMAIN cache
      /\ -g \in DOMAIN rows' => -g \in DOMAIN rows
  BY <1>1 DEF Stores
<1> QED
  BY <1>2, <1>4, <1>5, NotFull

\* The monitor has the list of all the others: the group is full.
LEMMA CollatingNow ==
  ASSUME AInv, faults = 0, Alone, Unstored, obj.kind = "Iter", NEW m \in Monitors, Stores(m),
         Collate(m), monitor'[m].pc # "acknowledge", NEW g \in Groups, Of(m).group = g, Collating(g)
  PROVE Collating(g)'
<1> DEFINE t == monitor[m]
<1>1. /\ ToSet(t.group_list) \subseteq DOMAIN cache /\ monitor'[m].id = -g
      /\ monitor'[m].pc \in {"set", "delete", "prune"}
      /\ monitor'[m].name = t.name /\ monitor'[m].group_list = t.group_list
      /\ \A n \in Monitors : n # m => monitor'[n] = monitor[n]
      /\ UNCHANGED <<pkgs, delivered, keys, args, cache, rows>>
  BY CollateIs
<1>2. /\ TaskOK(t) /\ t.pc = "collate" /\ t.id \in Int /\ t.id > 0 /\ g > 0 /\ g \in Nat
      /\ t.name \in Members(g) /\ Busy(m)
  <2>1. TaskOK(t) /\ t.pc = "collate" /\ Busy(m)
    BY DEF Stores, Collate, At
  <2>2. t.id >= 0 /\ t.id = t.name /\ t.name \in Nat /\ t.name \in Members(g)
    BY <2>1, TaskPkg DEF TaskOK, Members, Of
  <2> QED
    BY <2>1, <2>2, MemberIs, Constants
<1>3. Storing(m)
  BY <1>2 DEF Storing
<1>4. /\ \A i \in Members(g) : i = t.name \/ i \in ToSet(t.group_list)
      /\ Members(g) # {}
      /\ \A i \in Members(g) : \A n \in 1..pkgs[i].iter_count : \E j \in Members(g) : pkgs[j].item = n
      /\ \A i \in Members(g) : delivered[i] >= 1
  BY CollateFinds DEF Collate
<1>5. Members(g)' = Members(g)
  BY <1>1 DEF Members
<1>6. ASSUME NEW n \in Monitors, Storing(n)' PROVE Of(n)'.group # g
  <2>1. n # m
    <3>1. ~(-g > 0)
      BY <1>2
    <3> QED
      BY <3>1, <1>1, <1>6 DEF Storing
  <2>2. Storing(n) /\ Busy(n) /\ monitor'[n] = monitor[n]
    BY <1>1, <1>6, <2>1 DEF Storing, Busy, At
  <2>3. monitor[n].name # t.name /\ monitor[n].name \in DOMAIN pkgs
    BY <1>2, <2>1, <2>2 DEF Alone, AInv, MonitorsOK, TaskOK
  <2>4. monitor[n].name \notin ToSet(t.group_list)
    BY <1>1, <2>2 DEF Unstored
  <2>5. monitor[n].name \notin Members(g)
    BY <1>4, <2>3, <2>4
  <2> QED
    BY <1>1, <2>2, <2>3, <2>5 DEF Members, Of
<1>7. Full(g)'
  BY <1>1, <1>4, <1>5, <1>6 DEF Full
<1>8. CollatesOK(m, g)'
  <2>1. t.name \notin DOMAIN cache
    BY <1>3 DEF Unstored
  <2>2. Members(g) \cap DOMAIN cache \subseteq ToSet(t.group_list)
    BY <2>1, <1>4
  <2> QED
    BY <2>2, <1>1, <1>5, <1>7 DEF CollatesOK, At
<1>9. ASSUME NEW n \in Monitors, Collates(n, g)', n # m PROVE FALSE
  <2>1. Collates(n, g)
    BY <1>1, <1>9 DEF Collates, Busy, At
  <2>2. Full(g)
    BY <2>1 DEF Collating, CollatesOK
  <2> QED
    BY <2>2, <1>3 DEF Full
<1>10. Collates(m, g)'
  BY <1>1 DEF Collates, Busy, At
<1> QED
  BY <1>7, <1>8, <1>9, <1>10 DEF Collating

\* The member is stored; the monitor may be at work on the collated task.
LEMMA CollatingAfter ==
  ASSUME AInv, obj.kind = "Iter", NEW m \in Monitors, Step(m), Stores(m), ~Storing(m), pkgs' = pkgs,
         NEW g \in Groups, Of(m).group = g, Collating(g)
  PROVE Collating(g)'
<1> DEFINE t == monitor[m]
<1>1. /\ Busy(m) /\ TaskOK(t) /\ t.id \in Int /\ g \in Nat /\ g > 0 /\ t.name \in Members(g)
      /\ t.name \in Nat /\ t.name > 0 /\ (t.id = t.name \/ t.id = -g)
  <2>1. /\ Busy(m) /\ TaskOK(t) /\ t.id \in Int /\ g \in Nat /\ g > 0 /\ t.name \in Members(g)
        /\ (t.id = t.name \/ t.id = -g)
    BY TaskPkg, Constants DEF Stores, Of, TaskOK, Members
  <2> QED
    BY <2>1, MemberIs
<1>2. /\ t.pc \notin {"list", "collate", "extend"}
      /\ t.pc \in {"chain", "set"} => t.id = -g
  <2>1. t.pc \in {"list", "collate", "extend"} => t.id > 0
    BY <1>1 DEF TaskOK
  <2> QED
    BY <1>1, <2>1 DEF Storing
<1>3. \/ SetTask(m) \/ DeleteMembers(m) \/ DeleteGroup(m) \/ Prune(m) \/ Find(m) \/ Write(m)
      \/ Acknowledge(m)
  <2>1. ~Progress(m)
    <3>1. t.pc # "chain"
      BY <1>1, <1>2 DEF TaskOK
    <3> QED
      BY <3>1 DEF Progress, At
  <2> QED
    BY <1>2, <2>1 DEF Step, ReadList, Collate, Extend, At
<1>4. /\ Others(m) /\ (keys'[g] = keys[g] \/ keys'[g] = <<>>)
      /\ Acknowledge(m) \/ (/\ monitor'[m].id = t.id /\ monitor'[m].group_list = t.group_list
                            /\ monitor'[m].name = t.name
                            /\ monitor'[m].pc \in {"delete", "find", "write"}
                               \/ (monitor'[m].pc = "forget" /\ DeleteMembers(m))
                               \/ (monitor'[m].pc = "acknowledge" /\ (DeleteGroup(m) \/ t.id > 0)))
  <2>1. CASE SetTask(m)
    <3>1. monitor'[m].pc = "delete" \/ (monitor'[m].pc = "acknowledge" /\ t.id > 0)
      <4>1. t.id < 0 \/ t.id > 0
        BY <1>1
      <4>2. monitor'[m].pc = Stored1(t)
        BY <2>1, SetTaskIs
      <4>3. t.id > 0 => ~(t.id < 0)
        BY <1>1
      <4> QED
        BY <4>1, <4>2, <4>3 DEF Stored1
    <3> QED
      BY <2>1, <3>1, SetTaskIs DEF Same
  <2>2. CASE DeleteMembers(m)
    BY <2>2, DeleteMembersIs DEF Same
  <2>3. CASE DeleteGroup(m)
    BY <2>3, DeleteGroupIs DEF Same
  <2>4. CASE Prune(m)
    BY <2>4, PruneIs DEF Same
  <2>5. CASE Find(m)
    BY <2>5, FindIs DEF Others
  <2>6. CASE Write(m)
    <3>1. monitor'[m].pc = "delete" \/ (monitor'[m].pc = "acknowledge" /\ t.id > 0)
      BY <1>1, <2>6, WriteIs DEF Stored1
    <3> QED
      BY <2>6, <3>1, WriteIs DEF Same
  <2>7. CASE Acknowledge(m)
    BY <2>7, AcknowledgeIs
  <2> QED
    BY <1>3, <2>1, <2>2, <2>3, <2>4, <2>5, <2>6, <2>7
<1>5. Acknowledge(m) => ~Busy(m)' /\ t.pc = "acknowledge"
  <2> SUFFICES ASSUME Acknowledge(m) PROVE ~Busy(m)' /\ t.pc = "acknowledge"
    OBVIOUS
  <2>1. monitor'[m] = Waiting
    BY AcknowledgeIs
  <2>2. t.pc = "acknowledge"
    BY DEF Acknowledge, At
  <2> QED
    BY <2>1, <2>2 DEF Busy, At, Waiting
<1>6. Collates(m, g)' => Collates(m, g)
  BY <1>1, <1>4, <1>5 DEF Collates
<1>7. Grows /\ Members(g)' = Members(g) /\ (g \in args' => g \in args)
  BY DEF Stores, Members
<1>8. ASSUME NEW n \in Monitors, Storing(n)', Of(n)'.group = g PROVE Storing(n) /\ Of(n).group = g
  <2>1. n # m
    BY <1>8 DEF Stores
  <2> QED
    BY <2>1, <1>4, <1>8 DEF Others, Storing, Of
<1>9. Members(g) \cap DOMAIN cache' \subseteq DOMAIN cache
  <2>1. t.pc = "set" => t.id \notin Members(g)
    BY <1>1, <1>2, MemberIs
  <2> QED
    BY <2>1 DEF Stores
<1>10. -g \in DOMAIN cache' \cup DOMAIN rows' =>
         -g \in DOMAIN cache \cup DOMAIN rows \/ \E n \in Monitors : Collates(n, g)
  BY <1>1 DEF Stores, Collates
<1>11. ASSUME Collates(m, g) PROVE CollatesOK(m, g)
  BY <1>11 DEF Collating
<1>12. ASSUME NEW n \in Monitors, Collates(n, g)'
       PROVE /\ Collates(n, g) /\ monitor'[n].group_list = monitor[n].group_list
             /\ At(n, "forget")' => At(n, "forget") \/ Members(g) \cap DOMAIN cache' = {}
             /\ At(n, "acknowledge")' => At(n, "acknowledge") \/ Cleared(g)'
  <2>1. CASE n # m
    BY <1>4, <1>12, <2>1 DEF Others, Collates, Busy, At
  <2>2. CASE n = m
    <3>1. Collates(m, g) /\ monitor'[m].group_list = t.group_list /\ t.id = -g
      BY <1>4, <1>5, <1>6, <1>12, <2>2 DEF Collates
    <3>2. DeleteMembers(m) => Members(g) \cap DOMAIN cache' = {}
      BY <3>1, <1>11, DeleteMembersIs DEF CollatesOK
    <3>3. DeleteGroup(m) => Cleared(g)'
      <4>1. DeleteGroup(m) => Members(g) \cap DOMAIN cache = {}
        BY <3>1, <1>11 DEF CollatesOK, DeleteGroup
      <4> QED
        BY <4>1, <1>7, DeleteGroupIs DEF Cleared
    <3> QED
      BY <2>2, <3>1, <3>2, <3>3, <1>1, <1>4, <1>5, <1>12 DEF At, Collates
  <2> QED
    BY <2>1, <2>2
<1>13. ASSUME NEW n \in Monitors, Collates(n, g) PROVE Collates(n, g)' \/ Cleared(g)'
  <2>1. CASE n # m
    BY <1>4, <1>13, <2>1 DEF Others, Collates, Busy, At
  <2>2. CASE n = m /\ ~Acknowledge(m)
    BY <1>4, <1>13, <2>2 DEF Collates, Busy, At
  <2>3. CASE n = m /\ Acknowledge(m)
    <3>1. Cleared(g)
      BY <1>5, <1>11, <1>13, <2>3 DEF CollatesOK, At
    <3> QED
      BY <3>1, <2>3, <1>7, AcknowledgeIs DEF Cleared
  <2> QED
    BY <2>1, <2>2, <2>3
<1> QED
  BY <1>4, <1>7, <1>8, <1>9, <1>10, <1>12, <1>13, GroupKept

LEMMA CollatingStep ==
  ASSUME AInv, faults = 0, Alone, Unstored, obj.kind = "Iter", NEW m \in Monitors, Step(m),
         UNCHANGED api, NEW g \in Groups, Collating(g)
  PROVE Collating(g)'
<1>1. Stores(m) /\ pkgs' = pkgs
  BY StoresIs, IterPkgs
<1>2. CASE Of(m).group # g
  BY <1>1, <1>2, CollatingAside
<1>3. CASE Of(m).group = g /\ ~Storing(m)
  BY <1>1, <1>3, CollatingAfter
<1>4. CASE Of(m).group = g /\ Storing(m) /\ Collate(m) /\ monitor'[m].pc # "acknowledge"
  BY <1>1, <1>4, CollatingNow
<1>5. CASE Of(m).group = g /\ Storing(m) /\ ~(Collate(m) /\ monitor'[m].pc # "acknowledge")
  <2>1. Busy(m)' => monitor'[m].id = monitor[m].id
    <3>1. CASE Collate(m)
      BY <1>5, <3>1, CollateIs
    <3>2. CASE ~Collate(m)
      <4>1. ~DeleteMembers(m) /\ ~DeleteGroup(m) /\ ~Prune(m) /\ ~Find(m) /\ ~Write(m) /\ ~Acknowledge(m)
        BY <1>5 DEF Storing, DeleteMembers, DeleteGroup, Prune, Find, Write, Acknowledge, At
      <4>2. ReadList(m) \/ Extend(m) \/ SetTask(m)
        BY <1>1, <3>2, <4>1, ProgressIs DEF Step
      <4> QED
        BY <4>2, ReadListIs, ExtendIs, SetTaskIs DEF Same
    <3> QED
      BY <3>1, <3>2
  <2> QED
    BY <1>1, <1>5, <2>1, CollatingBefore
<1> QED
  BY <1>2, <1>3, <1>4, <1>5


LEMMA CollatingDeliver ==
  ASSUME AInv, NEW m \in Monitors, NEW i \in DOMAIN pkgs, NEW success \in BOOLEAN,
         Deliver(m, i, success), UNCHANGED api, delivered[i] = 0, NEW g \in Groups, Collating(g)
  PROVE Collating(g)'
<1>1. /\ ~Busy(m) /\ \A n \in Monitors : n # m => monitor'[n] = monitor[n]
      /\ monitor'[m].name = i /\ monitor'[m].id = i
      /\ UNCHANGED <<pkgs, keys, args, cache, rows>>
  BY DeliverIs
<1>2. Grows /\ Members(g)' = Members(g)
  BY <1>1, DeliverGrows DEF Members
<1>3. i \in Nat /\ i > 0 /\ g \in Nat /\ g > 0
  BY Constants DEF AInv, PkgsOK
<1>4. \A n \in Monitors : Collates(n, g)' => n # m
  BY <1>1, <1>3 DEF Collates
<1>5. CASE pkgs[i].group = g
  <2>1. ~Full(g)
    BY <1>5 DEF Full, Members
  <2>2. \A n \in Monitors : Collates(n, g)' => Collates(n, g)
    BY <1>1, <1>4 DEF Collates, Busy, At
  <2> QED
    BY <1>1, <2>1, <2>2, NotFull
<1>6. CASE pkgs[i].group # g
  <2>1. ASSUME NEW n \in Monitors, Storing(n)', Of(n)'.group = g PROVE Storing(n) /\ Of(n).group = g
    <3>1. n # m
      BY <1>1, <1>6, <2>1 DEF Of
    <3> QED
      BY <1>1, <2>1, <3>1 DEF Storing, Of
  <2>2. \A n \in Monitors : Collates(n, g)' =>
          /\ Collates(n, g) /\ monitor'[n].group_list = monitor[n].group_list
          /\ At(n, "forget")' => At(n, "forget")
          /\ At(n, "acknowledge")' => At(n, "acknowledge")
    BY <1>1, <1>4 DEF Collates, Busy, At
  <2>3. \A n \in Monitors : Collates(n, g) => Collates(n, g)'
    BY <1>1 DEF Collates, Busy, At
  <2> QED
    BY <1>1, <1>2, <2>1, <2>2, <2>3, GroupKept
<1> QED
  BY <1>5, <1>6

\* async_iter enqueues the next of a run's packages.
LEMMA PushIs ==
  ASSUME AInv, Push
  PROVE /\ obj.kind = "Iter" /\ Grows /\ Run \in Groups
        /\ \A g \in Groups : g # Run => Members(g)' = Members(g)
        /\ ~Full(Run)
        /\ UNCHANGED <<conf, delivered, failed, acked, monitor, keys, args, cache, rows, faults,
                       answer, asked>>
<1>1. /\ call.pc = "push" /\ obj.kind = "Iter" /\ runs < Cardinality(Groups)
      /\ UNCHANGED <<conf, delivered, failed, acked, monitor, keys, args, cache, rows, faults,
                     answer, asked>>
  BY DEF Push, AInv, CallOK
<1>2. obj \in Objects /\ obj.length \in 0..MaxLength
  BY DEF AInv, ObjOK, Objects
<1>3. call \in [pc : {"push"}, left : 1..MaxLength, iter_cached : BOOLEAN] /\ call.left <= obj.length
  BY <1>1 DEF AInv, CallOK, Calls, Free
<1>4. /\ call.left \in Nat /\ call.left > 0 /\ call.iter_cached \in BOOLEAN /\ obj.length \in Nat
      /\ obj.length > 0
  BY <1>2, <1>3, Constants
<1>5. Run \in Groups /\ Run = runs + 1 /\ runs \in Nat
  BY <1>1, RunNumber
<1>6. PICK item : item = obj.length - call.left + 1
  OBVIOUS
<1>7. item \in Nat
  BY <1>3, <1>4, <1>6
<1>8. PICK q : q = Pkg(item, Run)
  OBVIOUS
<1>9. q \in Package /\ q.group = Run
  BY <1>1, <1>5, <1>7, <1>8, PkgIs
<1>10. PICK p : p = [q EXCEPT !.iter_count = obj.length, !.cached = TRUE, !.iter_cached = call.iter_cached]
  OBVIOUS
<1>11. p \in Package /\ p.group = Run
  BY <1>4, <1>9, <1>10 DEF Package
<1>12. pkgs' = Append(pkgs, p) /\ Len(pkgs) < MaxPackages
  BY <1>6, <1>8, <1>10 DEF Push, async_task
<1>13. obj'.kind = obj.kind
  <2>1. Talk
    BY DEF Talk, Calling
  <2> QED
    BY <2>1, TalkKind
<1>14. /\ Grows /\ DOMAIN pkgs' = DOMAIN pkgs \cup {Len(pkgs) + 1} /\ pkgs'[Len(pkgs) + 1] = p
       /\ \A i \in DOMAIN pkgs : pkgs'[i] = pkgs[i]
  BY <1>1, <1>11, <1>12, <1>13, AddPkg
<1>15. \A g \in Groups : g # Run => Members(g)' = Members(g)
  BY <1>11, <1>14 DEF Members
<1>16. ASSUME Full(Run) PROVE FALSE
  <2>1. PICK i \in Members(Run) : TRUE
    BY <1>16 DEF Full
  <2>2. \A j \in Members(Run) : /\ pkgs[j].iter_count = obj.length /\ pkgs[j].item \in Nat
                                /\ pkgs[j].item <= obj.length - call.left
    <3>1. \A j \in Members(Run) : j \in DOMAIN pkgs /\ pkgs[j].run = runs + 1 /\ pkgs[j].item \in Nat
      BY <1>1, <1>5 DEF Members, AInv, PkgsOK, PkgOK, Package
    <3> QED
      BY <3>1, <1>1 DEF AInv, PkgsOK
  <2>3. obj.length \in 1..pkgs[i].iter_count
    BY <2>2, <1>4
  <2>4. PICK j \in Members(Run) : pkgs[j].item = obj.length
    BY <2>3, <1>16 DEF Full
  <2> QED
    BY <2>2, <2>4, <1>4
<1> QED
  BY <1>1, <1>5, <1>14, <1>15, <1>16

\* The program starts or continues a run.
LEMMA CollatingTalk ==
  ASSUME AInv, Talk, obj.kind = "Iter", NEW g \in Groups, Collating(g)
  PROVE Collating(g)'
<1>1. UNCHANGED <<delivered, monitor>>
  BY TalkFrame
<1>2. CASE UNCHANGED <<pkgs, keys, args, cache, rows>>
  BY <1>1, <1>2 DEF Collating, CollatesOK, Collates, Cleared, Full, Storing, Members, Of, Busy, At
<1>3. CASE Push
  <2>1. UNCHANGED <<keys, args, cache, rows>>
    BY <1>3, PushIs
  <2>2. CASE g = Run
    BY <1>1, <1>3, <2>1, <2>2, PushIs, NotFull DEF Collates, Busy, At
  <2>3. CASE g # Run
    <3>1. \A n \in Monitors : Storing(n)' /\ Of(n)'.group = g => Storing(n) /\ Of(n).group = g
      <4>1. ASSUME NEW n \in Monitors, Storing(n)' PROVE Storing(n) /\ Of(n)' = Of(n)
        <5>1. Storing(n) /\ Busy(n)
          BY <1>1, <4>1 DEF Storing, Busy, At
        <5>2. monitor[n].name \in DOMAIN pkgs
          BY <5>1 DEF AInv, MonitorsOK, TaskOK
        <5> QED
          BY <1>1, <1>3, <5>1, <5>2, PushIs DEF Of, Grows
      <4> QED
        BY <4>1
    <3> QED
      BY <1>1, <1>3, <2>1, <2>3, <3>1, PushIs, GroupKept DEF Collates, Busy, At
  <2> QED
    BY <2>2, <2>3
<1>4. CASE run
  <2>1. RunIter /\ call = Free /\ runs < Cardinality(Groups)
    BY <1>4 DEF run, RunTask, RunChain
  <2>2. UNCHANGED <<pkgs, keys, cache, rows>> /\ args' = args \cup {Run}
    BY <1>4, <2>1 DEF run, RunIter
  <2>3. Grows /\ Members(g)' = Members(g)
    <3>1. obj'.kind = obj.kind
      BY TalkKind
    <3> QED
      BY <1>1, <2>2, <3>1, TalkFrame, StillGrows DEF Members
  <2>4. CASE g = Run
    <3>1. ~Full(g)
      <4>1. ASSUME NEW i \in Members(g) PROVE FALSE
        <5>1. i \in DOMAIN pkgs /\ pkgs[i].run = Run /\ pkgs[i].run <= runs
          BY <2>1, <2>4 DEF Members, AInv, PkgsOK, PkgOK, Free
        <5> QED
          BY <5>1, <2>1, RunNumber
      <4> QED
        BY <4>1 DEF Full
    <3> QED
      BY <1>1, <2>2, <3>1, NotFull DEF Collates, Busy, At
  <2>5. CASE g # Run
    <3>1. \A n \in Monitors : Storing(n)' /\ Of(n)'.group = g => Storing(n) /\ Of(n).group = g
      BY <1>1, <2>2 DEF Storing, Of
    <3>2. g \in args' => g \in args
      BY <2>2, <2>5
    <3> QED
      BY <1>1, <2>2, <2>3, <3>1, <3>2, GroupKept DEF Collates, Busy, At
  <2> QED
    BY <2>4, <2>5
<1> QED
  <2>1. CASE append
    <3>1. AppendArguments
      BY <2>1 DEF append, AppendLink
    <3> QED
      BY <1>2, <2>1, <3>1 DEF append, AppendArguments
  <2>2. CASE ~append /\ ~run /\ call.pc # "push"
    BY <1>2, <2>2, TalkFrame
  <2>3. CASE ~append /\ ~run /\ call.pc = "push" /\ ~Push
    <3>1. ~Counted /\ ~Poll /\ ~GetRow /\ ~GetMembers /\ ~Ask /\ ~Elapse /\ ~SetOption
      BY <2>3 DEF Counted, Poll, GetRow, GetMembers, Ask, Elapse, Free, SetOption
    <3> QED
      BY <2>3, <3>1 DEF Talk, Calling
  <2> QED
    BY <1>3, <1>4, <2>1, <2>2, <2>3


\* Without a fault there was none before, and what a monitor is given is new.
LEMMA Faultless ==
  ASSUME AInv, [ApiNext]_allVars, faults' = 0
  PROVE /\ faults = 0
        /\ \/ Talk \/ UNCHANGED allVars
           \/ \E m \in Monitors :
                /\ UNCHANGED api
                /\ \/ Step(m)
                   \/ \E i \in DOMAIN pkgs, success \in BOOLEAN :
                        Deliver(m, i, success) /\ delivered[i] = 0
<1>1. CASE Talk
  BY <1>1, TalkFrame
<1>2. CASE UNCHANGED allVars
  BY <1>2 DEF allVars, vars
<1>3. CASE Monitoring /\ UNCHANGED api
  <2>1. PICK m \in Monitors : \/ \E i \in DOMAIN pkgs, success \in BOOLEAN : Deliver(m, i, success)
                              \/ Step(m) \/ Raise(m) \/ Die(m)
    BY <1>3 DEF Monitoring
  <2>2. CASE Step(m)
    BY <1>3, <2>2, StoresIs DEF Stores
  <2>3. CASE Raise(m) \/ Die(m)
    BY <2>3, RaiseIs
  <2>4. CASE \E i \in DOMAIN pkgs, success \in BOOLEAN : Deliver(m, i, success)
    <3>1. PICK i \in DOMAIN pkgs, success \in BOOLEAN : Deliver(m, i, success)
      BY <2>4
    <3>2. delivered[i] = 0 /\ faults' = faults
      BY <3>1, DeliverIs
    <3> QED
      BY <1>3, <3>1, <3>2
  <2> QED
    BY <2>1, <2>2, <2>3, <2>4
<1> QED
  BY <1>1, <1>2, <1>3 DEF ApiNext, Talk

\* While nothing fails and nothing is delivered again, what is collated is complete
\* and what it was made of goes.
ClearInv == faults = 0 => Unstored /\ (obj.kind = "Iter" => \A g \in Groups : Collating(g))

LEMMA ClearNext == ASSUME AInv, AInv', ClearInv, [ApiNext]_allVars PROVE ClearInv'
<1> SUFFICES ASSUME faults' = 0 PROVE Unstored' /\ (obj'.kind = "Iter" => \A g \in Groups : Collating(g)')
  BY DEF ClearInv
<1>1. faults = 0 /\ Alone
  BY Faultless, AloneOK
<1>2. Unstored /\ (obj.kind = "Iter" => \A g \in Groups : Collating(g))
  BY <1>1 DEF ClearInv
<1>3. CASE Talk
  <2>1. Unstored' /\ obj'.kind = obj.kind
    BY <1>2, <1>3, UnstoredTalk, TalkKind
  <2> QED
    BY <1>2, <1>3, <2>1, CollatingTalk
<1>4. CASE UNCHANGED allVars
  BY <1>2, <1>4 DEF allVars, vars, api, Unstored, Storing, At, Busy, Collating, CollatesOK, Collates,
     Cleared, Full, Members, Of
<1>5. ASSUME NEW m \in Monitors, UNCHANGED api, Step(m)
      PROVE Unstored' /\ (obj'.kind = "Iter" => \A g \in Groups : Collating(g)')
  <2>1. Unstored'
    BY <1>1, <1>2, <1>5, StoresIs, UnstoredStep
  <2> QED
    BY <1>1, <1>2, <1>5, <2>1, CollatingStep DEF api
<1>6. ASSUME NEW m \in Monitors, UNCHANGED api, NEW i \in DOMAIN pkgs, NEW success \in BOOLEAN,
             Deliver(m, i, success), delivered[i] = 0
      PROVE Unstored' /\ (obj'.kind = "Iter" => \A g \in Groups : Collating(g)')
  <2>1. Unstored'
    BY <1>2, <1>6, UnstoredDeliver
  <2> QED
    BY <1>2, <1>6, <2>1, CollatingDeliver DEF api
<1> QED
  BY <1>3, <1>4, <1>5, <1>6, Faultless

LEMMA ClearInit == ASSUME ApiInit PROVE ClearInv
<1>1. \A m \in Monitors : monitor[m] = Waiting
  BY DEF ApiInit, Init
<1>2. \A m \in Monitors : monitor[m].pc = "get"
  BY <1>1 DEF Waiting
<1>3. cache = <<>> /\ rows = <<>> /\ DOMAIN cache = {} /\ DOMAIN rows = {}
  BY DEF ApiInit, Init
<1>4. Unstored
  BY <1>2 DEF Unstored, Storing, Busy, At
<1>5. \A g \in Groups : Collating(g)
  BY <1>2, <1>3 DEF Collating, Collates, Busy, At
<1> QED
  BY <1>4, <1>5 DEF ClearInv

\* After an iterable was collated and the monitors are through, its keys, arguments and
\* members are gone from the cache (delete_many in save_cached), if nothing was
\* delivered twice and nothing failed.
THEOREM NothingIsLeft == ApiSpec => []CacheCleared
<1>1. ApiInit => ClearInv
  BY ClearInit
<1>2. AInv /\ AInv' /\ ClearInv /\ [ApiNext]_allVars => ClearInv'
  BY ClearNext
<1>3. AInv /\ ClearInv => CacheCleared
  <2> SUFFICES ASSUME AInv, ClearInv, NEW g \in Groups, faults = 0,
                      -g \in DOMAIN cache \cup DOMAIN rows, \A m \in Monitors : At(m, "get")
               PROVE Cleared(g)
    BY DEF CacheCleared, Cleared
  <2>1. -g < 0
    BY Constants
  <2>2. obj.kind = "Iter"
    <3>1. -g \in DOMAIN cache => CachedOK(-g, cache[-g])
      BY DEF AInv, CacheOK
    <3>2. -g \in DOMAIN rows => RowOK(-g, rows[-g])
      BY DEF AInv, RowsOK
    <3> QED
      BY <2>1, <3>1, <3>2 DEF CachedOK, RowOK, Made
  <2>3. Collating(g)
    BY <2>2 DEF ClearInv
  <2> QED
    BY <2>3 DEF Collating, Collates, Busy
<1> QED
  BY <1>1, <1>2, <1>3, ResultsInvariant, PTL DEF ApiSpec


-----------------------------------------------------------------------------
\* What the program does leaves the packages as they are.
LEMMA TalkGrows ==
  ASSUME AInv, Talk
  PROVE /\ Grows
        /\ \A n \in Monitors : Busy(n) => monitor[n].name \in DOMAIN pkgs /\ Of(n)' = Of(n)
<1>1. obj'.kind = obj.kind /\ UNCHANGED <<delivered, failed, monitor>>
  BY TalkKind, TalkFrame
<1>2. Grows
  <2>1. CASE pkgs' = pkgs
    BY <1>1, <2>1, StillGrows
  <2>2. CASE Push
    BY <2>2, PushIs
  <2>3. CASE run /\ RunTask
    <3>1. runs < Cardinality(Groups) /\ async_task(Pkg(1, 1))
      BY <2>3 DEF run, RunTask
    <3>2. Pkg(1, 1) \in Package
      BY <3>1, RunNumber, PkgIs
    <3> QED
      BY <1>1, <3>1, <3>2, AddPkg DEF async_task
  <2>4. CASE run /\ RunChain
    <3>1. PICK p \in Package : async_task(p)
      BY <2>4, RunChainIs
    <3> QED
      BY <1>1, <3>1, AddPkg DEF async_task
  <2>5. CASE run /\ RunIter
    BY <1>1, <2>5, StillGrows DEF RunIter
  <2>6. ~append => pkgs' = pkgs \/ run \/ Push
    <3>1. CASE ~run /\ call.pc = "push" /\ ~Push
      BY <3>1 DEF Talk, Calling, Counted, Poll, GetRow, GetMembers, Ask, Elapse, Free, SetOption, append
    <3> QED
      BY <3>1, TalkFrame
  <2>7. append => pkgs' = pkgs
    BY DEF append
  <2> QED
    BY <2>1, <2>2, <2>3, <2>4, <2>5, <2>6, <2>7 DEF run
<1>3. ASSUME NEW n \in Monitors, Busy(n) PROVE monitor[n].name \in DOMAIN pkgs /\ Of(n)' = Of(n)
  <2>1. monitor[n].name \in DOMAIN pkgs
    BY <1>3 DEF AInv, MonitorsOK, TaskOK
  <2> QED
    BY <1>1, <1>2, <2>1 DEF Of, Grows
<1> QED
  BY <1>2, <1>3

\* An entry, or the monitor that is about to set it, is there until it is deleted.
LEMMA BackedKept ==
  ASSUME AInv, NEW m \in Monitors, Step(m), UNCHANGED api, NEW i \in DOMAIN pkgs, pkgs[i].cached,
         Backed(i), ~DeleteMembers(m) \/ i \notin ToSet(monitor[m].group_list)
  PROVE Backed(i)'
<1>1. Stores(m)
  BY StoresIs
<1>2. i \in Nat /\ i > 0
  BY Constants DEF AInv, PkgsOK
<1>3. CASE i \in DOMAIN cache
  <2>1. CASE DeleteMembers(m)
    BY <1>3, <2>1, DeleteMembersIs DEF Backed
  <2>2. CASE SetTask(m)
    BY <1>3, <2>2, SetTaskIs DEF Backed
  <2>3. CASE ~DeleteMembers(m) /\ ~SetTask(m)
    <3>1. cache' = cache
      BY <2>3 DEF Step, ReadList, Collate, Extend, Progress, DeleteGroup, Prune, Find, Write, Acknowledge
    <3> QED
      BY <1>3, <3>1 DEF Backed
  <2> QED
    BY <2>1, <2>2, <2>3
<1>4. ASSUME NEW n \in Monitors, At(n, "chain") \/ At(n, "set"), monitor[n].id = i
      PROVE Backed(i)'
  <2>1. CASE n # m
    <3>1. monitor'[n] = monitor[n]
      BY <1>1, <2>1 DEF Stores, Others
    <3> QED
      BY <1>4, <3>1 DEF Backed, At
  <2>2. CASE n = m
    <3>1. monitor[m].name = i
      BY <1>1, <1>2, <1>4, <2>2 DEF Stores, TaskOK
    <3>2. CASE SetTask(m)
      BY <1>4, <2>2, <3>2, SetTaskIs DEF Backed
    <3>3. CASE Progress(m)
      <4>1. Move(m, "set")
        BY <3>1, <3>3 DEF Progress, Of
      <4>2. monitor'[m].pc = "set" /\ monitor'[m].id = i
        BY <1>1, <1>4, <2>2, <4>1, MovesIs DEF Stores, Same
      <4> QED
        BY <4>2 DEF Backed, At
    <3>4. SetTask(m) \/ Progress(m)
      BY <1>4, <2>2 DEF Step, At, ReadList, Collate, Extend, DeleteMembers, DeleteGroup, Prune, Find,
         Write, Acknowledge
    <3> QED
      BY <3>2, <3>3, <3>4
  <2> QED
    BY <2>1, <2>2
<1> QED
  BY <1>3, <1>4 DEF Backed

\* What keeps a group as Torn says.
LEMMA TornKept ==
  ASSUME AInv, NEW g \in Groups, Torn(g), keys'[g] = keys[g] \/ keys'[g] = <<>>,
         \A i \in Members(g) : (pkgs[i].cached /\ Backed(i)) => Backed(i)',
         Forgets(g) => Forgets(g)' \/ keys'[g] = <<>>,
         \A n \in Monitors : ((At(n, "collate")' \/ At(n, "extend")') /\ Of(n)'.group = g) =>
           /\ (At(n, "collate") \/ At(n, "extend")) /\ Of(n).group = g
           /\ monitor'[n].group_list = monitor[n].group_list
  PROVE Torn(g)'
<1>1. Listed(g, keys[g])
  BY DEF AInv, KeysOK
<1>2. \A k \in DOMAIN keys'[g] : Backed(keys[g][k])' \/ Forgets(g)'
  <2>1. CASE keys'[g] = <<>>
    <3>1. DOMAIN keys'[g] = {}
      BY <2>1
    <3> QED
      BY <3>1
  <2>2. CASE keys'[g] = keys[g] /\ keys'[g] # <<>>
    <3>1. ASSUME NEW k \in DOMAIN keys'[g] PROVE Backed(keys[g][k])' \/ Forgets(g)'
      <4>1. PICK i : i = keys[g][k] /\ k \in DOMAIN keys[g]
        BY <2>2, <3>1
      <4>2. i \in Members(g) /\ pkgs[i].cached
        BY <1>1, <4>1 DEF Listed
      <4>3. Backed(i) \/ Forgets(g)
        BY <4>1 DEF Torn
      <4>4. Backed(i)' \/ Forgets(g)'
        BY <2>2, <4>2, <4>3
      <4>5. i = keys'[g][k]
        BY <2>2, <4>1
      <4> QED
        BY <4>4, <4>5 DEF Backed, At
    <3> QED
      BY <3>1
  <2> QED
    BY <2>1, <2>2
<1>3. ASSUME NEW n \in Monitors, At(n, "collate")' \/ At(n, "extend")', Of(n)'.group = g,
             NEW k \in DOMAIN monitor'[n].group_list
      PROVE Backed(monitor[n].group_list[k])'
  <2>1. /\ At(n, "collate") \/ At(n, "extend")
        /\ Of(n).group = g /\ monitor'[n].group_list = monitor[n].group_list
    BY <1>3
  <2>2. PICK i : i = monitor[n].group_list[k] /\ k \in DOMAIN monitor[n].group_list
    BY <1>3, <2>1
  <2>3. Backed(i)
    BY <2>1, <2>2 DEF Torn
  <2>4. TaskOK(monitor[n])
    BY <2>1, AtBusy DEF AInv, MonitorsOK
  <2>5. i \in Members(g) /\ pkgs[i].cached
    BY <1>3, <2>1, <2>2, <2>4 DEF TaskOK, Listed, Of
  <2>6. Backed(i)'
    BY <2>3, <2>5
  <2>7. i = monitor'[n].group_list[k]
    BY <2>1, <2>2
  <2> QED
    BY <2>6, <2>7 DEF Backed, At
<1> QED
  BY <1>2, <1>3 DEF Torn


\* A member is at hand in no other monitor's group than its own.
LEMMA MemberOf == ASSUME AInv, NEW n \in Monitors, Busy(n)
                  PROVE /\ TaskOK(monitor[n]) /\ Of(n).group \in Groups
                        /\ monitor[n].name \in Members(Of(n).group)
                        /\ Reading(n) => Storing(n)
                        /\ monitor[n].id < 0 => Collates(n, Of(n).group) /\ obj.kind = "Iter"
<1>1. TaskOK(monitor[n])
  BY DEF AInv, MonitorsOK
<1>2. /\ Of(n).group \in Groups /\ monitor[n].name \in Members(Of(n).group)
      /\ monitor[n].name > 0 /\ monitor[n].id \in Int
  BY <1>1, TaskPkg, Constants DEF Of, Members
<1>3. Reading(n) => Storing(n)
  BY <1>1, <1>2 DEF TaskOK, Reading, Storing, At
<1>4. monitor[n].id < 0 => Collates(n, Of(n).group) /\ obj.kind = "Iter"
  BY <1>1, <1>2 DEF TaskOK, Collates, Of, Made
<1> QED
  BY <1>1, <1>2, <1>3, <1>4

\* Who deletes an iterable's members or keys has collated all of them.
LEMMA ForgetsAll ==
  ASSUME AInv, NEW n \in Monitors, At(n, "delete") \/ At(n, "forget"), NEW g \in Groups,
         Of(n).group = g, obj.kind = "Iter" => Collating(g)
  PROVE Full(g)
<1>1. Busy(n)
  BY AtBusy
<1>2. monitor[n].id < 0
  BY <1>1, MemberOf, TaskPkg DEF TaskOK, At
<1> QED
  BY <1>1, <1>2, MemberOf DEF Collating, CollatesOK

\* What a step of a monitor is to the others, as far as Torn is concerned.
LEMMA TornFrame ==
  ASSUME AInv, NEW m \in Monitors, Step(m), UNCHANGED api, NEW g \in Groups
  PROVE /\ Stores(m) /\ Busy(m) /\ Of(m).group \in Groups /\ TaskOK(monitor[m])
        /\ \A i \in Members(g) : (/\ pkgs[i].cached
                                 /\ Backed(i)
                                 /\ (~DeleteMembers(m) \/ i \notin ToSet(monitor[m].group_list)))
                                  => Backed(i)'
        /\ \A n \in Monitors : Busy(n)' => Of(n)' = Of(n) /\ Busy(n)
        /\ \A n \in Monitors : (n # m /\ (At(n, "collate")' \/ At(n, "extend")')) =>
             /\ At(n, "collate") \/ At(n, "extend")
             /\ Of(n)' = Of(n) /\ monitor'[n].group_list = monitor[n].group_list
        /\ (~DeleteGroup(m) /\ Forgets(g)) => Forgets(g)'
<1> DEFINE h == Of(m).group
<1>1. Stores(m) /\ Busy(m) /\ h \in Groups /\ TaskOK(monitor[m])
  BY StoresIs, MemberOf DEF Stores
<1>2. \A i \in Members(g) : (pkgs[i].cached /\ Backed(i) /\
          (~DeleteMembers(m) \/ i \notin ToSet(monitor[m].group_list))) => Backed(i)'
  BY BackedKept DEF Members
<1>3. ASSUME NEW n \in Monitors, Busy(n)'
      PROVE Of(n)' = Of(n) /\ Busy(n)
  <2>1. Busy(n) /\ monitor'[n].name = monitor[n].name
    BY <1>1, <1>3 DEF Stores, Others, Busy, At
  <2>2. monitor[n].name \in DOMAIN pkgs
    BY <2>1, MemberOf DEF Members
  <2> QED
    BY <1>1, <2>1, <2>2 DEF Stores, Grows, Of
<1>4. ASSUME NEW n \in Monitors, n # m, At(n, "collate")' \/ At(n, "extend")'
      PROVE /\ At(n, "collate") \/ At(n, "extend")
            /\ Of(n)' = Of(n) /\ monitor'[n].group_list = monitor[n].group_list
  <2>1. monitor'[n] = monitor[n]
    BY <1>1, <1>4 DEF Stores, Others
  <2> QED
    BY <1>3, <1>4, <2>1 DEF At, Busy
<1>5. ASSUME ~DeleteGroup(m), Forgets(g) PROVE Forgets(g)'
  <2>1. PICK n \in Monitors : At(n, "forget") /\ Of(n).group = g
    BY <1>5 DEF Forgets
  <2>2. n # m
    BY <1>5, <2>1 DEF Step, ReadList, Collate, Extend, Progress, SetTask, DeleteMembers, Prune, Find,
       Write, Acknowledge, At
  <2>3. monitor'[n] = monitor[n]
    BY <1>1, <2>2 DEF Stores, Others
  <2>4. At(n, "forget")' /\ Of(n)'.group = g
    BY <1>3, <2>1, <2>3 DEF At, Busy
  <2> QED
    BY <2>4 DEF Forgets
<1> QED
  BY <1>1, <1>2, <1>3, <1>4, <1>5

LEMMA TornRead ==
  ASSUME AInv, NEW m \in Monitors, ReadList(m), UNCHANGED api, NEW g \in Groups, Torn(g),
         obj.kind = "Iter" => Collating(g)
  PROVE Torn(g)'
<1> DEFINE h == Of(m).group
<1>0. Step(m) /\ ~DeleteMembers(m) /\ ~DeleteGroup(m)
  BY DEF Step, ReadList, DeleteMembers, DeleteGroup, At
<1>1. /\ Stores(m) /\ Busy(m) /\ h \in Groups /\ TaskOK(monitor[m])
      /\ \A i \in Members(g) : (pkgs[i].cached /\ Backed(i)) => Backed(i)'
      /\ Forgets(g) => Forgets(g)'
  BY <1>0, TornFrame
<1>2. \A n \in Monitors : Busy(n)' => Of(n)' = Of(n) /\ Busy(n)
  BY <1>0, TornFrame
<1>3. \A n \in Monitors : (n # m /\ (At(n, "collate")' \/ At(n, "extend")')) =>
             /\ At(n, "collate") \/ At(n, "extend")
             /\ Of(n)' = Of(n) /\ monitor'[n].group_list = monitor[n].group_list
  BY <1>0, TornFrame
<1>4. /\ monitor'[m].pc \in {"collate", "extend"} /\ monitor'[m].group_list = keys[h]
      /\ keys' = keys
  BY ReadListIs
<1>5. CASE h # g
  <2>1. ~(Of(m)'.group = g)
    BY <1>2, <1>4, <1>5 DEF Busy, At
  <2> QED
    BY <1>1, <1>3, <1>4, <2>1, TornKept
<1>6. CASE h = g
  <2>1. ~Forgets(g)
    <3>1. Storing(m)
      BY <1>1, MemberOf DEF ReadList, Reading
    <3> QED
      BY <3>1, <1>6, ForgetsAll DEF Forgets, Full
  <2>2. ASSUME NEW k \in DOMAIN keys[g] PROVE Backed(keys[g][k])'
    <3>1. PICK i : i = keys[g][k]
      OBVIOUS
    <3>2. Backed(i) /\ i \in Members(g) /\ pkgs[i].cached
      BY <2>1, <3>1 DEF Torn, AInv, KeysOK, Listed
    <3>3. Backed(i)'
      BY <1>1, <3>2
    <3> QED
      BY <1>4, <3>1, <3>3 DEF Backed, At
  <2>3. ASSUME NEW n \in Monitors, At(n, "collate")' \/ At(n, "extend")', Of(n)'.group = g,
               NEW k \in DOMAIN monitor'[n].group_list
        PROVE Backed(monitor[n].group_list[k])'
    <3>1. CASE n = m
      BY <1>4, <1>6, <2>2, <2>3, <3>1 DEF Backed, At
    <3>2. CASE n # m
      <4>1. PICK i : i = monitor[n].group_list[k] /\ k \in DOMAIN monitor[n].group_list
        BY <1>3, <2>3, <3>2
      <4>2. (At(n, "collate") \/ At(n, "extend")) /\ Of(n).group = g
        BY <1>3, <2>3, <3>2
      <4>3. TaskOK(monitor[n])
        BY <4>2, MemberOf, AtBusy
      <4>4. Backed(i) /\ i \in Members(g) /\ pkgs[i].cached
        BY <4>1, <4>2, <4>3 DEF Torn, TaskOK, Listed, Of
      <4>5. Backed(i)' /\ i = monitor'[n].group_list[k]
        BY <1>1, <1>3, <2>3, <3>2, <4>1, <4>4
      <4> QED
        BY <4>5 DEF Backed, At
    <3> QED
      BY <3>1, <3>2
  <2> QED
    BY <1>4, <2>2, <2>3 DEF Torn
<1> QED
  BY <1>5, <1>6

LEMMA TornExtend ==
  ASSUME AInv, NEW m \in Monitors, Extend(m), UNCHANGED api, NEW g \in Groups, Torn(g)
  PROVE Torn(g)'
<1> DEFINE h == Of(m).group
           t == monitor[m]
<1>0. Step(m) /\ ~DeleteMembers(m) /\ ~DeleteGroup(m)
  BY DEF Step, Extend, DeleteMembers, DeleteGroup, At
<1>1. /\ Stores(m) /\ Busy(m) /\ h \in Groups /\ TaskOK(t)
      /\ \A i \in Members(g) : (pkgs[i].cached /\ Backed(i)) => Backed(i)'
      /\ Forgets(g) => Forgets(g)'
  BY <1>0, TornFrame
<1>2. \A n \in Monitors : (n # m /\ (At(n, "collate")' \/ At(n, "extend")')) =>
             /\ At(n, "collate") \/ At(n, "extend")
             /\ Of(n)' = Of(n) /\ monitor'[n].group_list = monitor[n].group_list
  BY <1>0, TornFrame
<1>3. /\ monitor'[m].pc \in {"chain", "set"} /\ monitor'[m].id = t.name
      /\ DOMAIN keys'[h] = DOMAIN t.group_list \cup {Len(t.group_list) + 1}
      /\ \A a \in DOMAIN t.group_list : keys'[h][a] = t.group_list[a]
      /\ keys'[h][Len(t.group_list) + 1] = t.name
      /\ h # g => keys'[g] = keys[g]
  BY ExtendIs DEF Same
<1>4. ~(At(m, "collate")' \/ At(m, "extend")')
  BY <1>3 DEF At
<1>5. CASE h # g
  BY <1>1, <1>2, <1>3, <1>4, <1>5, TornKept
<1>6. CASE h = g
  <2>1. ASSUME NEW k \in DOMAIN keys'[g] PROVE Backed(keys[g][k])'
    <3>1. CASE keys'[g][k] = t.name
      BY <1>3, <3>1 DEF Backed, At
    <3>2. CASE k \in DOMAIN t.group_list /\ keys'[g][k] = t.group_list[k]
      <4>1. PICK i : i = t.group_list[k]
        OBVIOUS
      <4>2. Backed(i)
        BY <1>6, <3>2, <4>1 DEF Torn, Extend
      <4>3. i \in Members(g) /\ pkgs[i].cached
        BY <1>1, <1>6, <3>2, <4>1 DEF TaskOK, Listed, Of
      <4>4. Backed(i)' /\ i = keys'[g][k]
        BY <1>1, <3>2, <4>1, <4>2, <4>3
      <4> QED
        BY <4>4 DEF Backed, At
    <3> QED
      BY <1>3, <1>6, <2>1, <3>1, <3>2
  <2>2. ASSUME NEW n \in Monitors, At(n, "collate")' \/ At(n, "extend")', Of(n)'.group = g,
               NEW k \in DOMAIN monitor'[n].group_list
        PROVE Backed(monitor[n].group_list[k])'
    <3>1. n # m /\ (At(n, "collate") \/ At(n, "extend")) /\ Of(n).group = g
      BY <1>2, <1>4, <2>2
    <3>2. PICK i : i = monitor[n].group_list[k] /\ k \in DOMAIN monitor[n].group_list
      BY <1>2, <2>2, <3>1
    <3>3. TaskOK(monitor[n])
      BY <3>1, MemberOf, AtBusy
    <3>4. Backed(i) /\ i \in Members(g) /\ pkgs[i].cached
      BY <3>1, <3>2, <3>3 DEF Torn, TaskOK, Listed, Of
    <3>5. Backed(i)' /\ i = monitor'[n].group_list[k]
      BY <1>1, <1>2, <2>2, <3>1, <3>2, <3>4
    <3> QED
      BY <3>5 DEF Backed, At
  <2> QED
    BY <2>1, <2>2 DEF Torn
<1> QED
  BY <1>5, <1>6


LEMMA TornDelete ==
  ASSUME AInv, NEW m \in Monitors, DeleteMembers(m), UNCHANGED api, NEW g \in Groups, Torn(g),
         obj.kind = "Iter" => Collating(g)
  PROVE Torn(g)'
<1> DEFINE h == Of(m).group
<1>0. Step(m) /\ ~DeleteGroup(m)
  BY DEF Step, DeleteMembers, DeleteGroup, At
<1>1. /\ Stores(m) /\ Busy(m) /\ h \in Groups /\ TaskOK(monitor[m])
      /\ \A i \in Members(g) : (pkgs[i].cached /\ Backed(i) /\ i \notin ToSet(monitor[m].group_list))
                                => Backed(i)'
      /\ Forgets(g) => Forgets(g)'
  BY <1>0, TornFrame
<1>2. \A n \in Monitors : (n # m /\ (At(n, "collate")' \/ At(n, "extend")')) =>
             /\ At(n, "collate") \/ At(n, "extend")
             /\ Of(n)' = Of(n) /\ monitor'[n].group_list = monitor[n].group_list
  BY <1>0, TornFrame
<1>3. monitor'[m].pc = "forget" /\ monitor'[m].name = monitor[m].name /\ keys' = keys /\ pkgs' = pkgs
  BY DeleteMembersIs DEF Same
<1>4. ~(At(m, "collate")' \/ At(m, "extend")')
  BY <1>3 DEF At
<1>5. CASE h # g
  <2>1. \A i \in Members(g) : i \notin ToSet(monitor[m].group_list)
    <3>1. ASSUME NEW i \in ToSet(monitor[m].group_list) PROVE i \in Members(h)
      BY <1>1, <3>1 DEF TaskOK, Listed, ToSet, Of
    <3> QED
      BY <1>5, <3>1 DEF Members
  <2> QED
    BY <1>1, <1>2, <1>3, <1>4, <2>1, TornKept
<1>6. CASE h = g
  <2>1. Full(g)
    BY <1>6, ForgetsAll DEF DeleteMembers
  <2>2. Forgets(g)'
    BY <1>3, <1>6 DEF Forgets, At, Of
  <2>3. ASSUME NEW n \in Monitors, At(n, "collate")' \/ At(n, "extend")', Of(n)'.group = g PROVE FALSE
    <3>1. (At(n, "collate") \/ At(n, "extend")) /\ Of(n).group = g
      BY <1>2, <1>4, <2>3
    <3>2. Storing(n)
      BY <3>1, MemberOf, AtBusy DEF Reading
    <3> QED
      BY <2>1, <3>1, <3>2 DEF Full
  <2> QED
    BY <2>2, <2>3 DEF Torn
<1> QED
  BY <1>5, <1>6

LEMMA TornForget ==
  ASSUME AInv, NEW m \in Monitors, DeleteGroup(m), UNCHANGED api, NEW g \in Groups, Torn(g)
  PROVE Torn(g)'
<1> DEFINE h == Of(m).group
<1>0. Step(m) /\ ~DeleteMembers(m)
  BY DEF Step, DeleteMembers, DeleteGroup, At
<1>1. /\ Stores(m) /\ Busy(m) /\ h \in Groups /\ TaskOK(monitor[m])
      /\ \A i \in Members(g) : (pkgs[i].cached /\ Backed(i)) => Backed(i)'
  BY <1>0, TornFrame
<1>2. \A n \in Monitors : (n # m /\ (At(n, "collate")' \/ At(n, "extend")')) =>
             /\ At(n, "collate") \/ At(n, "extend")
             /\ Of(n)' = Of(n) /\ monitor'[n].group_list = monitor[n].group_list
  BY <1>0, TornFrame
<1>3. /\ monitor'[m].pc = "acknowledge" /\ pkgs' = pkgs /\ Others(m)
      /\ keys'[h] = <<>> /\ (h # g => keys'[g] = keys[g])
  BY DeleteGroupIs DEF Same
<1>4. ~(At(m, "collate")' \/ At(m, "extend")')
  BY <1>3 DEF At
<1>5. Forgets(g) => Forgets(g)' \/ keys'[g] = <<>>
  BY <1>3 DEF Forgets, Others, At, Of
<1> QED
  BY <1>1, <1>2, <1>3, <1>4, <1>5, TornKept

LEMMA TornStep ==
  ASSUME AInv, NEW m \in Monitors, Step(m), UNCHANGED api, NEW g \in Groups, Torn(g),
         obj.kind = "Iter" => Collating(g)
  PROVE Torn(g)'
<1>1. CASE ~ReadList(m) /\ ~Extend(m) /\ ~DeleteMembers(m) /\ ~DeleteGroup(m)
  <2>1. keys' = keys
    BY <1>1 DEF Step, Collate, Progress, SetTask, Prune, Find, Write, Acknowledge
  <2>2. ~(At(m, "collate")' \/ At(m, "extend")')
    <3>1. CASE Collate(m)
      BY <3>1, CollateIs DEF At
    <3>2. CASE Progress(m)
      <4>1. PICK pc \in {"set", "prune"} : Move(m, pc)
        BY <3>2 DEF Progress
      <4>2. Busy(m)
        BY <3>2, AtBusy DEF Progress
      <4> QED
        BY <4>1, <4>2, MovesIs DEF At
    <3>3. CASE SetTask(m) \/ Write(m)
      BY <3>3, SetTaskIs, WriteIs DEF At, Stored1
    <3>4. CASE Prune(m) \/ Find(m)
      BY <3>4, PruneIs, FindIs DEF At
    <3>5. CASE Acknowledge(m)
      BY <3>5, AcknowledgeIs DEF At, Waiting
    <3> QED
      BY <1>1, <3>1, <3>2, <3>3, <3>4, <3>5 DEF Step
  <2>3. /\ \A i \in Members(g) : (pkgs[i].cached /\ Backed(i)) => Backed(i)'
        /\ Forgets(g) => Forgets(g)'
    BY <1>1, TornFrame
  <2>4. \A n \in Monitors : (n # m /\ (At(n, "collate")' \/ At(n, "extend")')) =>
             /\ At(n, "collate") \/ At(n, "extend")
             /\ Of(n)' = Of(n) /\ monitor'[n].group_list = monitor[n].group_list
    BY TornFrame
  <2> QED
    BY <2>1, <2>2, <2>3, <2>4, TornKept
<1> QED
  BY <1>1, TornRead, TornExtend, TornDelete, TornForget

LEMMA TornDeliver ==
  ASSUME AInv, NEW m \in Monitors, NEW i \in DOMAIN pkgs, NEW success \in BOOLEAN,
         Deliver(m, i, success), NEW g \in Groups, Torn(g)
  PROVE Torn(g)'
<1>1. /\ ~Busy(m) /\ \A n \in Monitors : n # m => monitor'[n] = monitor[n]
      /\ monitor'[m].pc \notin {"collate", "extend"}
      /\ UNCHANGED <<pkgs, keys, cache>>
  BY DeliverIs
<1>2. \A j : Backed(j) => Backed(j)'
  BY <1>1 DEF Backed, Busy, At
<1>3. Forgets(g) => Forgets(g)'
  BY <1>1 DEF Forgets, Busy, At, Of
<1>4. \A n \in Monitors : ((At(n, "collate")' \/ At(n, "extend")') /\ Of(n)'.group = g) =>
           /\ (At(n, "collate") \/ At(n, "extend")) /\ Of(n).group = g
           /\ monitor'[n].group_list = monitor[n].group_list
  BY <1>1 DEF At, Of
<1> QED
  BY <1>1, <1>2, <1>3, <1>4, TornKept

\* A chain's group is deleted when none of its packages is on its way.
LEMMA DeletesIs ==
  ASSUME AInv, append, UNCHANGED <<keys, cache, rows>> => FALSE
  PROVE /\ obj.kind = "Chain" /\ obj.started /\ delete_group(obj.group)
        /\ obj'.dirty = (obj.dirty \/ Outstanding(obj.group) \/ obj.cached # conf.CACHED)
        /\ obj' = [obj EXCEPT !.length = obj.length + 1, !.started = FALSE, !.ran = FALSE,
                              !.dirty = (obj.dirty \/ Outstanding(obj.group) \/ obj.cached # conf.CACHED)]
        /\ UNCHANGED <<pkgs, monitor, answer, call, runs, delivered, faults, conf>>
<1>1. AppendLink /\ UNCHANGED <<pkgs, monitor, call, runs, delivered, faults, conf>>
  BY DEF append, AppendArguments
<1>2. PICK d : d = (obj.dirty \/ Outstanding(obj.group) \/ obj.cached # conf.CACHED)
  OBVIOUS
<1>3. PICK l : l = obj.length + 1
  OBVIOUS
<1>4. obj.kind = "Chain" /\ obj.started /\ delete_group(obj.group) /\ answer' = answer
      /\ obj' = [[obj EXCEPT !.length = l] EXCEPT !.started = FALSE, !.ran = FALSE, !.dirty = d]
  BY <1>1, <1>2, <1>3 DEF AppendLink
<1>5. obj \in Objects
  BY DEF AInv, ObjOK
<1>6. obj' = [obj EXCEPT !.length = l, !.started = FALSE, !.ran = FALSE, !.dirty = d] /\ obj'.dirty = d
  BY <1>4, <1>5 DEF Objects
<1> QED
  BY <1>1, <1>2, <1>3, <1>4, <1>6


\* What was on its way once when a chain's group was deleted stays noted.
LEMMA DirtyStays == ASSUME AInv, Talk, ~obj'.dirty PROVE ~obj.dirty
<1>1. obj \in Objects
  BY DEF AInv, ObjOK
<1>2. CASE append
  <2>1. CASE AppendArguments
    BY <1>1, <2>1 DEF AppendArguments, Objects
  <2>2. CASE AppendLink
    <3>1. PICK l, d : l = obj.length + 1 /\ d = (obj.dirty \/ Outstanding(obj.group) \/ obj.cached # conf.CACHED)
      OBVIOUS
    <3>2. PICK longer : longer = [obj EXCEPT !.length = l]
      OBVIOUS
    <3>3. longer.dirty = obj.dirty /\ DOMAIN longer = DOMAIN obj
      BY <3>2, <1>1 DEF Objects
    <3>4. \/ obj' = longer
          \/ obj' = [longer EXCEPT !.dirty = TRUE]
          \/ obj' = [longer EXCEPT !.started = FALSE, !.ran = FALSE, !.dirty = d]
      BY <2>2, <3>1, <3>2 DEF AppendLink
    <3>5. "dirty" \in DOMAIN longer
      BY <3>3, <1>1 DEF Objects
    <3>6. obj'.dirty = obj.dirty \/ obj'.dirty = TRUE \/ obj'.dirty = d
      BY <3>3, <3>4, <3>5
    <3> QED
      BY <3>1, <3>6
  <2> QED
    BY <1>2, <2>1, <2>2 DEF append
<1>3. CASE SetOption
  BY <1>1, <1>3 DEF SetOption, Objects
<1>4. CASE run
  <2>1. CASE RunChain
    BY <1>4, <2>1, RunChainIs
  <2>2. CASE RunTask \/ RunIter
    BY <1>1, <2>2 DEF RunTask, RunIter, Objects
  <2> QED
    BY <1>4, <2>1, <2>2 DEF run
<1>5. CASE Ask \/ Elapse
  BY <1>5 DEF Ask, Elapse
<1>6. CASE Calling
  <2>1. CASE Push
    BY <1>1, <2>1 DEF Push, Objects
  <2>2. CASE Counted \/ Poll \/ GetRow \/ GetMembers
    BY <2>2 DEF Counted, Poll, GetRow, GetMembers
  <2> QED
    BY <1>6, <2>1, <2>2 DEF Calling
<1> QED
  BY <1>2, <1>3, <1>4, <1>5, <1>6 DEF Talk

\* All that a chain has is in its group.
LEMMA OneGroup ==
  ASSUME AInv, obj.kind = "Chain"
  PROVE /\ \A i \in DOMAIN pkgs : pkgs[i].group = obj.group
        /\ \A n \in Monitors : Busy(n) => Outstanding(obj.group)
        /\ \A g \in Groups : g # obj.group => keys[g] = <<>>
<1>1. \A i \in DOMAIN pkgs : pkgs[i].group = obj.group
  BY DEF AInv, PkgsOK, PkgOK
<1>2. ASSUME NEW n \in Monitors, Busy(n) PROVE Outstanding(obj.group)
  BY <1>1, <1>2, MemberOf DEF Members, Outstanding, Busy
<1>3. ASSUME NEW g \in Groups, g # obj.group PROVE keys[g] = <<>>
  <2>1. keys[g] \in Seq(1..MaxPackages) /\ \A n \in DOMAIN keys[g] : FALSE
    BY <1>1, <1>3 DEF AInv, KeysOK, Listed, Members, Result
  <2>2. PICK s : s = keys[g]
    OBVIOUS
  <2>3. s \in Seq(1..MaxPackages) /\ Len(s) \in Nat /\ DOMAIN s = 1..Len(s)
    BY <2>1, <2>2
  <2>4. Len(s) = 0
    <3>1. ASSUME Len(s) > 0 PROVE FALSE
      BY <2>1, <2>2, <2>3, <3>1
    <3> QED
      BY <2>3, <3>1
  <2> QED
    BY <2>2, <2>3, <2>4
<1> QED
  BY <1>1, <1>2, <1>3

LEMMA TornTalk ==
  ASSUME AInv, Talk, ~obj'.dirty, NEW g \in Groups, Torn(g)
  PROVE Torn(g)'
<1>1. monitor' = monitor
  BY TalkFrame
<1>2. CASE UNCHANGED <<keys, cache>>
  <2>1. \A i : Backed(i) => Backed(i)'
    BY <1>1, <1>2 DEF Backed, At
  <2>2. Forgets(g) => Forgets(g)'
    <3>1. ASSUME NEW n \in Monitors, At(n, "forget") PROVE At(n, "forget")' /\ Of(n)' = Of(n)
      BY <1>1, <3>1, TalkGrows, AtBusy DEF At
    <3> QED
      BY <3>1 DEF Forgets
  <2>3. \A n \in Monitors : ((At(n, "collate")' \/ At(n, "extend")') /\ Of(n)'.group = g) =>
           /\ (At(n, "collate") \/ At(n, "extend")) /\ Of(n).group = g
           /\ monitor'[n].group_list = monitor[n].group_list
    <3>1. ASSUME NEW n \in Monitors, At(n, "collate") \/ At(n, "extend") PROVE Of(n)' = Of(n)
      BY <3>1, TalkGrows, AtBusy
    <3> QED
      BY <1>1, <3>1 DEF At
  <2> QED
    BY <1>2, <2>1, <2>2, <2>3, TornKept
<1>3. CASE ~(UNCHANGED <<keys, cache>>)
  <2>1. append
    BY <1>3, TalkFrame
  <2>2. /\ obj.kind = "Chain" /\ delete_group(obj.group) /\ ~Outstanding(obj.group)
    BY <1>3, <2>1, DeletesIs
  <2>3. keys' = [keys EXCEPT ![obj.group] = <<>>]
    BY <1>3, <2>2, DropGroupIs
  <2>4. keys'[g] = <<>>
    BY <2>2, <2>3, OneGroup DEF AInv, KeysOK
  <2>5. DOMAIN keys'[g] = {}
    BY <2>4
  <2>6. \A n \in Monitors : ~At(n, "collate")' /\ ~At(n, "extend")'
    BY <1>1, <2>2, OneGroup DEF Busy, At
  <2> QED
    BY <2>5, <2>6 DEF Torn
<1> QED
  BY <1>2, <1>3

TornInv == (faults = 0 /\ ~obj.dirty) => \A g \in Groups : Torn(g)

LEMMA TornNext == ASSUME AInv, ClearInv, TornInv, [ApiNext]_allVars PROVE TornInv'
<1> SUFFICES ASSUME faults' = 0, ~obj'.dirty, NEW g \in Groups PROVE Torn(g)'
  BY DEF TornInv
<1>1. faults = 0 /\ (obj.kind = "Iter" => Collating(g))
  BY Faultless DEF ClearInv
<1>2. CASE Talk
  BY <1>1, <1>2, DirtyStays, TornTalk DEF TornInv
<1>3. CASE UNCHANGED allVars
  BY <1>1, <1>3 DEF TornInv, allVars, vars, api, Torn, Backed, Forgets, At, Of
<1>4. ASSUME NEW m \in Monitors, UNCHANGED api, Step(m) PROVE Torn(g)'
  BY <1>1, <1>4, TornStep DEF TornInv, api
<1>5. ASSUME NEW m \in Monitors, UNCHANGED api, NEW i \in DOMAIN pkgs, NEW success \in BOOLEAN,
             Deliver(m, i, success)
      PROVE Torn(g)'
  BY <1>1, <1>5, TornDeliver DEF TornInv, api
<1> QED
  BY <1>2, <1>3, <1>4, <1>5, Faultless

\* A key list names a member that has no entry only while a monitor is about to set it
\* or to forget the group (save_cached), if nothing was delivered twice, nothing failed
\* and no group was deleted under a chain on its way.
THEOREM NamesHaveEntries == ApiSpec => []TornOnlyInFlight
<1>1. ApiInit => TornInv
  <2> SUFFICES ASSUME ApiInit, NEW g \in Groups PROVE Torn(g)
    BY DEF TornInv
  <2>1. \A m \in Monitors : monitor[m] = Waiting
    BY DEF ApiInit, Init
  <2>2. \A m \in Monitors : monitor[m].pc = "get"
    BY <2>1 DEF Waiting
  <2>3. keys[g] = <<>>
    BY DEF ApiInit, Init
  <2>4. DOMAIN keys[g] = {}
    BY <2>3
  <2> QED
    BY <2>2, <2>4 DEF Torn, At
<1>2. ApiInit => ClearInv
  BY ClearInit
<1>3. AInv /\ AInv' /\ ClearInv /\ TornInv /\ [ApiNext]_allVars => ClearInv' /\ TornInv'
  BY ClearNext, TornNext
<1>4. TornInv => TornOnlyInFlight
  BY DEF TornInv, Torn, Backed, Forgets, TornOnlyInFlight
<1> QED
  BY <1>1, <1>2, <1>3, <1>4, ResultsInvariant, PTL DEF ApiSpec


-----------------------------------------------------------------------------
LEMMA AheadStep ==
  ASSUME AInv, NEW m \in Monitors, Step(m), UNCHANGED api, NEW n \in Monitors, Ahead(n)'
  PROVE Ahead(n) /\ monitor'[n].name = monitor[n].name
<1>1. Stores(m)
  BY StoresIs
<1>2. CASE n # m
  BY <1>1, <1>2 DEF Stores, Others, Ahead
<1>3. CASE n = m
  <2>1. Busy(m)' /\ monitor'[m].name = monitor[m].name
    BY <1>1, <1>3 DEF Stores, Ahead, Busy, At
  <2>2. CASE ReadList(m) \/ Extend(m)
    BY <1>3, <2>1, <2>2 DEF ReadList, Extend, Ahead, At
  <2>3. CASE Collate(m)
    BY <1>3, <2>1, <2>3 DEF Collate, Ahead, At
  <2>4. CASE Progress(m)
    BY <1>3, <2>1, <2>4 DEF Progress, Ahead, At
  <2>5. CASE SetTask(m) \/ Write(m)
    BY <1>3, <2>5, SetTaskIs, WriteIs DEF Ahead, Stored1
  <2>6. CASE DeleteMembers(m) \/ DeleteGroup(m) \/ Prune(m) \/ Find(m)
    BY <1>3, <2>6, DeleteMembersIs, DeleteGroupIs, PruneIs, FindIs DEF Ahead
  <2>7. CASE Acknowledge(m)
    BY <1>3, <2>7, AcknowledgeIs DEF Ahead, Waiting
  <2> QED
    BY <2>2, <2>3, <2>4, <2>5, <2>6, <2>7 DEF Step
<1> QED
  BY <1>2, <1>3

\* The links of a run follow each other.
LinksOK == Links1 /\ Linked

LEMMA LinksKept ==
  ASSUME LinksOK, pkgs' = pkgs, Grows,
         \A n \in Monitors : Ahead(n)' => Ahead(n) /\ monitor'[n].name = monitor[n].name
  PROVE LinksOK'
<1>1. Linked'
  BY DEF LinksOK, Linked
<1>2. ASSUME NEW i \in DOMAIN pkgs, NEW j \in DOMAIN pkgs, pkgs[i].run = pkgs[j].run
      PROVE /\ pkgs[i].item = pkgs[j].item => i = j
            /\ pkgs[j].item = pkgs[i].item + 1 =>
                 /\ delivered'[i] >= 1
                 /\ \A m \in Monitors : Ahead(m)' => monitor'[m].name # i
  <2>1. delivered[i] >= 1 => delivered'[i] >= 1
    BY DEF Grows
  <2> QED
    BY <1>2, <2>1 DEF LinksOK, Links1
<1> QED
  BY <1>1, <1>2 DEF LinksOK, Links1

LEMMA LinksDeliver ==
  ASSUME AInv, LinksOK, UNCHANGED api, NEW m \in Monitors, NEW k \in DOMAIN pkgs,
         NEW success \in BOOLEAN, Deliver(m, k, success), delivered[k] = 0
  PROVE LinksOK'
<1>1. /\ \A n \in Monitors : n # m => monitor'[n] = monitor[n]
      /\ monitor'[m].name = k /\ pkgs' = pkgs
  BY DeliverIs
<1>2. Grows
  BY DeliverGrows
<1>3. Linked'
  BY <1>1 DEF LinksOK, Linked
<1>4. ASSUME NEW i \in DOMAIN pkgs, NEW j \in DOMAIN pkgs, pkgs[i].run = pkgs[j].run
      PROVE /\ pkgs[i].item = pkgs[j].item => i = j
            /\ pkgs[j].item = pkgs[i].item + 1 =>
                 /\ delivered'[i] >= 1
                 /\ \A n \in Monitors : Ahead(n)' => monitor'[n].name # i
  <2>1. delivered[i] >= 1 => delivered'[i] >= 1
    BY <1>2 DEF Grows
  <2>2. delivered[i] >= 1 => i # k
    OBVIOUS
  <2>3. ASSUME NEW n \in Monitors, n # m, Ahead(n)' PROVE Ahead(n) /\ monitor'[n].name = monitor[n].name
    BY <1>1, <2>3 DEF Ahead
  <2> QED
    BY <1>1, <1>4, <2>1, <2>2, <2>3 DEF LinksOK, Links1
<1> QED
  BY <1>1, <1>3, <1>4 DEF LinksOK, Links1

LEMMA LinksProgress ==
  ASSUME AInv, LinksOK, Alone, UNCHANGED api, NEW m \in Monitors, Progress(m)
  PROVE LinksOK'
<1> DEFINE i == monitor[m].name
           L == Len(pkgs) + 1
<1>1. PICK p, q \in Package :
        /\ p = pkgs[i] /\ i \in DOMAIN pkgs /\ q.run = p.run /\ q.item = p.item + 1
        /\ Grows /\ DOMAIN pkgs' = DOMAIN pkgs \cup {L} /\ pkgs'[L] = q
        /\ \A j \in DOMAIN pkgs : pkgs'[j] = pkgs[j]
        /\ L \notin DOMAIN pkgs /\ delivered' = delivered
  BY ProgressIs
<1>2. Ahead(m) /\ Busy(m) /\ delivered[i] >= 1
  <2>1. Ahead(m) /\ Busy(m)
    BY DEF Progress, At, Ahead, Busy
  <2> QED
    BY <2>1, MemberOf DEF TaskOK
<1>3. \A n \in Monitors : Ahead(n)' => Ahead(n) /\ monitor'[n].name = monitor[n].name
  BY AheadStep DEF Step
<1>4. ~Ahead(m)'
  <2>1. PICK pc \in {"set", "prune"} : Move(m, pc)
    BY DEF Progress
  <2> QED
    BY <1>2, <2>1, MovesIs DEF Ahead
<1>5. \A n \in Monitors : Ahead(n)' => monitor'[n].name # i
  <2>1. ASSUME NEW n \in Monitors, Ahead(n)' PROVE monitor[n].name # i
    <3>1. n # m /\ Busy(n)
      BY <1>3, <1>4, <2>1 DEF Ahead, Busy, At
    <3> QED
      BY <1>2, <3>1 DEF Alone
  <2> QED
    BY <1>3, <2>1
<1>6. \A j \in DOMAIN pkgs : pkgs[j].item \in Nat
  BY DEF AInv, PkgsOK, PkgOK, Package
<1>7. ASSUME NEW j \in DOMAIN pkgs, pkgs[j].run = p.run PROVE pkgs[j].item # q.item
  BY <1>1, <1>2, <1>7 DEF LinksOK, Links1
<1>8. ASSUME NEW j \in DOMAIN pkgs, pkgs[j].run = p.run PROVE pkgs[j].item # q.item + 1
  <2>1. SUFFICES ASSUME pkgs[j].item = q.item + 1 PROVE FALSE
    OBVIOUS
  <2>2. pkgs[j].item > 1
    BY <1>1, <1>6, <2>1
  <2>3. PICK k \in DOMAIN pkgs : pkgs[k].run = pkgs[j].run /\ pkgs[j].item = pkgs[k].item + 1
    BY <2>2 DEF LinksOK, Linked
  <2>4. pkgs[k].item = q.item
    BY <1>1, <1>6, <2>1, <2>3
  <2> QED
    BY <1>7, <1>8, <2>3, <2>4
<1>9. Linked'
  <2>1. ASSUME NEW j \in DOMAIN pkgs', pkgs'[j].item > 1
        PROVE \E k \in DOMAIN pkgs' : pkgs'[k].run = pkgs'[j].run /\ pkgs'[j].item = pkgs'[k].item + 1
    <3>1. CASE j = L
      BY <1>1, <3>1
    <3>2. CASE j \in DOMAIN pkgs
      <4>1. PICK k \in DOMAIN pkgs : pkgs[k].run = pkgs[j].run /\ pkgs[j].item = pkgs[k].item + 1
        BY <1>1, <2>1, <3>2 DEF LinksOK, Linked
      <4> QED
        BY <1>1, <3>2, <4>1
    <3> QED
      BY <1>1, <3>1, <3>2
  <2> QED
    BY <2>1 DEF Linked
<1>10. ASSUME NEW a \in DOMAIN pkgs', NEW b \in DOMAIN pkgs', pkgs'[a].run = pkgs'[b].run
       PROVE /\ pkgs'[a].item = pkgs'[b].item => a = b
             /\ pkgs'[b].item = pkgs'[a].item + 1 =>
                  /\ delivered'[a] >= 1
                  /\ \A n \in Monitors : Ahead(n)' => monitor'[n].name # a
  <2>1. CASE a = L /\ b = L
    <3>1. p.item \in Nat /\ pkgs'[a].item = p.item + 1 /\ pkgs'[b].item = p.item + 1
      BY <1>1, <1>6, <2>1
    <3> QED
      BY <2>1, <3>1
  <2>2. CASE a = L /\ b \in DOMAIN pkgs
    BY <1>1, <1>7, <1>8, <1>10, <2>2
  <2>3. CASE a \in DOMAIN pkgs /\ b = L
    <3>1. pkgs[a].run = p.run /\ pkgs'[a] = pkgs[a]
      BY <1>1, <1>10, <2>3
    <3>2. pkgs[a].item # q.item
      BY <1>7, <2>3, <3>1
    <3>3. ASSUME q.item = pkgs[a].item + 1 PROVE a = i
      <4>1. pkgs[a].item = p.item
        BY <1>1, <1>6, <2>3, <3>3
      <4> QED
        BY <1>1, <2>3, <3>1, <4>1 DEF LinksOK, Links1
    <3> QED
      BY <1>1, <1>2, <1>5, <2>3, <3>1, <3>2, <3>3
  <2>4. CASE a \in DOMAIN pkgs /\ b \in DOMAIN pkgs
    BY <1>1, <1>3, <1>10, <2>4 DEF LinksOK, Links1
  <2> QED
    BY <1>1, <2>1, <2>2, <2>3, <2>4
<1> QED
  BY <1>9, <1>10 DEF LinksOK, Links1

LEMMA LinksRun ==
  ASSUME AInv, LinksOK, run, RunChain
  PROVE LinksOK'
<1> DEFINE L == Len(pkgs) + 1
<1>1. PICK p \in Package :
        /\ call = Free /\ Run = runs + 1 /\ runs \in Nat /\ p.run = Run /\ p.item = 1
        /\ obj.kind = "Chain" /\ obj'.kind = "Chain" /\ async_task(p)
        /\ UNCHANGED <<delivered, failed, monitor>>
  BY RunChainIs
<1>2. /\ Grows /\ DOMAIN pkgs' = DOMAIN pkgs \cup {L} /\ pkgs'[L] = p
      /\ \A i \in DOMAIN pkgs : pkgs'[i] = pkgs[i]
  BY <1>1, AddPkg DEF async_task
<1>3. ASSUME NEW i \in DOMAIN pkgs PROVE pkgs[i].run # p.run
  <2>1. PkgOK(pkgs[i])
    BY DEF AInv, PkgsOK
  <2>2. pkgs[i].run \in Nat /\ pkgs[i].run <= runs
    BY <1>1, <2>1, Constants DEF PkgOK, Package, Free
  <2> QED
    BY <1>1, <2>2
<1>4. Linked'
  <2>1. ASSUME NEW j \in DOMAIN pkgs', pkgs'[j].item > 1
        PROVE \E k \in DOMAIN pkgs' : pkgs'[k].run = pkgs'[j].run /\ pkgs'[j].item = pkgs'[k].item + 1
    <3>1. j \in DOMAIN pkgs
      BY <1>1, <1>2, <2>1
    <3>2. PICK k \in DOMAIN pkgs : pkgs[k].run = pkgs[j].run /\ pkgs[j].item = pkgs[k].item + 1
      BY <1>2, <2>1, <3>1 DEF LinksOK, Linked
    <3> QED
      BY <1>2, <3>1, <3>2
  <2> QED
    BY <2>1 DEF Linked
<1>5. ASSUME NEW a \in DOMAIN pkgs', NEW b \in DOMAIN pkgs', pkgs'[a].run = pkgs'[b].run
      PROVE /\ pkgs'[a].item = pkgs'[b].item => a = b
            /\ pkgs'[b].item = pkgs'[a].item + 1 =>
                 /\ delivered'[a] >= 1
                 /\ \A n \in Monitors : Ahead(n)' => monitor'[n].name # a
  <2>1. CASE a = L /\ b = L
    BY <1>1, <1>2, <2>1
  <2>2. CASE a \in DOMAIN pkgs /\ b \in DOMAIN pkgs
    BY <1>1, <1>2, <1>5, <2>2 DEF LinksOK, Links1, Ahead
  <2>3. ~(a = L /\ b \in DOMAIN pkgs) /\ ~(b = L /\ a \in DOMAIN pkgs)
    BY <1>2, <1>3, <1>5
  <2> QED
    BY <1>2, <2>1, <2>2, <2>3
<1> QED
  BY <1>4, <1>5 DEF LinksOK, Links1

LinksInv == (faults = 0 /\ obj.kind = "Chain") => LinksOK

LEMMA LinksNext == ASSUME AInv, LinksInv, [ApiNext]_allVars PROVE LinksInv'
<1> SUFFICES ASSUME faults' = 0, obj'.kind = "Chain" PROVE LinksOK'
  BY DEF LinksInv
<1>1. faults = 0 /\ Alone
  BY Faultless, AloneOK
<1>2. CASE Talk
  <2>1. obj.kind = "Chain" /\ LinksOK
    BY <1>1, <1>2, TalkKind DEF LinksInv
  <2>2. CASE run /\ RunChain
    BY <2>1, <2>2, LinksRun
  <2>3. CASE ~(run /\ RunChain)
    <3>1. call.pc # "push" /\ ~run
      BY <2>1, <2>3 DEF AInv, CallOK, run, RunTask, RunIter
    <3>2. pkgs' = pkgs /\ monitor' = monitor
      BY <1>2, <3>1, TalkFrame
    <3> QED
      BY <1>2, <2>1, <3>2, TalkGrows, LinksKept DEF Ahead
  <2> QED
    BY <2>2, <2>3
<1>3. CASE UNCHANGED allVars
  BY <1>1, <1>3 DEF LinksInv, LinksOK, Links1, Linked, Ahead, allVars, vars, api
<1>4. ASSUME NEW m \in Monitors, UNCHANGED api, Step(m) PROVE LinksOK'
  <2>1. LinksOK
    BY <1>1, <1>4 DEF LinksInv, api
  <2>2. CASE Progress(m)
    BY <1>1, <1>4, <2>1, <2>2, LinksProgress
  <2>3. CASE ~Progress(m)
    <3>1. pkgs' = pkgs
      BY <1>4, <2>3 DEF Step, ReadList, Collate, Extend, SetTask, DeleteMembers, DeleteGroup, Prune,
         Find, Write, Acknowledge
    <3> QED
      BY <1>4, <2>1, <3>1, StoresIs, AheadStep, LinksKept DEF Stores
  <2> QED
    BY <2>2, <2>3
<1>5. ASSUME NEW m \in Monitors, UNCHANGED api, NEW i \in DOMAIN pkgs, NEW success \in BOOLEAN,
             Deliver(m, i, success), delivered[i] = 0
      PROVE LinksOK'
  BY <1>1, <1>5, LinksDeliver DEF LinksInv, api
<1> QED
  BY <1>2, <1>3, <1>4, <1>5, Faultless


-----------------------------------------------------------------------------
\* A list is only ever read anew from the keys.
LEMMA ListsKept ==
  ASSUME AInv, NEW m \in Monitors, Step(m), UNCHANGED api, NEW n \in Monitors, Busy(n)'
  PROVE /\ Busy(n) /\ monitor'[n].name = monitor[n].name /\ Of(n)' = Of(n)
        /\ \/ monitor'[n].group_list = monitor[n].group_list
           \/ n = m /\ monitor'[n].group_list = keys[Of(m).group]
<1>1. Stores(m)
  BY StoresIs
<1>2. Busy(n) /\ monitor'[n].name = monitor[n].name
  BY <1>1 DEF Stores, Others, Busy, At
<1>3. Of(n)' = Of(n)
  BY <1>1, <1>2, MemberOf DEF Stores, Grows, Of, Members
<1>4. CASE n # m
  BY <1>1, <1>2, <1>3, <1>4 DEF Stores, Others
<1>5. \/ monitor'[m].group_list = monitor[m].group_list
      \/ monitor'[m].group_list = keys[Of(m).group]
      \/ Acknowledge(m)
  <2>1. CASE ReadList(m) \/ Collate(m) \/ Find(m)
    BY <2>1, ReadListIs, CollateIs, FindIs
  <2>2. CASE Progress(m)
    <3>1. PICK pc : Move(m, pc)
      BY <2>2 DEF Progress
    <3>2. Busy(m)
      BY <1>1 DEF Stores
    <3> QED
      BY <3>1, <3>2, MovesIs DEF Same
  <2>3. CASE Extend(m) \/ SetTask(m) \/ DeleteMembers(m) \/ DeleteGroup(m)
    BY <2>3, ExtendIs, SetTaskIs, DeleteMembersIs, DeleteGroupIs DEF Same
  <2>4. CASE Prune(m) \/ Write(m)
    BY <2>4, PruneIs, WriteIs DEF Same
  <2> QED
    BY <2>1, <2>2, <2>3, <2>4 DEF Step
<1>6. Acknowledge(m) => n # m
  BY AcknowledgeIs DEF Busy, At, Waiting
<1> QED
  BY <1>2, <1>3, <1>4, <1>5, <1>6

\* What a monitor does to a chain's keys and rows.
LEMMA ChainLists ==
  ASSUME AInv, obj.kind = "Chain", NEW m \in Monitors, Step(m), UNCHANGED api
  PROVE /\ obj.group \in Groups /\ Of(m).group = obj.group
        /\ monitor[m].id = monitor[m].name /\ monitor[m].id > 0
        /\ \/ keys' = keys
           \/ /\ Extend(m)
              /\ DOMAIN keys'[obj.group] = DOMAIN monitor[m].group_list \cup {Len(monitor[m].group_list) + 1}
              /\ \A a \in DOMAIN monitor[m].group_list :
                   keys'[obj.group][a] = monitor[m].group_list[a]
              /\ keys'[obj.group][Len(monitor[m].group_list) + 1] = monitor[m].name
        /\ rows' = rows \/ monitor[m].pc \in {"prune", "write"}
        /\ \A x \in DOMAIN rows' : x # monitor[m].id => x \in DOMAIN rows /\ rows'[x] = rows[x]
<1>1. Stores(m) /\ Busy(m)
  BY StoresIs DEF Stores
<1>2. obj.group \in Groups /\ Of(m).group = obj.group
  BY <1>1, MemberOf, OneGroup DEF Members
<1>3. monitor[m].id = monitor[m].name /\ monitor[m].id > 0
  <2>1. TaskOK(monitor[m]) /\ ~(monitor[m].id < 0)
    BY <1>1, MemberOf
  <2>2. monitor[m].id \in Int /\ monitor[m].name \in 1..MaxPackages
    BY <2>1, TaskPkg
  <2> QED
    BY <2>1, <2>2, Constants DEF TaskOK
<1>4. ~DeleteGroup(m)
  <2>1. DeleteGroup(m) => monitor[m].id < 0
    BY DeleteGroupIs
  <2>2. monitor[m].id \in Int
    BY <1>1, MemberOf, TaskPkg
  <2> QED
    BY <1>3, <2>1, <2>2
<1>5. keys' = keys \/ Extend(m)
  BY <1>4 DEF Step, ReadList, Collate, Progress, SetTask, DeleteMembers, Prune, Find, Write, Acknowledge
<1>6. CASE ~Prune(m) /\ ~Write(m)
  <2>1. rows' = rows
    BY <1>6 DEF Step, ReadList, Collate, Extend, Progress, SetTask, DeleteMembers, DeleteGroup, Find,
       Acknowledge
  <2> QED
    BY <1>2, <1>3, <1>5, <2>1, ExtendIs
<1>7. CASE Prune(m) \/ Write(m)
  <2>1. keys' = keys /\ monitor[m].pc \in {"prune", "write"}
    BY <1>7 DEF Prune, Write, At
  <2>2. \A x \in DOMAIN rows' : x # monitor[m].id => x \in DOMAIN rows /\ rows'[x] = rows[x]
    BY <1>7, PruneIs, WriteIs
  <2> QED
    BY <1>2, <1>3, <2>1, <2>2
<1> QED
  BY <1>6, <1>7

LEMMA GoneStep ==
  ASSUME AInv, obj.kind = "Chain", NEW m \in Monitors, Step(m), UNCHANGED api,
         NEW i \in DOMAIN pkgs, Gone(i)
  PROVE Gone(i)'
<1>1. Stores(m) /\ Busy(m) /\ obj' = obj
  BY StoresIs DEF Stores, api
<1>2. delivered'[i] >= 1
  BY <1>1 DEF Gone, Stores
<1>3. Of(m).group = obj.group /\ monitor[m].id = monitor[m].name /\ monitor[m].name # i
  BY <1>1, ChainLists DEF Gone
<1>4. ASSUME NEW n \in Monitors, Busy(n)'
      PROVE monitor'[n].name # i /\ \A k \in DOMAIN monitor'[n].group_list : monitor'[n].group_list[k] # i
  BY <1>3, <1>4, ListsKept DEF Gone
<1>5. \A k \in DOMAIN keys'[obj.group] : keys'[obj.group][k] # i
  <2>1. CASE keys' = keys
    BY <2>1 DEF Gone
  <2>2. CASE keys' # keys
    BY <1>1, <1>3, <2>2, ChainLists DEF Gone
  <2> QED
    BY <2>1, <2>2
<1>6. i \in DOMAIN rows' => rows'[i].group = 0
  BY <1>3, ChainLists DEF Gone
<1> QED
  BY <1>1, <1>2, <1>4, <1>5, <1>6 DEF Gone

LEMMA PastStep ==
  ASSUME AInv, obj.kind = "Chain", PastGone, NEW m \in Monitors, Step(m), UNCHANGED api
  PROVE PastGone'
<1>1. obj' = obj /\ runs' = runs
  BY DEF api
<1>2. Stores(m) /\ Grows /\ Busy(m)
  BY StoresIs DEF Stores
<1>3. ASSUME NEW i \in DOMAIN pkgs, Past(i)' PROVE Gone(i)'
  <2>1. Past(i)
    BY <1>1, <1>2, <1>3 DEF Past, Grows
  <2> QED
    BY <2>1, GoneStep DEF PastGone
<1>4. ASSUME NEW i \in DOMAIN pkgs', i \notin DOMAIN pkgs PROVE ~Past(i)'
  <2>1. Progress(m)
    BY <1>4 DEF Step, ReadList, Collate, Extend, SetTask, DeleteMembers, DeleteGroup, Prune, Find,
       Write, Acknowledge
  <2>2. monitor[m].name \in DOMAIN pkgs /\ pkgs'[i].run = pkgs[monitor[m].name].run
    BY <1>4, <2>1, ProgressIs
  <2>3. ~Past(monitor[m].name)
    BY <1>2, <2>2 DEF PastGone, Gone
  <2> QED
    BY <1>1, <2>2, <2>3 DEF Past
<1> QED
  BY <1>3, <1>4 DEF PastGone

LEMMA PastDeliver ==
  ASSUME AInv, PastGone, UNCHANGED api, NEW m \in Monitors, NEW k \in DOMAIN pkgs,
         NEW success \in BOOLEAN, Deliver(m, k, success), delivered[k] = 0
  PROVE PastGone'
<1>1. /\ \A n \in Monitors : n # m => monitor'[n] = monitor[n]
      /\ monitor'[m].name = k /\ monitor'[m].group_list = <<>>
      /\ UNCHANGED <<pkgs, keys, rows>>
  BY DeliverIs
<1>2. Grows /\ obj' = obj /\ runs' = runs
  BY DeliverGrows DEF api
<1>3. ASSUME NEW i \in DOMAIN pkgs, Past(i)' PROVE Gone(i)'
  <2>1. Gone(i)
    BY <1>1, <1>2, <1>3 DEF Past, PastGone
  <2>2. i # k
    BY <2>1 DEF Gone
  <2>3. delivered'[i] >= 1
    BY <1>2, <2>1 DEF Gone, Grows
  <2>4. DOMAIN monitor'[m].group_list = {}
    BY <1>1
  <2>5. ASSUME NEW n \in Monitors, Busy(n)'
        PROVE monitor'[n].name # i /\ \A a \in DOMAIN monitor'[n].group_list : monitor'[n].group_list[a] # i
    <3>1. CASE n = m
      BY <1>1, <2>2, <2>4, <3>1
    <3>2. CASE n # m
      BY <1>1, <2>1, <2>5, <3>2 DEF Gone, Busy, At
    <3> QED
      BY <3>1, <3>2
  <2> QED
    BY <1>1, <1>2, <2>1, <2>3, <2>5 DEF Gone
<1> QED
  BY <1>1, <1>3 DEF PastGone


LEMMA ObjBools == ASSUME AInv, Talk
                  PROVE /\ obj.started \in BOOLEAN /\ obj.ran \in BOOLEAN
                        /\ obj'.started \in BOOLEAN /\ obj'.ran \in BOOLEAN
<1>1. AInv'
  BY NextAInv DEF Talk, ApiNext
<1>2. obj \in Objects
  BY DEF AInv, ObjOK
<1>3. obj' \in Objects
  BY <1>1 DEF AInv, ObjOK
<1> QED
  BY <1>2, <1>3 DEF Objects

\* The program extends its chain: one that was run has its group deleted.
LEMMA ChainAppend ==
  ASSUME AInv, append, obj.kind = "Chain", ~obj'.dirty
  PROVE /\ UNCHANGED <<pkgs, monitor, delivered, failed, runs, call, faults, conf, answer>>
        /\ call = Free
        /\ obj'.group = obj.group /\ obj'.cached = obj.cached /\ obj'.kind = obj.kind
        /\ \/ /\ ~obj.started /\ obj'.started = obj.started /\ obj'.ran = obj.ran
              /\ UNCHANGED <<keys, rows>>
           \/ /\ obj.started /\ ~obj'.started /\ ~obj'.ran
              /\ delete_group(obj.group) /\ ~Outstanding(obj.group) /\ obj.cached = conf.CACHED
<1>1. /\ AppendLink /\ call = Free
      /\ UNCHANGED <<pkgs, monitor, delivered, failed, runs, call, faults, conf>>
  BY DEF append, AppendArguments
<1>2. PICK l, d : /\ l = obj.length + 1
                  /\ d = (obj.dirty \/ Outstanding(obj.group) \/ obj.cached # conf.CACHED)
  OBVIOUS
<1>3. PICK longer : longer = [obj EXCEPT !.length = l]
  OBVIOUS
<1>4. obj \in Objects
  BY DEF AInv, ObjOK
<1>5. /\ longer.dirty = obj.dirty /\ longer.started = obj.started /\ longer.ran = obj.ran
      /\ longer.group = obj.group /\ longer.cached = obj.cached /\ longer.kind = obj.kind
      /\ "dirty" \in DOMAIN longer /\ "started" \in DOMAIN longer /\ "ran" \in DOMAIN longer
  BY <1>3, <1>4 DEF Objects
<1>6. CASE ~obj.started
  <2>1. obj' = longer /\ UNCHANGED <<keys, rows, answer>>
    BY <1>1, <1>3, <1>2, <1>6 DEF AppendLink
  <2> QED
    BY <1>1, <1>5, <1>6, <2>1
<1>7. CASE obj.started
  <2>1. ~(conf.CACHED /\ keys[obj.group] = <<>>)
    <3>1. ASSUME conf.CACHED /\ keys[obj.group] = <<>> PROVE FALSE
      <4>1. obj' = [longer EXCEPT !.dirty = TRUE]
        BY <1>1, <1>2, <1>3, <1>7, <3>1 DEF AppendLink
      <4>2. obj'.dirty = TRUE
        BY <1>5, <4>1
      <4> QED
        BY <4>2
    <3> QED
      BY <3>1
  <2>2. /\ obj' = [longer EXCEPT !.started = FALSE, !.ran = FALSE, !.dirty = d]
        /\ delete_group(obj.group) /\ answer' = answer
    BY <1>1, <1>2, <1>3, <1>7, <2>1 DEF AppendLink
  <2>3. /\ obj'.dirty = d /\ obj'.started = FALSE /\ obj'.ran = FALSE
        /\ obj'.group = obj.group /\ obj'.cached = obj.cached /\ obj'.kind = obj.kind
    BY <1>5, <2>2
  <2>4. ~Outstanding(obj.group) /\ obj.cached = conf.CACHED
    BY <1>2, <2>3
  <2> QED
    BY <1>1, <1>7, <2>2, <2>3, <2>4
<1> QED
  BY <1>6, <1>7

\* A question is asked, goes on or ends.
Inquiry == Ask \/ Elapse \/ Counted \/ Poll \/ GetRow \/ GetMembers

LEMMA ChainTalkIs ==
  ASSUME AInv, Talk, obj.kind = "Chain"
  PROVE \/ append \/ (run /\ RunChain)
        \/ /\ Inquiry
           /\ UNCHANGED <<pkgs, delivered, failed, monitor, keys, cache, rows, obj, runs, faults, conf>>
<1>1. call.pc # "push" /\ ~SetOption /\ (run => RunChain)
  BY DEF AInv, CallOK, SetOption, run, RunTask, RunIter
<1>2. CASE Inquiry
  BY <1>2 DEF Inquiry, Ask, Elapse, Counted, Poll, GetRow, GetMembers, vars
<1> QED
  BY <1>1, <1>2 DEF Talk, Calling, Inquiry, Push

Lengths == obj.started => \A i \in DOMAIN pkgs : pkgs[i].run = runs =>
             pkgs[i].item + pkgs[i].chain = obj.length
LastOK == obj.started = obj.ran /\ PastGone /\ Lengths

LEMMA LastAppend ==
  ASSUME AInv, LastOK, append, obj.kind = "Chain", ~obj'.dirty PROVE LastOK'
<1>1. /\ UNCHANGED <<pkgs, monitor, delivered, runs, conf>> /\ obj'.group = obj.group
  BY ChainAppend
<1>2. CASE ~obj.started
  <2>1. obj'.started = obj.started /\ obj'.ran = obj.ran /\ UNCHANGED <<keys, rows>>
    BY <1>2, ChainAppend
  <2> QED
    BY <1>1, <1>2, <2>1 DEF LastOK, Lengths, PastGone, Past, Gone, Busy, At
<1>3. CASE obj.started
  <2>1. /\ ~obj'.started /\ ~obj'.ran
        /\ delete_group(obj.group) /\ ~Outstanding(obj.group) /\ obj.cached = conf.CACHED
    BY <1>3, ChainAppend
  <2>2. ASSUME NEW i \in DOMAIN pkgs PROVE Gone(i)'
    <3>1. /\ pkgs[i].group = obj.group /\ pkgs[i].cached = obj.cached /\ obj.group \in Groups
          /\ i \in Nat /\ delivered[i] \in Nat
      BY <1>3, Constants DEF AInv, PkgsOK, PkgOK, ObjOK, DeliveredOK
    <3>2. delivered[i] >= 1
      BY <2>1, <3>1 DEF Outstanding, Members
    <3>3. \A n \in Monitors : ~Busy(n)
      BY <2>1, OneGroup
    <3>4. i \in DOMAIN rows => ~obj.cached /\ rows[i].group \in {0, obj.group} /\ rows[i] \in Row
      <4>1. i \in DOMAIN rows => RowOK(i, rows[i])
        BY DEF AInv, RowsOK
      <4> QED
        BY <3>1, <4>1 DEF RowOK
    <3>5. \A k \in DOMAIN keys[obj.group] : obj.cached
      <4>1. ASSUME NEW k \in DOMAIN keys[obj.group] PROVE obj.cached
        <5>1. keys[obj.group][k] \in DOMAIN pkgs /\ pkgs[keys[obj.group][k]].cached
          BY <3>1, <4>1 DEF AInv, KeysOK, Listed, Members
        <5> QED
          BY <5>1 DEF AInv, PkgsOK, PkgOK
      <4> QED
        BY <4>1
    <3>6. CASE conf.CACHED
      <4>1. keys' = [keys EXCEPT ![obj.group] = <<>>] /\ rows' = rows
        BY <2>1, <3>6, DropGroupIs
      <4>2. keys'[obj.group] = <<>>
        BY <3>1, <4>1 DEF AInv, KeysOK
      <4>3. DOMAIN keys'[obj.group] = {}
        BY <4>2
      <4> QED
        BY <1>1, <2>1, <3>2, <3>3, <3>4, <3>6, <4>1, <4>3 DEF Gone, Busy, At
    <3>7. CASE ~conf.CACHED
      <4>1. keys' = keys /\ DOMAIN rows' = DOMAIN rows
        BY <2>1, <3>7, DropGroupIs
      <4>2. i \in DOMAIN rows => rows'[i].group = 0
        <5> SUFFICES ASSUME i \in DOMAIN rows PROVE rows'[i].group = 0
          OBVIOUS
        <5>1. rows'[i] = IF rows[i].group = obj.group THEN [rows[i] EXCEPT !.group = 0] ELSE rows[i]
          BY <2>1, <3>7, DropGroupIs
        <5>2. CASE rows[i].group = obj.group
          BY <3>4, <5>1, <5>2 DEF Row
        <5>3. CASE rows[i].group # obj.group
          BY <3>4, <5>1, <5>3
        <5> QED
          BY <5>2, <5>3
      <4> QED
        BY <1>1, <2>1, <3>2, <3>3, <3>5, <3>7, <4>1, <4>2 DEF Gone, Busy, At
    <3> QED
      BY <3>6, <3>7
  <2>3. PastGone'
    BY <1>1, <2>2 DEF PastGone
  <2> QED
    BY <2>1, <2>3, ObjBools DEF LastOK, Lengths, Talk
<1> QED
  BY <1>2, <1>3

LEMMA LastRunChain ==
  ASSUME AInv, LastOK, run, RunChain, ~obj'.dirty PROVE LastOK'
<1>0. PICK L : L = Len(pkgs) + 1
  OBVIOUS
<1>1. PICK p \in Package :
        /\ call = Free /\ Run = runs + 1 /\ runs \in Nat /\ p.run = Run /\ p.item = 1
        /\ runs' = Run /\ p.chain = obj.length - 1 /\ p.group = obj'.group
        /\ obj.kind = "Chain" /\ obj'.kind = "Chain" /\ async_task(p) /\ obj'.length = obj.length
        /\ obj'.started /\ obj'.ran /\ (obj.ran => obj'.dirty)
        /\ UNCHANGED <<delivered, failed, monitor, keys, rows>>
        /\ (obj.group # 0 => obj'.group = obj.group)
  BY RunChainIs
<1>2. /\ Grows /\ DOMAIN pkgs' = DOMAIN pkgs \cup {L} /\ pkgs'[L] = p
      /\ \A i \in DOMAIN pkgs : pkgs'[i] = pkgs[i]
  BY <1>0, <1>1, AddPkg DEF async_task
<1>3. ASSUME NEW i \in DOMAIN pkgs PROVE pkgs[i].run # p.run /\ obj.group = obj'.group
  <2>1. PkgOK(pkgs[i])
    BY DEF AInv, PkgsOK
  <2>2. pkgs[i].run \in Nat /\ pkgs[i].run <= runs /\ pkgs[i].group \in Nat /\ pkgs[i].group > 0
    BY <1>1, <2>1, Constants DEF PkgOK, Package, Free
  <2>3. pkgs[i].group = obj.group
    BY <1>1, <2>1 DEF PkgOK
  <2> QED
    BY <1>1, <2>2, <2>3
<1>4. \A i \in DOMAIN pkgs : Gone(i)
  BY <1>1 DEF LastOK, PastGone, Past
<1>5. ASSUME NEW i \in DOMAIN pkgs PROVE Gone(i)'
  BY <1>1, <1>3, <1>4 DEF Gone, Busy, At
<1>6. ~Past(L)'
  BY <1>1, <1>2 DEF Past
<1>7. PastGone'
  BY <1>2, <1>5, <1>6 DEF PastGone
<1>8. Lengths'
  <2>1. obj.length \in Nat
    BY Constants DEF AInv, ObjOK, Objects
  <2>2. p.item + p.chain = obj.length
    BY <1>1, <2>1
  <2> QED
    BY <1>1, <1>2, <1>3, <2>2 DEF Lengths
<1> QED
  BY <1>1, <1>7, <1>8, ObjBools DEF LastOK, Talk


LEMMA LengthsStep ==
  ASSUME AInv, Lengths, NEW m \in Monitors, Step(m), UNCHANGED api PROVE Lengths'
<1>1. obj' = obj /\ runs' = runs
  BY DEF api
<1>2. CASE Progress(m)
  <2>1. PICK p, q \in Package :
          /\ p = pkgs[monitor[m].name] /\ monitor[m].name \in DOMAIN pkgs
          /\ q.run = p.run /\ q.item = p.item + 1 /\ q.chain = p.chain - 1
          /\ DOMAIN pkgs' = DOMAIN pkgs \cup {Len(pkgs) + 1} /\ pkgs'[Len(pkgs) + 1] = q
          /\ \A i \in DOMAIN pkgs : pkgs'[i] = pkgs[i]
    BY <1>2, ProgressIs
  <2>2. q.item + q.chain = p.item + p.chain
    <3>1. p.item \in Nat /\ p.chain \in Nat
      BY DEF Package
    <3>2. PICK a, b : a = p.item /\ b = p.chain
      OBVIOUS
    <3>3. (a + 1) + (b - 1) = a + b
      BY <3>1, <3>2
    <3> QED
      BY <2>1, <3>2, <3>3
  <2> QED
    BY <1>1, <2>1, <2>2 DEF Lengths
<1>3. CASE ~Progress(m)
  <2>1. pkgs' = pkgs
    BY <1>3 DEF Step, ReadList, Collate, Extend, SetTask, DeleteMembers, DeleteGroup, Prune,
       Find, Write, Acknowledge
  <2> QED
    BY <1>1, <2>1 DEF Lengths
<1> QED
  BY <1>2, <1>3

LastInv == (faults = 0 /\ obj.kind = "Chain" /\ ~obj.dirty) => LastOK

LEMMA LastNext == ASSUME AInv, LastInv, [ApiNext]_allVars PROVE LastInv'
<1> SUFFICES ASSUME faults' = 0, obj'.kind = "Chain", ~obj'.dirty PROVE LastOK'
  BY DEF LastInv
<1>1. faults = 0
  BY Faultless
<1>2. CASE Talk
  <2>1. obj.kind = "Chain" /\ LastOK
    BY <1>1, <1>2, TalkKind, DirtyStays DEF LastInv
  <2>2. CASE UNCHANGED <<pkgs, delivered, monitor, keys, rows, obj, runs>>
    BY <2>1, <2>2 DEF LastOK, Lengths, PastGone, Past, Gone, Busy, At
  <2> QED
    BY <1>2, <2>1, <2>2, LastAppend, LastRunChain, ChainTalkIs
<1>3. CASE UNCHANGED allVars
  BY <1>1, <1>3 DEF LastInv, LastOK, Lengths, PastGone, Past, Gone, Busy, At, allVars, vars, api
<1>4. ASSUME NEW m \in Monitors, UNCHANGED api, Step(m) PROVE LastOK'
  <2>1. LastOK /\ obj.kind = "Chain" /\ obj' = obj
    BY <1>1, <1>4 DEF LastInv, api
  <2>2. PastGone' /\ Lengths'
    BY <1>4, <2>1, PastStep, LengthsStep DEF LastOK
  <2> QED
    BY <2>1, <2>2 DEF LastOK
<1>5. ASSUME NEW m \in Monitors, UNCHANGED api, NEW i \in DOMAIN pkgs, NEW success \in BOOLEAN,
             Deliver(m, i, success), delivered[i] = 0
      PROVE LastOK'
  <2>1. LastOK /\ obj.kind = "Chain" /\ obj' = obj /\ runs' = runs
    BY <1>1, <1>5 DEF LastInv, api
  <2>2. PastGone' /\ pkgs' = pkgs
    BY <1>5, <2>1, PastDeliver, DeliverIs DEF LastOK
  <2> QED
    BY <2>1, <2>2 DEF LastOK, Lengths
<1> QED
  BY <1>2, <1>3, <1>4, <1>5, Faultless

-----------------------------------------------------------------------------
\* What is found in the keys or in the table is of the last run.
LEMMA LastLink ==
  ASSUME AInv, obj.kind = "Chain", obj.started, call.pc # "push", LastOK,
         NEW i \in DOMAIN pkgs, ~Gone(i)
  PROVE pkgs[i].run = runs /\ pkgs[i].item \in 1..obj.length
<1>1. PkgOK(pkgs[i]) /\ pkgs[i] \in Package
  BY DEF AInv, PkgsOK, PkgOK
<1>2. /\ pkgs[i].run \in Nat /\ pkgs[i].run <= runs /\ runs \in Nat
      /\ pkgs[i].item \in Nat /\ pkgs[i].item >= 1 /\ pkgs[i].chain \in Nat
  <2>1. pkgs[i].run \in Groups /\ pkgs[i].run <= runs /\ pkgs[i].item \in Nat
        /\ pkgs[i].item >= 1 /\ pkgs[i].chain \in Nat
    BY <1>1 DEF PkgOK, Package
  <2>2. runs \in Nat
    BY Constants DEF AInv, ObjOK
  <2> QED
    BY <2>1, <2>2, Constants
<1>3. ~Past(i) /\ obj.ran
  BY DEF LastOK, PastGone
<1>4. pkgs[i].run = runs
  BY <1>2, <1>3 DEF Past
<1>5. pkgs[i].item + pkgs[i].chain = obj.length
  BY <1>4 DEF LastOK, Lengths
<1>6. obj.length \in Nat
  BY Constants DEF AInv, ObjOK, Objects
<1> QED
  BY <1>2, <1>4, <1>5, <1>6

\* As many links as the chain has are all of them.
LEMMA AllLinks ==
  ASSUME LinksOK, NEW S, IsFiniteSet(S), NEW l \in Nat, Cardinality(S) = l, NEW f,
         \A a \in S : f[a] \in DOMAIN pkgs /\ pkgs[f[a]].run = runs /\ pkgs[f[a]].item \in 1..l,
         \A a, b \in S : f[a] = f[b] => a = b
  PROVE \A n \in 1..l : \E a \in S : pkgs[f[a]].item = n
<1> DEFINE h == [a \in S |-> pkgs[f[a]].item]
<1>1. h \in [S -> 1..l]
  OBVIOUS
<1>2. \A a, b \in S : h[a] = h[b] => a = b
  BY DEF LinksOK, Links1
<1>3. h \in Injection(S, 1..l)
  BY <1>1, <1>2 DEF Injection, IsInjective
<1>4. IsFiniteSet(1..l) /\ Cardinality(1..l) = l
  BY FS_Interval
<1>5. h \in Surjection(S, 1..l)
  BY <1>3, <1>4, FS_Injection
<1> QED
  BY <1>5 DEF Surjection


\* Without the cache a chain has no key list.
LEMMA NoKeys == ASSUME AInv, obj.kind = "Chain", obj.started, ~obj.cached PROVE keys[obj.group] = <<>>
<1>1. obj.group \in Groups
  BY DEF AInv, ObjOK
<1>2. PICK s : s = keys[obj.group]
  OBVIOUS
<1>3. /\ s \in Seq(1..MaxPackages) /\ Len(s) \in Nat /\ DOMAIN s = 1..Len(s)
      /\ Listed(obj.group, s)
  <2>1. Listed(obj.group, s)
    BY <1>1, <1>2 DEF AInv, KeysOK
  <2> QED
    BY <2>1 DEF Listed, Result
<1>4. ASSUME NEW n \in DOMAIN s PROVE FALSE
  <2>1. PICK i : i = s[n] /\ i \in DOMAIN pkgs /\ pkgs[i].cached
    BY <1>3, <1>4 DEF Listed, Members
  <2>2. PkgOK(pkgs[i])
    BY <2>1 DEF AInv, PkgsOK
  <2> QED
    BY <2>1, <2>2 DEF PkgOK
<1>5. Len(s) = 0
  <2>1. ASSUME Len(s) > 0 PROVE FALSE
    <3>1. 1 \in DOMAIN s
      BY <1>3, <2>1
    <3> QED
      BY <1>4, <3>1
  <2> QED
    BY <1>3, <2>1
<1> QED
  BY <1>2, <1>3, <1>5

LEMMA FoundKeys ==
  ASSUME AInv, obj.kind = "Chain", obj.started, call.pc # "push", LastOK,
         NEW k \in DOMAIN keys[obj.group]
  PROVE /\ keys[obj.group][k] \in DOMAIN pkgs
        /\ pkgs[keys[obj.group][k]].run = runs
        /\ pkgs[keys[obj.group][k]].item \in 1..obj.length
<1>1. keys[obj.group][k] \in DOMAIN pkgs
  BY DEF AInv, KeysOK, Listed, Members, ObjOK
<1>2. ~Gone(keys[obj.group][k])
  BY DEF Gone
<1> QED
  BY <1>1, <1>2, LastLink

LEMMA FoundRows ==
  ASSUME AInv, obj.kind = "Chain", obj.started, call.pc # "push", LastOK, NEW i \in Labelled
  PROVE i \in DOMAIN pkgs /\ pkgs[i].run = runs /\ pkgs[i].item \in 1..obj.length
<1>1. i \in DOMAIN rows /\ rows[i].group = obj.group /\ obj.group \in Groups /\ obj.group # 0
  BY Constants DEF Labelled, AInv, ObjOK
<1>2. RowOK(i, rows[i]) /\ i \in Int
  BY <1>1, Constants DEF AInv, RowsOK, RowOK
<1>3. i \in DOMAIN pkgs
  BY <1>2 DEF RowOK, Made
<1>4. ~Gone(i)
  BY <1>1 DEF Gone
<1> QED
  BY <1>3, <1>4, LastLink

\* The wait for a chain's results ends when all of them are there.
LEMMA CountedAll ==
  ASSUME AInv, faults = 0, obj.kind = "Chain", LinksOK, LastOK, CallFound, Counted
  PROVE IF obj.cached THEN InKeys(keys[obj.group]) ELSE InRows
<1>1. /\ call.pc = "count" /\ count_group = obj.length /\ obj.started /\ call.pc # "push"
      /\ obj.group \in Groups
  BY DEF Counted, Enough, CallFound, AInv, CallOK, ObjOK
<1>2. PICK l : l = obj.length
  OBVIOUS
<1>3. l \in Nat /\ l > 0
  BY <1>1, <1>2, Constants DEF AInv, ObjOK, Objects
<1>4. CASE obj.cached
  <2>1. PICK f : f = keys[obj.group]
    OBVIOUS
  <2>2. /\ f \in Seq(1..MaxPackages) /\ DOMAIN f = 1..Len(f) /\ Len(f) = l
    <3>1. f \in Result
      BY <1>1, <2>1 DEF AInv, KeysOK
    <3> QED
      BY <1>1, <1>2, <1>4, <2>1, <3>1 DEF count_group, Result
  <2>3. IsFiniteSet(DOMAIN f) /\ Cardinality(DOMAIN f) = l
    BY <1>3, <2>2, FS_Interval
  <2>4. \A a, b \in DOMAIN f : f[a] = f[b] => a = b
    <3>1. Distinct(f)
      BY <1>1, <2>1, AloneOK DEF AInv, DistinctOK
    <3> QED
      BY <3>1 DEF Distinct
  <2>5. \A a \in DOMAIN f : f[a] \in DOMAIN pkgs /\ pkgs[f[a]].run = runs /\ pkgs[f[a]].item \in 1..l
    BY <1>1, <1>2, <2>1, FoundKeys
  <2>6. \A n \in 1..l : \E a \in DOMAIN f : pkgs[f[a]].item = n
    BY <1>3, <2>3, <2>4, <2>5, AllLinks
  <2> QED
    BY <1>2, <1>4, <2>1, <2>5, <2>6 DEF InKeys
<1>5. CASE ~obj.cached
  <2>1. ~conf.CACHED
    <3>1. ASSUME conf.CACHED PROVE FALSE
      <4>1. Len(keys[obj.group]) = l
        BY <1>1, <1>2, <3>1 DEF count_group
      <4>2. keys[obj.group] = <<>>
        BY <1>1, <1>5, NoKeys
      <4> QED
        BY <1>3, <4>1, <4>2
    <3> QED
      BY <3>1
  <2>2. Cardinality(Labelled) = l
    BY <1>1, <1>2, <1>5, <2>1 DEF count_group
  <2>3. \A a \in Labelled : a \in DOMAIN pkgs /\ pkgs[a].run = runs /\ pkgs[a].item \in 1..l
    BY <1>1, <1>2, FoundRows
  <2>4. IsFiniteSet(Labelled)
    <3>1. IsFiniteSet(1..MaxPackages)
      BY Constants, FS_Interval
    <3>2. Labelled \subseteq 1..MaxPackages
      BY <2>3, Constants DEF AInv, PkgsOK
    <3> QED
      BY <3>1, <3>2, FS_Subset
  <2>5. PICK f : f = [a \in Labelled |-> a]
    OBVIOUS
  <2>6. \A a \in Labelled : f[a] = a
    BY <2>5
  <2>7. \A n \in 1..l : \E a \in Labelled : pkgs[f[a]].item = n
    BY <1>3, <2>2, <2>3, <2>4, <2>6, AllLinks
  <2> QED
    BY <1>2, <1>5, <2>3, <2>6, <2>7 DEF InRows
<1> QED
  BY <1>4, <1>5

\* What was found stays: there is no other link to come.
LEMMA FoundStay ==
  ASSUME AInv, faults = 0, Unstored, obj.kind = "Chain", obj.started, call.pc # "push",
         LinksOK, LastOK, NEW m \in Monitors, Step(m), UNCHANGED api
  PROVE /\ InKeys(keys[obj.group]) => keys' = keys
        /\ InRows => rows' = rows
<1> DEFINE i == monitor[m].name
<1>1. Stores(m) /\ Busy(m) /\ i \in DOMAIN pkgs
  BY StoresIs DEF Stores, TaskOK
<1>2. pkgs[i].run = runs /\ pkgs[i].item \in 1..obj.length
  <2>1. ~Gone(i)
    BY <1>1 DEF Gone
  <2> QED
    BY <1>1, <2>1, LastLink
<1>3. ASSUME InKeys(keys[obj.group]) PROVE keys' = keys
  <2>1. PICK k \in DOMAIN keys[obj.group] :
          pkgs[keys[obj.group][k]].run = runs /\ pkgs[keys[obj.group][k]].item = pkgs[i].item
    BY <1>2, <1>3 DEF InKeys
  <2>2. keys[obj.group][k] = i
    <3>1. keys[obj.group][k] \in DOMAIN pkgs
      BY FoundKeys
    <3> QED
      BY <1>1, <1>2, <2>1, <3>1 DEF LinksOK, Links1
  <2>3. ~Reading(m)
    <3>1. obj.group \in Groups /\ Of(m).group = obj.group
      BY ChainLists
    <3>2. Unlisted(m, keys[obj.group])
      BY <1>1, <3>1, AloneOK DEF AInv, DistinctOK
    <3> QED
      BY <2>2, <3>2 DEF Unlisted
  <2>4. ~Extend(m)
    BY <2>3 DEF Extend, Reading
  <2> QED
    BY <2>4, ChainLists
<1>4. ASSUME InRows PROVE rows' = rows
  <2>1. PICK j \in Labelled : j \in DOMAIN pkgs /\ pkgs[j].run = runs /\ pkgs[j].item = pkgs[i].item
    BY <1>2, <1>4 DEF InRows
  <2>2. i \in DOMAIN rows
    BY <1>1, <1>2, <2>1 DEF LinksOK, Links1, Labelled
  <2>3. monitor[m].id > 0
    BY ChainLists
  <2>4. monitor[m].pc \notin {"prune", "write"}
    BY <1>1, <2>2, <2>3 DEF Unstored, At
  <2> QED
    BY <2>4, ChainLists
<1> QED
  BY <1>3, <1>4


\* The answers a chain got are of the run they name, and whole unless the wait was in vain.
OfItsRun == answer.value = "results" => \A i \in answer.made : pkgs[i].run = answer.run
OfAllLinks ==
  (answer.value = "results" /\ answer.op = "result_group" /\ ~answer.late) =>
    \A n \in 1..answer.length : \E i \in DOMAIN pkgs :
      pkgs[i].run = answer.run /\ pkgs[i].item = n /\ i \in answer.made \cup failed
AskedOK == CallFound /\ OfItsRun /\ OfAllLinks

LEMMA AnswersKept ==
  ASSUME AInv, Grows, answer' = answer, OfItsRun, OfAllLinks PROVE OfItsRun' /\ OfAllLinks'
<1>1. OfItsRun'
  BY DEF OfItsRun, Grows, AInv, AnswerOK
<1>2. OfAllLinks'
  <2> SUFFICES ASSUME answer.value = "results", answer.op = "result_group", ~answer.late,
                      NEW n \in 1..answer.length
               PROVE \E i \in DOMAIN pkgs' : /\ pkgs'[i].run = answer.run /\ pkgs'[i].item = n
                                             /\ i \in answer.made \cup failed'
    BY DEF OfAllLinks
  <2>1. PICK i \in DOMAIN pkgs :
          pkgs[i].run = answer.run /\ pkgs[i].item = n /\ i \in answer.made \cup failed
    BY DEF OfAllLinks
  <2> QED
    BY <2>1 DEF Grows
<1> QED
  BY <1>1, <1>2

\* What a chain's answer is made of.
LEMMA AnswerHas ==
  ASSUME NEW made, Answer("results", made), \A i \in made : i \in DOMAIN pkgs /\ pkgs[i].run = runs,
         ~call.late => \A n \in 1..obj.length : \E i \in DOMAIN pkgs :
                         pkgs[i].run = runs /\ pkgs[i].item = n /\ i \in made \cup failed,
         pkgs' = pkgs, failed' = failed
  PROVE AskedOK'
<1>1. /\ call'.pc = "free" /\ answer'.made = made /\ answer'.run = runs /\ answer'.late = call.late
      /\ answer'.length = obj.length
  BY DEF Answer, Free
<1>2. CallFound'
  BY <1>1 DEF CallFound
<1>3. OfItsRun'
  BY <1>1 DEF OfItsRun
<1>4. OfAllLinks'
  <2>1. CASE call.late
    BY <1>1, <2>1 DEF OfAllLinks
  <2>2. CASE ~call.late
    BY <1>1, <2>2 DEF OfAllLinks
  <2> QED
    BY <2>1, <2>2
<1> QED
  BY <1>2, <1>3, <1>4 DEF AskedOK

LEMMA AskedGroup ==
  ASSUME AInv, obj.kind = "Chain", LastOK, AskedOK, Poll \/ GetRow \/ GetMembers, pkgs' = pkgs,
         failed' = failed, keys' = keys, obj' = obj, runs' = runs
  PROVE AskedOK'
<1>1. /\ call.op = "result_group" /\ obj.started /\ call.pc # "push" /\ obj.group \in Groups
      /\ call.pc \in {"poll", "get", "members"}
  <2>1. call.pc \in {"poll", "get", "members"}
    BY DEF Poll, GetRow, GetMembers
  <2> QED
    BY <2>1 DEF AInv, CallOK, Ops, ObjOK
<1>2. ~GetRow
  BY <1>1 DEF GetRow, AInv, CallOK
<1>3. CASE GetMembers
  <2>1. /\ call.pc = "members" /\ obj.cached
        /\ \A k \in DOMAIN call.keys : pkgs[call.keys[k]].run = runs
        /\ ~call.late => InKeys(call.keys)
    BY <1>3 DEF GetMembers, AskedOK, CallFound
  <2>2. CASE ~(ToSet(call.keys) \subseteq DOMAIN cache)
    <3>1. call'.pc = "free" /\ answer'.value = "raised"
      BY <1>3, <2>2 DEF GetMembers, Answer, Free
    <3> QED
      BY <3>1 DEF AskedOK, CallFound, OfItsRun, OfAllLinks
  <2>3. CASE ToSet(call.keys) \subseteq DOMAIN cache
    <3>1. PICK made : made = {id \in ToSet(call.keys) : call.failures \/ cache[id].success}
      OBVIOUS
    <3>2. Answer("results", made)
      BY <1>3, <2>3, <3>1 DEF GetMembers
    <3>3. \A k \in DOMAIN call.keys : call.keys[k] \in DOMAIN pkgs /\ call.keys[k] \in ToSet(call.keys)
      BY <2>1 DEF AInv, CallOK, Listed, Members, Result, ToSet
    <3>4. \A i \in ToSet(call.keys) : i \in DOMAIN pkgs /\ pkgs[i].run = runs
      <4>1. ASSUME NEW i \in ToSet(call.keys) PROVE \E k \in DOMAIN call.keys : i = call.keys[k]
        BY <4>1, <2>1 DEF AInv, CallOK, Listed, Result, ToSet
      <4> QED
        BY <2>1, <3>3, <4>1
    <3>5. ASSUME ~call.late, NEW n \in 1..obj.length
          PROVE \E i \in DOMAIN pkgs : pkgs[i].run = runs /\ pkgs[i].item = n /\ i \in made \cup failed
      <4>1. PICK k \in DOMAIN call.keys : pkgs[call.keys[k]].run = runs /\ pkgs[call.keys[k]].item = n
        BY <2>1, <3>5 DEF InKeys
      <4>2. PICK i : i = call.keys[k]
        OBVIOUS
      <4>3. i \in DOMAIN pkgs /\ i \in ToSet(call.keys) /\ i \in DOMAIN cache
        BY <2>3, <3>3, <4>2
      <4>4. CachedOK(i, cache[i]) /\ i >= 0
        BY <4>3, Constants DEF AInv, CacheOK, PkgsOK
      <4>5. cache[i].success \/ i \in failed
        BY <4>4 DEF CachedOK
      <4> QED
        BY <3>1, <4>1, <4>2, <4>3, <4>5
    <3> QED
      BY <3>1, <3>2, <3>4, <3>5, AnswerHas
  <2> QED
    BY <2>2, <2>3
<1>4. CASE Poll
  <2>1. call.pc = "poll" /\ (result_group_cached \/ result_group)
    BY <1>1, <1>4 DEF Poll, result_cached, result_exists
  <2>2. CASE result_group_cached
    <3>1. /\ call' = [call EXCEPT !.pc = "members", !.keys = keys[obj.group]] /\ answer' = answer
          /\ obj.cached
      BY <2>2 DEF result_group_cached
    <3>2. call \in [pc : {"count", "poll", "get", "members"}, op : {"result", "result_group"},
                    failures : BOOLEAN, late : BOOLEAN, keys : Result, count : Nat]
      BY <2>1 DEF AInv, CallOK, Calls, Free
    <3>3. call'.pc = "members" /\ call'.keys = keys[obj.group] /\ call'.late = call.late
      BY <3>1, <3>2
    <3>4. \A k \in DOMAIN keys[obj.group] : pkgs[keys[obj.group][k]].run = runs
      BY <1>1, FoundKeys
    <3>5. ~call.late => InKeys(keys[obj.group])
      BY <2>1, <3>1 DEF AskedOK, CallFound
    <3>6. PICK f : f = keys[obj.group]
      OBVIOUS
    <3>7. InKeys(f) => InKeys(f)'
      BY DEF InKeys
    <3>8. ~call.late => InKeys(call.keys)'
      BY <3>3, <3>5, <3>6, <3>7 DEF InKeys
    <3>9. CallFound'
      BY <3>1, <3>3, <3>4, <3>8 DEF CallFound
    <3> QED
      BY <3>1, <3>9 DEF AskedOK, OfItsRun, OfAllLinks
  <2>3. CASE result_group
    <3>1. PICK found : found = {id \in Labelled : call.failures \/ rows[id].success}
      OBVIOUS
    <3>2. Answer("results", found) /\ ~obj.cached
      BY <2>3, <3>1 DEF result_group
    <3>3. \A i \in Labelled : i \in DOMAIN pkgs /\ pkgs[i].run = runs
      BY <1>1, FoundRows
    <3>4. ASSUME ~call.late, NEW n \in 1..obj.length
          PROVE \E i \in DOMAIN pkgs : pkgs[i].run = runs /\ pkgs[i].item = n /\ i \in found \cup failed
      <4>1. PICK i \in Labelled : i \in DOMAIN pkgs /\ pkgs[i].run = runs /\ pkgs[i].item = n
        BY <2>1, <3>2, <3>4 DEF AskedOK, CallFound, InRows
      <4>2. RowOK(i, rows[i]) /\ i >= 0
        BY <4>1, Constants DEF AInv, RowsOK, PkgsOK, Labelled
      <4>3. rows[i].success \/ i \in failed
        BY <4>2 DEF RowOK
      <4> QED
        BY <3>1, <4>1, <4>3
    <3> QED
      BY <3>1, <3>2, <3>3, <3>4, AnswerHas
  <2> QED
    BY <2>1, <2>2, <2>3
<1> QED
  BY <1>2, <1>3, <1>4

LEMMA AskedTalk ==
  ASSUME AInv, faults = 0, obj.kind = "Chain", ~obj'.dirty, LinksOK, LastOK, AskedOK, Talk
  PROVE AskedOK'
<1>1. Grows
  BY TalkGrows
<1>2. CASE append \/ (run /\ RunChain)
  <2>1. call = Free /\ call' = call /\ answer' = answer
    BY <1>2, ChainAppend, RunChainIs
  <2>2. CallFound'
    BY <2>1 DEF CallFound, Free
  <2> QED
    BY <1>1, <2>1, <2>2, AnswersKept DEF AskedOK
<1>3. CASE UNCHANGED <<pkgs, failed, keys, obj, runs>> /\ Inquiry
  <2>1. CASE Poll \/ GetRow \/ GetMembers
    BY <1>3, <2>1, AskedGroup
  <2>2. CASE Ask
    <3>1. /\ call'.pc = "count" /\ call'.late = FALSE /\ call'.count = obj.length
          /\ answer'.value = "nothing"
      BY <2>2 DEF Ask, Ops, Nothing
    <3> QED
      BY <1>3, <3>1 DEF AskedOK, CallFound, OfItsRun, OfAllLinks
  <2>3. CASE Elapse \/ Counted
    <3>1. call.pc \in {"count", "poll"} /\ answer' = answer
      BY <2>3 DEF Elapse, Counted
    <3>2. call \in [pc : {"count", "poll", "get", "members"}, op : {"result", "result_group"},
                    failures : BOOLEAN, late : BOOLEAN, keys : Result, count : Nat]
      BY <3>1 DEF AInv, CallOK, Calls, Free
    <3>3. CASE Elapse
      <4>1. (call'.pc = "poll" /\ call'.late = TRUE) \/ call'.pc = "free"
        <5>1. CASE call.pc = "poll"
          BY <3>3, <5>1 DEF Elapse, Free
        <5>2. CASE call.pc = "count"
          <6>1. call' = [call EXCEPT !.pc = "poll", !.late = TRUE]
            BY <3>3, <5>2 DEF Elapse
          <6>2. call'.pc = "poll" /\ call'.late = TRUE
            BY <3>2, <6>1
          <6> QED
            BY <6>2
        <5> QED
          BY <3>1, <5>1, <5>2
      <4>2. CallFound'
        BY <4>1 DEF CallFound
      <4> QED
        BY <1>1, <3>1, <4>2, AnswersKept DEF AskedOK
    <3>4. CASE Counted
      <4>1. call'.pc = "poll"
        BY <3>2, <3>4 DEF Counted
      <4>2. IF obj.cached THEN InKeys(keys[obj.group]) ELSE InRows
        BY <3>4, CountedAll DEF AskedOK
      <4>3. rows' = rows
        BY <3>4 DEF Counted, vars
      <4>4. IF obj'.cached THEN InKeys(keys[obj.group])' ELSE InRows'
        BY <1>3, <4>2, <4>3 DEF InKeys, InRows, Labelled
      <4>5. CallFound'
        BY <4>1, <4>4 DEF CallFound
      <4> QED
        BY <1>1, <3>1, <4>5, AnswersKept DEF AskedOK
    <3> QED
      BY <2>3, <3>3, <3>4
  <2> QED
    BY <1>3, <2>1, <2>2, <2>3 DEF Inquiry
<1> QED
  BY <1>2, <1>3, ChainTalkIs


LEMMA AskedStep ==
  ASSUME AInv, faults = 0, Unstored, obj.kind = "Chain", LinksOK, LastOK, AskedOK,
         NEW m \in Monitors, Step(m), UNCHANGED api
  PROVE AskedOK'
<1>1. Grows /\ obj' = obj /\ runs' = runs /\ call' = call /\ answer' = answer
  BY StoresIs DEF Stores, api
<1>2. ASSUME NEW f \in Result, \A k \in DOMAIN f : f[k] \in DOMAIN pkgs, InKeys(f) PROVE InKeys(f)'
  BY <1>1, <1>2 DEF InKeys, Grows
<1>3. CASE call.pc = "poll"
  <2>1. obj.started /\ obj.group \in Groups
    BY <1>3 DEF AInv, CallOK, ObjOK
  <2>2. ASSUME ~call.late, obj.cached PROVE InKeys(keys[obj.group])'
    <3>1. InKeys(keys[obj.group])
      BY <1>3, <2>2 DEF AskedOK, CallFound
    <3>2. keys' = keys
      BY <1>3, <2>1, <3>1, FoundStay
    <3>3. PICK f : f = keys[obj.group]
      OBVIOUS
    <3>4. f \in Result /\ \A k \in DOMAIN f : f[k] \in DOMAIN pkgs
      BY <2>1, <3>3 DEF AInv, KeysOK, Listed, Members
    <3>5. InKeys(f)'
      BY <1>2, <3>1, <3>3, <3>4
    <3> QED
      BY <1>1, <3>2, <3>3, <3>5 DEF InKeys
  <2>3. ASSUME ~call.late, ~obj.cached PROVE InRows'
    <3>1. InRows
      BY <1>3, <2>3 DEF AskedOK, CallFound
    <3>2. rows' = rows
      BY <1>3, <2>1, <3>1, FoundStay
    <3> QED
      BY <1>1, <3>1, <3>2 DEF InRows, Labelled, Grows
  <2>4. CallFound'
    BY <1>1, <1>3, <2>2, <2>3 DEF CallFound
  <2> QED
    BY <1>1, <2>4, AnswersKept DEF AskedOK
<1>4. CASE call.pc = "members"
  <2>1. PICK f : f = call.keys
    OBVIOUS
  <2>2. f \in Result /\ \A k \in DOMAIN f : f[k] \in DOMAIN pkgs
    BY <1>4, <2>1 DEF AInv, CallOK, Listed, Members
  <2>3. \A k \in DOMAIN f : pkgs'[f[k]].run = runs
    BY <1>1, <1>4, <2>1, <2>2 DEF AskedOK, CallFound, Grows
  <2>4. ~call.late => InKeys(f)'
    BY <1>2, <1>4, <2>1, <2>2 DEF AskedOK, CallFound
  <2>5. ~call.late => InKeys(call.keys)'
    BY <1>1, <2>1, <2>4 DEF InKeys
  <2>6. CallFound'
    BY <1>1, <1>4, <2>1, <2>3, <2>5 DEF AskedOK, CallFound
  <2> QED
    BY <1>1, <2>6, AnswersKept DEF AskedOK
<1>5. CASE call.pc \notin {"poll", "members"}
  <2>1. CallFound'
    BY <1>1, <1>5 DEF AskedOK, CallFound
  <2> QED
    BY <1>1, <2>1, AnswersKept DEF AskedOK
<1> QED
  BY <1>3, <1>4, <1>5

LEMMA AskedDeliver ==
  ASSUME AInv, AskedOK, UNCHANGED api, NEW m \in Monitors, NEW i \in DOMAIN pkgs,
         NEW success \in BOOLEAN, Deliver(m, i, success)
  PROVE AskedOK'
<1>1. Grows /\ obj' = obj /\ runs' = runs /\ call' = call /\ answer' = answer
  BY DeliverGrows DEF api
<1>2. pkgs' = pkgs /\ keys' = keys /\ rows' = rows
  BY DeliverIs
<1>3. CallFound'
  BY <1>1, <1>2 DEF AskedOK, CallFound, InKeys, InRows, Labelled
<1> QED
  BY <1>1, <1>3, AnswersKept DEF AskedOK

AskedInv == (faults = 0 /\ obj.kind = "Chain" /\ ~obj.dirty) => AskedOK

LEMMA AskedNext ==
  ASSUME AInv, ClearInv, LinksInv, LastInv, AskedInv, [ApiNext]_allVars PROVE AskedInv'
<1> SUFFICES ASSUME faults' = 0, obj'.kind = "Chain", ~obj'.dirty PROVE AskedOK'
  BY DEF AskedInv
<1>1. faults = 0 /\ Unstored
  BY Faultless DEF ClearInv
<1>2. CASE Talk
  <2>1. obj.kind = "Chain" /\ ~obj.dirty
    BY <1>2, TalkKind, DirtyStays
  <2> QED
    BY <1>1, <1>2, <2>1, AskedTalk DEF AskedInv, LastInv, LinksInv
<1>3. CASE UNCHANGED allVars
  BY <1>1, <1>3 DEF AskedInv, AskedOK, CallFound, InKeys, InRows, Labelled, OfItsRun, OfAllLinks,
     allVars, vars, api
<1>4. ASSUME NEW m \in Monitors, UNCHANGED api, Step(m) PROVE AskedOK'
  BY <1>1, <1>4, AskedStep DEF AskedInv, LastInv, LinksInv, api
<1>5. ASSUME NEW m \in Monitors, UNCHANGED api, NEW i \in DOMAIN pkgs, NEW success \in BOOLEAN,
             Deliver(m, i, success)
      PROVE AskedOK'
  BY <1>1, <1>5, AskedDeliver DEF AskedInv, api
<1> QED
  BY <1>2, <1>3, <1>4, <1>5, Faultless

\* The invariant of a chain that nothing goes wrong with.
ChainOK == ClearInv /\ LinksInv /\ LastInv /\ AskedInv

LEMMA ChainInit == ASSUME ApiInit PROVE ChainOK
<1>1. pkgs = <<>> /\ call = Free /\ answer = Nothing /\ ~obj.started /\ ~obj.ran
  BY DEF ApiInit, Init
<1>2. DOMAIN pkgs = {} /\ call.pc = "free" /\ answer.value = "nothing"
  BY <1>1 DEF Free, Nothing
<1>3. LinksInv
  BY <1>2 DEF LinksInv, LinksOK, Links1, Linked
<1>4. obj.started = obj.ran
  BY DEF ApiInit
<1>5. LastInv
  BY <1>2, <1>4 DEF LastInv, LastOK, PastGone, Lengths
<1>6. AskedInv
  BY <1>2 DEF AskedInv, AskedOK, CallFound, OfItsRun, OfAllLinks
<1> QED
  BY <1>3, <1>5, <1>6, ClearInit DEF ChainOK

LEMMA ChainNext == ASSUME AInv, AInv', ChainOK, [ApiNext]_allVars PROVE ChainOK'
  BY ClearNext, LinksNext, LastNext, AskedNext DEF ChainOK

\* What a program is answered comes from the object's last run (result and result_group
\* of tasks.py): an iterable's and a task's always, a chain's if nothing was delivered
\* twice or failed, and the chain was extended with nothing on its way.
THEOREM AnswersAreOfLastRun == ApiSpec => []AnswerOfLastRun
<1>1. AInv /\ AskedInv => AnswerOfLastRun
  BY DEF AInv, AnswerOK, AskedInv, AskedOK, OfItsRun, AnswerOfLastRun
<1> QED
  BY <1>1, ChainInit, ChainNext, ResultsInvariant, PTL DEF ApiSpec, ChainOK

\* Under the same conditions a chain that did not wait in vain has every link's result.
THEOREM AnswersAreWhole == ApiSpec => []AnswerWhole
<1>1. AskedInv => AnswerWhole
  BY DEF AskedInv, AskedOK, OfAllLinks, AnswerWhole
<1> QED
  BY <1>1, ChainInit, ChainNext, ResultsInvariant, PTL DEF ApiSpec, ChainOK
=============================================================================

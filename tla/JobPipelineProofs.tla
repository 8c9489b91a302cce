------------------------- MODULE JobPipelineProofs -------------------------
(***************************************************************************)
(* The properties of JobPipeline hold for every job file and cluster.      *)
(* PipelineInv is inductive: JobOK and DepsOK say what the job is, PodsOK  *)
(* what the pods of the group at hand are, TodoOK what is left to do, and  *)
(* OutputOK what is rendered so far.  Where the steps go over a list the   *)
(* proofs take the least place at which they would fail.                   *)
(***************************************************************************)
EXTENDS JobPipeline, SequenceTheorems, WellFoundedInduction, TLAPS

\* "Less than" on the naturals, as a relation: WFMin asks for a set of pairs.
LEMMA LessIsWellFounded ==
  \E R : IsWellFoundedOn(R, Nat) /\ \A x, y \in Nat : <<y, x>> \in R <=> y < x
<1> DEFINE R == OpToRel(<, Nat)
<1>1. IsWellFoundedOn(R, Nat)
  BY NatLessThanWellFounded
<1>2. \A x, y \in Nat : <<y, x>> \in R <=> y < x
  BY DEF OpToRel
<1> HIDE DEF R
<1> QED BY <1>1, <1>2

\* A set of naturals that is not empty has a least element; the proofs below go by the least
\* number that is an exception where they would go by induction.
LEMMA Least ==
  ASSUME NEW T \in SUBSET Nat, T # {}
  PROVE  \E x \in T : \A y \in T : x <= y
<1>1. PICK R : IsWellFoundedOn(R, Nat) /\ \A x, y \in Nat : <<y, x>> \in R <=> y < x
  BY LessIsWellFounded
<1>2. PICK x \in T : \A y \in T : ~(<<y, x>> \in R)
  BY <1>1, WFMin
<1>3. ASSUME NEW y \in T PROVE x <= y
  <2>1. x \in Nat /\ y \in Nat /\ ~(<<y, x>> \in R)
    BY <1>2
  <2>2. ~(y < x)
    BY <1>1, <2>1
  <2> QED BY <2>1, <2>2
<1> QED BY <1>3

\* Min is that least element.
LEMMA MinOf ==
  ASSUME NEW T \in SUBSET Nat, T # {}
  PROVE  Min(T) \in T /\ \A y \in T : Min(T) <= y
BY Least DEF Min

\* A list is a function on 1..n.
LEMMA ListIsSeq ==
  ASSUME NEW s
  PROVE  IsList(s) <=> \E n \in Nat : s = [i \in 1..n |-> s[i]]
<1>1. ASSUME IsList(s) PROVE s = [i \in 1..Len(s) |-> s[i]] /\ Len(s) \in Nat
  BY <1>1 DEF IsList, ToSet
<1>2. ASSUME NEW n \in Nat, s = [i \in 1..n |-> s[i]] PROVE IsList(s)
  BY <1>2 DEF IsList, ToSet
<1> QED BY <1>1, <1>2

\* Index is the first place of a name, and 0 when the name is not there.
LEMMA IndexFinds ==
  ASSUME NEW s, IsList(s), NEW n
  PROVE  /\ Index(s, n) \in 0..Len(s)
         /\ Index(s, n) # 0 => s[Index(s, n)].name = n
         /\ \A i \in 1..Len(s) : s[i].name = n => Index(s, n) # 0 /\ Index(s, n) <= i
<1>1. PICK I : I = {i \in 1..Len(s) : s[i].name = n}
  OBVIOUS
<1>2. Index(s, n) = IF I # {} THEN Min(I) ELSE 0
  BY <1>1 DEF Index, SelectInSeq
<1>3. Len(s) \in Nat /\ I \in SUBSET Nat
  BY <1>1 DEF IsList
<1>4. I # {} => Min(I) \in I /\ \A i \in I : Min(I) <= i
  BY <1>3, MinOf
<1>5. CASE I = {}
  BY <1>5, <1>1, <1>2, <1>3
<1>6. CASE I # {}
  <2>1. Index(s, n) \in I /\ \A i \in I : Index(s, n) <= i
    BY <1>6, <1>2, <1>4
  <2>2. Index(s, n) \in 1..Len(s) /\ s[Index(s, n)].name = n
    BY <2>1, <1>1
  <2> QED BY <2>1, <2>2, <1>1, <1>3
<1> QED BY <1>5, <1>6

-----------------------------------------------------------------------------
(* FlattenSeq: the one recursive operator of the library whose result the    *)
(* proofs need.                                                              *)

\* f is the joined beginnings of the lists in ss, up to n.
Joins(ss, f, n) == f = [i \in 1..n |-> IF i = 1 THEN ss[i] ELSE f[i - 1] \o ss[i]]

\* There are the joined beginnings of the lists in ss, up to any of them.
LEMMA JoinsExist ==
  ASSUME NEW ss, NEW m \in Nat
  PROVE  \E f : Joins(ss, f, m)
<1> SUFFICES ASSUME ~ \E f : Joins(ss, f, m) PROVE FALSE
  OBVIOUS
<1>1. PICK T : T = {n \in Nat : ~ \E f : Joins(ss, f, n)}
  OBVIOUS
<1>2. PICK n \in T : \A k \in T : n <= k
  BY <1>1, Least
<1>3. n # 0
  <2>1. Joins(ss, <<>>, 0)
    BY DEF Joins
  <2> QED BY <2>1, <1>1
<1>4. n \in Nat /\ n - 1 \in Nat /\ n - 1 \notin T
  BY <1>1, <1>2, <1>3
<1>5. PICK f : Joins(ss, f, n - 1)
  BY <1>4, <1>1
<1> DEFINE g == [i \in 1..n |-> IF i < n THEN f[i]
                                ELSE IF i = 1 THEN ss[i] ELSE f[i - 1] \o ss[i]]
<1>6. \A i \in 1..n : g[i] = IF i = 1 THEN ss[i] ELSE g[i - 1] \o ss[i]
  <2> SUFFICES ASSUME NEW i \in 1..n PROVE g[i] = IF i = 1 THEN ss[i] ELSE g[i - 1] \o ss[i]
    OBVIOUS
  <2>1. i \in Int /\ 1 <= i /\ i <= n /\ n \in Nat
    BY <1>4
  <2>2. i # 1 => i - 1 \in 1..n /\ i - 1 < n
    BY <2>1
  <2>3. i # 1 => g[i - 1] = f[i - 1]
    BY <2>2
  <2>4. i < n => f[i] = IF i = 1 THEN ss[i] ELSE f[i - 1] \o ss[i]
    <3>1. \A k \in 1..(n - 1) : f[k] = IF k = 1 THEN ss[k] ELSE f[k - 1] \o ss[k]
      BY <1>5, Zenon DEF Joins
    <3>2. i < n => i \in 1..(n - 1)
      BY <2>1
    <3> QED BY <3>1, <3>2
  <2>5. g[i] = IF i < n THEN f[i] ELSE IF i = 1 THEN ss[i] ELSE f[i - 1] \o ss[i]
    OBVIOUS
  <2> HIDE DEF g
  <2> QED BY <2>3, <2>4, <2>5
<1>7. Joins(ss, g, n)
  BY <1>6 DEF Joins
<1> QED BY <1>7, <1>2, <1>1

\* FlattenSeq is the last of them.
LEMMA FlattenJoins ==
  ASSUME NEW ss, IsList(ss), ss # <<>>
  PROVE  \E f : Joins(ss, f, Len(ss)) /\ FlattenSeq(ss) = f[Len(ss)]
<1>1. Len(ss) \in Nat /\ Len(ss) # 0
  BY DEF IsList
<1>2. \E f : Joins(ss, f, Len(ss))
  BY <1>1, JoinsExist
<1> DEFINE f == CHOOSE f : Joins(ss, f, Len(ss))
<1>3. Joins(ss, f, Len(ss))
  BY <1>2
<1>4. FlattenSeq(ss) = f[Len(ss)]
  BY <1>1 DEF FlattenSeq, Joins
<1> QED BY <1>3, <1>4

\* What two sequences hold together.
LEMMA ToSetOfConcat ==
  ASSUME NEW S, NEW s \in Seq(S), NEW t \in Seq(S)
  PROVE  ToSet(s \o t) = ToSet(s) \cup ToSet(t)
<1>1. /\ s \o t \in Seq(S) /\ Len(s) \in Nat /\ Len(t) \in Nat
      /\ DOMAIN s = 1..Len(s) /\ DOMAIN t = 1..Len(t)
      /\ DOMAIN (s \o t) = 1..(Len(s) + Len(t))
  OBVIOUS
<1>2. ASSUME NEW x \in ToSet(s \o t) PROVE x \in ToSet(s) \cup ToSet(t)
  BY <1>1 DEF ToSet
<1>3. ASSUME NEW x \in ToSet(s) PROVE x \in ToSet(s \o t)
  BY <1>1 DEF ToSet
<1>4. ASSUME NEW x \in ToSet(t) PROVE x \in ToSet(s \o t)
  <2>1. PICK i \in 1..Len(t) : x = t[i]
    BY <1>1 DEF ToSet
  <2>2. Len(s) + i \in 1..(Len(s) + Len(t)) /\ (s \o t)[Len(s) + i] = t[i]
    BY <1>1
  <2> QED BY <2>1, <2>2, <1>1 DEF ToSet
<1> QED BY <1>2, <1>3, <1>4

\* FlattenSeq holds what the lists it joins hold.
LEMMA Flattened ==
  ASSUME NEW S, NEW ss, IsList(ss), \A i \in DOMAIN ss : ss[i] \in Seq(S)
  PROVE  /\ FlattenSeq(ss) \in Seq(S)
         /\ ToSet(FlattenSeq(ss)) = UNION {ToSet(ss[i]) : i \in DOMAIN ss}
<1>0. Len(ss) \in Nat /\ DOMAIN ss = 1..Len(ss)
  BY DEF IsList
<1>1. CASE ss = <<>>
  <2>1. FlattenSeq(ss) = <<>>
    BY <1>1 DEF FlattenSeq
  <2> QED BY <2>1, <1>1 DEF ToSet
<1>2. CASE ss # <<>>
  <2>1. PICK f : Joins(ss, f, Len(ss)) /\ FlattenSeq(ss) = f[Len(ss)]
    BY <1>2, FlattenJoins
  <2> DEFINE Fits(n) == f[n] \in Seq(S) /\ ToSet(f[n]) = UNION {ToSet(ss[i]) : i \in 1..n}
  <2>2. PICK T : T = {n \in 1..Len(ss) : ~Fits(n)}
    OBVIOUS
  <2>3. ASSUME T # {} PROVE FALSE
    <3>0. T \in SUBSET Nat
      BY <1>0, <2>2
    <3>1. PICK n \in T : \A k \in T : n <= k
      BY <3>0, <2>3, Least
    <3>2. n \in 1..Len(ss) /\ f[n] = IF n = 1 THEN ss[n] ELSE f[n - 1] \o ss[n]
      BY <1>0, <2>1, <2>2 DEF Joins
    <3>3. CASE n = 1
      <4>1. 1..n = {1}
        BY <3>3
      <4>2. Fits(1)
        BY <4>1, <3>2, <3>3, <1>0
      <4> QED BY <4>2, <3>3, <2>2
    <3>4. CASE n # 1
      <4>1. n - 1 \in 1..Len(ss) /\ n - 1 \notin T /\ n \in Nat /\ n - 1 \in Nat
        BY <3>1, <3>2, <3>4, <1>0
      <4>2. Fits(n - 1)
        BY <4>1, <2>2
      <4>3. f[n] = f[n - 1] \o ss[n] /\ ss[n] \in Seq(S)
        BY <3>2, <3>4, <1>0
      <4>4. ToSet(f[n]) = ToSet(f[n - 1]) \cup ToSet(ss[n])
        BY <4>2, <4>3, ToSetOfConcat
      <4>5. 1..n = (1..(n - 1)) \cup {n}
        BY <4>1
      <4>6. Fits(n)
        BY <4>2, <4>3, <4>4, <4>5
      <4> QED BY <4>6, <2>2
    <3> QED BY <3>3, <3>4
  <2>4. Len(ss) \in 1..Len(ss)
    BY <1>0, <1>2 DEF IsList
  <2>5. Fits(Len(ss))
    BY <2>2, <2>3, <2>4
  <2> QED BY <2>5, <2>1, <1>0
<1> QED BY <1>1, <1>2

-----------------------------------------------------------------------------
(* The shape of a job: lists of groups of lists of tasks, from the file on.  *)

\* The length and the places of a list.
LEMMA ListFacts ==
  ASSUME NEW s, IsList(s)
  PROVE  Len(s) \in Nat /\ DOMAIN s = 1..Len(s) /\ s = [i \in 1..Len(s) |-> s[i]]
BY DEF IsList, ToSet

\* What Op makes of the elements of a list is a list.
LEMMA ListOfAll ==
  ASSUME NEW s, IsList(s), NEW t, t = [i \in DOMAIN s |-> t[i]]
  PROVE  IsList(t) /\ Len(t) = Len(s) /\ DOMAIN t = DOMAIN s
<1>1. Len(s) \in Nat /\ t = [i \in 1..Len(s) |-> t[i]] /\ DOMAIN s = 1..Len(s)
  BY ListFacts
<1>2. IsList(t)
  BY <1>1, ListIsSeq
<1> QED BY <1>1, <1>2, ListFacts

\* A list and one element more.
LEMMA LongerList ==
  ASSUME NEW s, IsList(s), NEW x
  PROVE  IsList(Append(s, x)) /\ ToSet(Append(s, x)) = ToSet(s) \cup {x}
<1>1. s \in Seq(ToSet(s) \cup {x})
  BY SeqMonotonic DEF IsList
<1>2. /\ Len(s) \in Nat /\ DOMAIN s = 1..Len(s) /\ DOMAIN Append(s, x) = 1..(Len(s) + 1)
      /\ \A i \in 1..(Len(s) + 1) : Append(s, x)[i] = IF i <= Len(s) THEN s[i] ELSE x
  BY <1>1
<1>3. ToSet(Append(s, x)) = ToSet(s) \cup {x}
  <2>1. ASSUME NEW y \in ToSet(Append(s, x)) PROVE y \in ToSet(s) \cup {x}
    BY <1>2 DEF ToSet
  <2>2. ASSUME NEW i \in DOMAIN s PROVE s[i] \in ToSet(Append(s, x))
    BY <1>2 DEF ToSet
  <2>3. x \in ToSet(Append(s, x))
    <3>1. Len(s) + 1 \in 1..(Len(s) + 1) /\ Append(s, x)[Len(s) + 1] = x
      BY <1>2
    <3> QED BY <3>1, <1>2 DEF ToSet
  <2> QED BY <2>1, <2>2, <2>3 DEF ToSet
<1> QED BY <1>1, <1>3 DEF IsList

\* Task u has the shape of task t; likewise for lists of tasks and of groups.
TaskLike(t, u) ==
  /\ DOMAIN t \subseteq DOMAIN u /\ \A f \in ListFields : IsList(u[f])
  /\ "index" \in DOMAIN t /\ t.index \in Nat => u.index \in Nat
TasksLike(s, t) ==
  t = [i \in DOMAIN s |-> t[i]] /\ \A i \in DOMAIN s : TaskLike(s[i], t[i])
GroupsLike(s, t) ==
  /\ t = [i \in DOMAIN s |-> t[i]]
  /\ \A i \in DOMAIN s : /\ DOMAIN s[i] \subseteq DOMAIN t[i] /\ t[i].count \in Int
                          /\ TasksLike(s[i].tasks, t[i].tasks)

\* What is like a list of tasks is one.
LEMMA LikeTasks ==
  ASSUME NEW s, AreTasks(s), NEW t, TasksLike(s, t)
  PROVE  AreTasks(t)
<1>1. IsList(t) /\ DOMAIN t = DOMAIN s
  BY ListOfAll DEF AreTasks, TasksLike
<1>2. ASSUME NEW i \in DOMAIN t PROVE IsTask(t[i])
  <2>1. IsTask(s[i]) /\ TaskLike(s[i], t[i])
    BY <1>1 DEF AreTasks, TasksLike, ToSet
  <2> QED BY <2>1 DEF IsTask, ListFields, TaskLike
<1> QED BY <1>1, <1>2 DEF AreTasks, ToSet

\* What is like a list of groups is one.
LEMMA LikeGroups ==
  ASSUME NEW s, AreGroups(s), NEW t, GroupsLike(s, t)
  PROVE  AreGroups(t)
<1>1. IsList(t) /\ DOMAIN t = DOMAIN s
  BY ListOfAll DEF AreGroups, GroupsLike
<1>2. ASSUME NEW i \in DOMAIN t PROVE IsGroup(t[i])
  <2>1. IsGroup(s[i])
    BY <1>1 DEF AreGroups, ToSet
  <2>2. DOMAIN s[i] \subseteq DOMAIN t[i] /\ t[i].count \in Int /\ TasksLike(s[i].tasks, t[i].tasks)
    BY <1>1 DEF GroupsLike
  <2>3. AreTasks(t[i].tasks)
    BY <2>1, <2>2, LikeTasks DEF IsGroup
  <2> QED BY <2>1, <2>2, <2>3 DEF IsGroup
<1> QED BY <1>1, <1>2 DEF AreGroups, ToSet

\* The groups of a list have their fields, and tasks.
LEMMA TaskIsThere ==
  ASSUME NEW s, AreGroups(s), NEW i \in DOMAIN s
  PROVE  /\ {"name", "count", "global", "tasks"} \subseteq DOMAIN s[i] /\ IsList(s[i].tasks)
         /\ s[i].count \in Int
         /\ \A k \in DOMAIN s[i].tasks : IsTask(s[i].tasks[k])
BY DEF AreGroups, IsGroup, AreTasks, ToSet

\* The fields of a task, one by one.
LEMMA FieldsOfTask ==
  ASSUME NEW t
  PROVE  IsTask(t) <=> /\ {"name", "env", "after", "volumesFrom", "links", "volumes", "secrets",
                           "public", "private"} \subseteq DOMAIN t
                       /\ IsList(t.after) /\ IsList(t.volumesFrom) /\ IsList(t.links)
                       /\ IsList(t.volumes) /\ IsList(t.secrets)
                       /\ IsList(t.public) /\ IsList(t.private)
BY DEF IsTask, ListFields

\* Such a task has the same fields and may have other links.
LEMMA OtherLinks ==
  ASSUME NEW t, IsTask(t), NEW u, DOMAIN u = DOMAIN t, u.links = [i \in DOMAIN t.links |-> u.links[i]],
         \A f \in {"after", "volumesFrom", "volumes", "secrets", "public", "private"} : u[f] = t[f],
         "index" \in DOMAIN t => u.index = t.index
  PROVE  TaskLike(t, u)
<1>1. IsList(u.links)
  BY FieldsOfTask, ListOfAll
<1> QED BY <1>1, FieldsOfTask DEF TaskLike, ListFields

\* ParseTask makes a task of a task of the file.
LEMMA ParsedTask ==
  ASSUME NEW t, IsTask(t), NEW i \in Nat
  PROVE  LET u == AtIndex(ParseTask(t), i) IN TaskLike(t, u) /\ "index" \in DOMAIN u /\ u.index = i
<1> DEFINE u == ParseTask(t)
<1>1. /\ DOMAIN u = DOMAIN t /\ u.after = t.after /\ u.volumesFrom = t.volumesFrom
      /\ u.volumes = t.volumes /\ u.secrets = t.secrets /\ u.public = t.public
      /\ u.links = [k \in DOMAIN t.links |-> u.links[k]]
      /\ u.private = [k \in DOMAIN t.private |-> u.private[k]]
      /\ "index" \in DOMAIN t => u.index = t.index
  BY FieldsOfTask DEF ParseTask, ParseFrontends
<1> HIDE DEF u
<1>2. TaskLike(t, u)
  <2>1. IsList(u.links) /\ IsList(u.private)
    BY <1>1, FieldsOfTask, ListOfAll
  <2> QED BY <1>1, <2>1, FieldsOfTask DEF TaskLike, ListFields
<1> DEFINE v == AtIndex(u, i)
<1>3. /\ DOMAIN v = DOMAIN u \cup {"index"} /\ v.index = i
      /\ \A f \in DOMAIN u : f # "index" => v[f] = u[f]
  BY DEF AtIndex
<1> HIDE DEF v
<1> QED BY <1>1, <1>2, <1>3, FieldsOfTask DEF TaskLike, ListFields, u, v

\* The tasks of groups have numbers.
Indexed(groups) ==
  \A g \in ToSet(groups) : \A t \in ToSet(g.tasks) : "index" \in DOMAIN t /\ t.index \in Nat

\* ParseJob makes groups of the tasks and the groups of a file, and numbers their tasks.
LEMMA ParsedGroups ==
  ASSUME NEW f \in File
  PROVE  AreGroups(ParseJob(f).groups) /\ Indexed(ParseJob(f).groups)
<1> DEFINE a == [i \in DOMAIN f.tasks |-> AnonymousGroup(f.tasks[i])]
           b == [i \in DOMAIN f.groups |-> ParseGroup(f.groups[i])]
<1>1. AreTasks(f.tasks) /\ (\A t \in ToSet(f.tasks) : t.count \in Int) /\ AreGroups(f.groups)
  BY FileAssumption DEF FileAssumption
<1>2. ASSUME NEW i \in DOMAIN f.tasks PROVE IsGroup(a[i]) /\ Indexed(<<a[i]>>)
  <2> DEFINE t == AtIndex(ParseTask(f.tasks[i]), 0)
  <2>1. IsTask(f.tasks[i])
    BY <1>1 DEF AreTasks, ToSet
  <2>2. IsTask(t) /\ "index" \in DOMAIN t /\ t.index \in Nat
    BY <2>1, ParsedTask DEF IsTask, ListFields, TaskLike
  <2>3. /\ {"name", "count", "global", "tasks"} \subseteq DOMAIN a[i] /\ a[i].tasks = <<t>>
        /\ a[i].count \in Int
    <3>1. a[i] = AnonymousGroup(f.tasks[i])
      OBVIOUS
    <3>0. f.tasks[i].count \in Int
      BY <1>1 DEF ToSet
    <3>2. /\ AnonymousGroup(f.tasks[i]).tasks = <<t>>
          /\ AnonymousGroup(f.tasks[i]).count \in Int
          /\ DOMAIN AnonymousGroup(f.tasks[i])
             = {"name", "count", "global", "restart", "constraints", "tasks"}
      BY <3>0 DEF AnonymousGroup, Default
    <3> HIDE DEF a, b, t
    <3> QED BY <3>1, <3>2
  <2> HIDE DEF t
  <2>4. AreTasks(<<t>>)
    BY <2>2 DEF AreTasks, IsList, ToSet
  <2>5. Indexed(<<a[i]>>)
    BY <2>2, <2>3 DEF Indexed, ToSet
  <2> QED BY <2>3, <2>4, <2>5 DEF IsGroup
<1>3. ASSUME NEW i \in DOMAIN f.groups
      PROVE  /\ DOMAIN f.groups[i] \subseteq DOMAIN b[i] /\ b[i].count \in Int
             /\ TasksLike(f.groups[i].tasks, b[i].tasks) /\ Indexed(<<b[i]>>)
  <2> DEFINE g == f.groups[i]
             ts == [k \in DOMAIN g.tasks |-> AtIndex(ParseTask(g.tasks[k]), k - 1)]
  <2>1. /\ {"name", "count", "global", "tasks"} \subseteq DOMAIN g /\ g.count \in Int
        /\ IsList(g.tasks) /\ \A k \in DOMAIN g.tasks : IsTask(g.tasks[k])
    BY <1>1, TaskIsThere
  <2>2. DOMAIN b[i] = DOMAIN g /\ b[i].tasks = ts /\ b[i].count \in Int
    <3>1. b[i] = ParseGroup(g)
      OBVIOUS
    <3> HIDE DEF a, b
    <3> QED BY <2>1, <3>1 DEF ParseGroup, Default
  <2>3. \A k \in DOMAIN g.tasks : /\ TaskLike(g.tasks[k], ts[k])
                                  /\ "index" \in DOMAIN ts[k] /\ ts[k].index \in Nat
    <3>1. \A k \in DOMAIN g.tasks : k - 1 \in Nat
      <4>1. Len(g.tasks) \in Nat /\ DOMAIN g.tasks = 1..Len(g.tasks)
        BY <2>1, ListFacts
      <4> HIDE DEF g
      <4> QED BY <4>1
    <3>2. ASSUME NEW k \in DOMAIN g.tasks
          PROVE  /\ TaskLike(g.tasks[k], AtIndex(ParseTask(g.tasks[k]), k - 1))
                 /\ "index" \in DOMAIN AtIndex(ParseTask(g.tasks[k]), k - 1)
                 /\ AtIndex(ParseTask(g.tasks[k]), k - 1).index \in Nat
      <4>1. k - 1 \in Nat /\ IsTask(g.tasks[k])
        BY <2>1, <3>1
      <4> HIDE DEF g
      <4> QED BY <4>1, ParsedTask
    <3> HIDE DEF g
    <3> QED BY <3>2
  <2> HIDE DEF ts, b, g
  <2>4. Indexed(<<b[i]>>)
    <3>1. \A t \in ToSet(b[i].tasks) : "index" \in DOMAIN t /\ t.index \in Nat
      BY <2>2, <2>3 DEF ToSet, ts
    <3> QED BY <3>1 DEF Indexed, ToSet
  <2> QED BY <2>2, <2>3, <2>4 DEF TasksLike, ts, g
<1>4. AreGroups(b)
  BY <1>1, <1>3, LikeGroups DEF GroupsLike
<1>5. IsList(a) /\ DOMAIN a = DOMAIN f.tasks /\ IsList(b) /\ DOMAIN b = DOMAIN f.groups
  BY <1>1, <1>4, ListOfAll DEF AreTasks, AreGroups
<1>6. ParseJob(f).groups = a \o b
  BY DEF ParseJob
<1> HIDE DEF a, b
<1>7. a \in Seq(ToSet(a) \cup ToSet(b)) /\ b \in Seq(ToSet(a) \cup ToSet(b))
  BY <1>5, SeqMonotonic DEF IsList
<1>8. ToSet(a \o b) = ToSet(a) \cup ToSet(b) /\ a \o b \in Seq(ToSet(a \o b))
  BY <1>7, ToSetOfConcat
<1>9. Indexed(a \o b)
  <2>1. \A g : Indexed(<<g>>) => \A t \in ToSet(g.tasks) : "index" \in DOMAIN t /\ t.index \in Nat
    BY DEF Indexed, ToSet
  <2>2. ASSUME NEW g \in ToSet(a \o b) PROVE Indexed(<<g>>)
    <3>1. \/ \E i \in DOMAIN f.tasks : g = a[i]
          \/ \E i \in DOMAIN f.groups : g = b[i]
      BY <1>5, <1>8 DEF ToSet
    <3> QED BY <3>1, <1>2, <1>3
  <2> QED BY <2>1, <2>2 DEF Indexed
<1> QED BY <1>2, <1>4, <1>5, <1>6, <1>8, <1>9 DEF AreGroups, IsList, ToSet

\* A job with groups, and one that has the shape of another.
IsJob(j) == "groups" \in DOMAIN j /\ AreGroups(j.groups) /\ Indexed(j.groups)
JobLike(j, l) == DOMAIN j \subseteq DOMAIN l /\ GroupsLike(j.groups, l.groups)

\* What is like a job is one.
LEMMA LikeJob ==
  ASSUME NEW j, IsJob(j), NEW l, JobLike(j, l)
  PROVE  IsJob(l)
<1>1. /\ AreGroups(j.groups) /\ GroupsLike(j.groups, l.groups) /\ AreGroups(l.groups)
      /\ "groups" \in DOMAIN l /\ Indexed(j.groups)
  BY LikeGroups DEF IsJob, JobLike
<1>2. \A i \in DOMAIN j.groups : TasksLike(j.groups[i].tasks, l.groups[i].tasks)
  BY <1>1 DEF GroupsLike
<1>3. DOMAIN l.groups = DOMAIN j.groups
  BY <1>1 DEF GroupsLike
<1>4. ASSUME NEW i \in DOMAIN j.groups, NEW t \in ToSet(l.groups[i].tasks)
      PROVE  "index" \in DOMAIN t /\ t.index \in Nat
  <2> DEFINE x == j.groups[i].tasks
             y == l.groups[i].tasks
  <2>1. TasksLike(x, y) /\ \A u \in ToSet(x) : "index" \in DOMAIN u /\ u.index \in Nat
    BY <1>1, <1>2 DEF Indexed, ToSet
  <2>2. PICK k \in DOMAIN y : t = y[k]
    BY DEF ToSet
  <2> HIDE DEF x, y
  <2>3. k \in DOMAIN x /\ TaskLike(x[k], t) /\ x[k] \in ToSet(x)
    BY <2>1, <2>2 DEF TasksLike, ToSet
  <2> QED BY <2>1, <2>3 DEF TaskLike
<1>5. Indexed(l.groups)
  BY <1>3, <1>4 DEF Indexed, ToSet
<1> QED BY <1>1, <1>5 DEF IsJob

\* SetDefaults keeps the shape of a job.
LEMMA DefaultsKeepShape ==
  ASSUME NEW j, IsJob(j), NEW c
  PROVE  JobLike(j, SetDefaults(j, c))
<1> DEFINE l == SetDefaults(j, c)
<1>1. ASSUME NEW i \in DOMAIN j.groups, NEW k \in DOMAIN j.groups[i].tasks
      PROVE  TaskLike(j.groups[i].tasks[k], l.groups[i].tasks[k])
  <2> DEFINE t == j.groups[i].tasks[k]
             u == l.groups[i].tasks[k]
  <2>1. IsTask(t) /\ DOMAIN u = DOMAIN t /\ \A f \in DOMAIN t : f \notin {"type", "network"} => u[f] = t[f]
    BY TaskIsThere DEF IsJob, SetDefaults, EachTask, EachGroup
  <2> HIDE DEF t, u
  <2>2. TaskLike(t, u)
    BY <2>1, FieldsOfTask DEF TaskLike, ListFields
  <2> QED BY <2>2 DEF t, u
<1>2. /\ DOMAIN l = DOMAIN j
      /\ l.groups = [i \in DOMAIN j.groups |-> l.groups[i]]
      /\ \A i \in DOMAIN j.groups :
           /\ DOMAIN l.groups[i] = DOMAIN j.groups[i] /\ l.groups[i].count = j.groups[i].count
           /\ l.groups[i].tasks = [k \in DOMAIN j.groups[i].tasks |-> l.groups[i].tasks[k]]
  BY TaskIsThere DEF IsJob, SetDefaults, EachTask, EachGroup
<1> QED BY <1>1, <1>2, TaskIsThere DEF IsJob, JobLike, GroupsLike, TasksLike

\* ResolveLinks keeps the shape of a job.
LEMMA LinksKeepShape ==
  ASSUME NEW j, IsJob(j)
  PROVE  JobLike(j, ResolveLinks(j))
<1> DEFINE l == ResolveLinks(j)
<1>1. ASSUME NEW i \in DOMAIN j.groups, NEW k \in DOMAIN j.groups[i].tasks
      PROVE  TaskLike(j.groups[i].tasks[k], l.groups[i].tasks[k])
  <2> DEFINE t == j.groups[i].tasks[k]
             u == l.groups[i].tasks[k]
  <2>1. /\ IsTask(t) /\ DOMAIN u = DOMAIN t
        /\ \A f \in DOMAIN t : f \notin {"target", "links"} => u[f] = t[f]
    BY TaskIsThere DEF IsJob, ResolveLinks, EachTask, EachGroup
  <2>2. u.links = [n \in DOMAIN t.links |-> u.links[n]]
    <3> DEFINE Resolved(x) == ResolveLink(x, j, j.groups[i], t)
    <3>1. u = [t EXCEPT !.target = Resolved(@),
                        !.links = [n \in DOMAIN @ |-> [@[n] EXCEPT !.target = Resolved(@)]]]
      BY TaskIsThere DEF IsJob, ResolveLinks, EachTask, EachGroup
    <3> HIDE DEF Resolved, t, u
    <3> QED BY <2>1, <3>1, FieldsOfTask
  <2> HIDE DEF t, u
  <2>3. TaskLike(t, u)
    BY <2>1, <2>2, FieldsOfTask, OtherLinks
  <2> QED BY <2>3 DEF t, u
<1>2. /\ DOMAIN l = DOMAIN j
      /\ l.groups = [i \in DOMAIN j.groups |-> l.groups[i]]
      /\ \A i \in DOMAIN j.groups :
           /\ DOMAIN l.groups[i] = DOMAIN j.groups[i] /\ l.groups[i].count = j.groups[i].count
           /\ l.groups[i].tasks = [k \in DOMAIN j.groups[i].tasks |-> l.groups[i].tasks[k]]
  BY TaskIsThere DEF IsJob, ResolveLinks, EachTask, EachGroup
<1> QED BY <1>1, <1>2, TaskIsThere DEF IsJob, JobLike, GroupsLike, TasksLike

\* NormalizeTasks keeps the shape of a job.
LEMMA NormalizeKeepsShape ==
  ASSUME NEW j, IsJob(j), NEW c
  PROVE  IsJob(NormalizeTasks(j, c))
<1> DEFINE l == NormalizeTasks(j, c)
<1>0. CASE ~c.kube
  BY <1>0 DEF NormalizeTasks
<1>1. CASE c.kube
  <2>1. ASSUME NEW i \in DOMAIN j.groups, NEW k \in DOMAIN j.groups[i].tasks
        PROVE  TaskLike(j.groups[i].tasks[k], l.groups[i].tasks[k])
    <3> DEFINE t == j.groups[i].tasks[k]
               u == l.groups[i].tasks[k]
    <3>1. IsTask(t) /\ DOMAIN u = DOMAIN t /\ \A f \in DOMAIN t : f # "network" => u[f] = t[f]
      BY <1>1, TaskIsThere DEF IsJob, NormalizeTasks, EachTask, EachGroup
    <3> HIDE DEF t, u
    <3>2. TaskLike(t, u)
      BY <3>1, FieldsOfTask DEF TaskLike, ListFields
    <3> QED BY <3>2 DEF t, u
  <2>2. /\ DOMAIN l = DOMAIN j
        /\ l.groups = [i \in DOMAIN j.groups |-> l.groups[i]]
        /\ \A i \in DOMAIN j.groups :
             /\ DOMAIN l.groups[i] = DOMAIN j.groups[i] /\ l.groups[i].count = j.groups[i].count
             /\ l.groups[i].tasks = [k \in DOMAIN j.groups[i].tasks |-> l.groups[i].tasks[k]]
    BY <1>1, TaskIsThere DEF IsJob, NormalizeTasks, EachTask, EachGroup
  <2> QED BY <2>1, <2>2, LikeJob, TaskIsThere DEF IsJob, JobLike, GroupsLike, TasksLike
<1> QED BY <1>0, <1>1

\* Tasks are like themselves.
LEMMA TasksLikeThemselves ==
  ASSUME NEW s, AreTasks(s)
  PROVE  TasksLike(s, s)
BY ListFacts DEF AreTasks, TasksLike, TaskLike, IsTask, ListFields, ToSet

\* OptimizeFor keeps the shape of a job.
LEMMA OptimizeKeepsShape ==
  ASSUME NEW j, IsJob(j), NEW c, c.instances \in Nat
  PROVE  JobLike(j, OptimizeFor(j, c))
<1> DEFINE l == OptimizeFor(j, c)
<1>1. /\ DOMAIN l = DOMAIN j
      /\ l.groups = [i \in DOMAIN j.groups |-> l.groups[i]]
      /\ \A i \in DOMAIN j.groups :
           /\ DOMAIN l.groups[i] = DOMAIN j.groups[i] /\ l.groups[i].tasks = j.groups[i].tasks
           /\ l.groups[i].count \in Int
  BY TaskIsThere DEF IsJob, OptimizeFor, EachGroup
<1>2. \A i \in DOMAIN j.groups : AreTasks(j.groups[i].tasks)
  BY DEF IsJob, AreGroups, IsGroup, ToSet
<1> QED BY <1>1, <1>2, TasksLikeThemselves DEF JobLike, GroupsLike

\* Sorting loses nothing and adds nothing.
LEMMA SortedIsAll ==
  ASSUME NEW s, IsList(s), NEW t \in Sortings(s, ByName)
  PROVE  /\ IsList(t) /\ Len(t) = Len(s) /\ ToSet(t) = ToSet(s)
         /\ Duplicate(t) => Duplicate(s)
<1>1. PICK p \in Bijection(DOMAIN s, DOMAIN s) : t = [i \in DOMAIN s |-> s[p[i]]]
  BY DEF Sortings
<1>2. /\ p \in [DOMAIN s -> DOMAIN s]
      /\ \A i, k \in DOMAIN s : p[i] = p[k] => i = k
      /\ \A k \in DOMAIN s : \E i \in DOMAIN s : p[i] = k
  BY DEF Bijection, Injection, IsInjective, Surjection
<1>3. IsList(t) /\ Len(t) = Len(s) /\ DOMAIN t = DOMAIN s
  BY <1>1, ListOfAll
<1>4. ToSet(t) = ToSet(s)
  BY <1>1, <1>2 DEF ToSet
<1>5. Duplicate(t) => Duplicate(s)
  BY <1>1, <1>2, <1>3 DEF Duplicate
<1> QED BY <1>3, <1>4, <1>5

\* However Link sorts, it makes a job.
LEMMA LinkedIsJob ==
  ASSUME NEW j, IsJob(j), NEW l \in Link(j)
  PROVE  IsJob(l)
<1> DEFINE groups == ResolveLinks(j).groups
           With(ts) == [i \in DOMAIN groups |-> [groups[i] EXCEPT !.tasks = ts[i]]]
<1>1. IsJob(ResolveLinks(j))
  BY LinksKeepShape, LikeJob
<1>2. PICK ts, gs : /\ \A i \in DOMAIN groups : ts[i] \in Sortings(groups[i].tasks, ByName)
                    /\ gs \in Sortings(With(ts), ByName) /\ l = [j EXCEPT !.groups = gs]
  BY DEF Link
<1>3. AreGroups(groups)
  BY <1>1 DEF IsJob
<1>4. ASSUME NEW i \in DOMAIN groups
      PROVE  IsGroup(With(ts)[i]) /\ ToSet(With(ts)[i].tasks) = ToSet(groups[i].tasks)
  <2>1. IsGroup(groups[i]) /\ AreTasks(groups[i].tasks)
    BY <1>3 DEF AreGroups, IsGroup, ToSet
  <2>2. IsList(ts[i]) /\ ToSet(ts[i]) = ToSet(groups[i].tasks)
    BY <2>1, <1>2, SortedIsAll DEF AreTasks
  <2>3. AreTasks(ts[i])
    BY <2>1, <2>2 DEF AreTasks
  <2> QED BY <2>1, <2>2, <2>3 DEF IsGroup
<1>5. IsList(With(ts)) /\ DOMAIN With(ts) = DOMAIN groups
  BY <1>3, ListOfAll DEF AreGroups
<1>6. IsList(gs) /\ ToSet(gs) = ToSet(With(ts))
  BY <1>2, <1>5, SortedIsAll
<1>7. AreGroups(gs)
  BY <1>4, <1>5, <1>6 DEF AreGroups, ToSet
<1>8. Indexed(gs)
  <2>1. Indexed(groups)
    BY <1>1 DEF IsJob
  <2>2. ASSUME NEW i \in DOMAIN groups, NEW t \in ToSet(With(ts)[i].tasks)
        PROVE  "index" \in DOMAIN t /\ t.index \in Nat
    <3>1. t \in ToSet(groups[i].tasks) /\ groups[i] \in ToSet(groups)
      BY <1>4 DEF ToSet
    <3> QED BY <3>1, <2>1 DEF Indexed
  <2>3. \A g \in ToSet(With(ts)) : \E i \in DOMAIN groups : g = With(ts)[i]
    BY <1>5 DEF ToSet
  <2> HIDE DEF With, groups
  <2> QED BY <1>6, <2>2, <2>3 DEF Indexed
<1> QED BY <1>2, <1>7, <1>8 DEF IsJob

-----------------------------------------------------------------------------
(* What is to be rendered: entries of groups that the job has.               *)

\* The counts of the first groups have a bound.
LEMMA BoundOfCounts ==
  ASSUME NEW s, AreGroups(s), NEW m \in Nat
  PROVE  \E b \in Nat : \A i \in DOMAIN s : i <= m => s[i].count <= b
<1> SUFFICES ASSUME ~ \E b \in Nat : \A i \in DOMAIN s : i <= m => s[i].count <= b PROVE FALSE
  OBVIOUS
<1>0. DOMAIN s \subseteq Nat \ {0} /\ \A i \in DOMAIN s : s[i].count \in Int
  BY ListFacts, TaskIsThere DEF AreGroups
<1>1. PICK T : T = {n \in Nat : ~ \E b \in Nat : \A i \in DOMAIN s : i <= n => s[i].count <= b}
  OBVIOUS
<1>2. PICK n \in T : \A k \in T : n <= k
  BY <1>1, Least
<1>3. n # 0
  <2>1. \A i \in DOMAIN s : i <= 0 => s[i].count <= 0
    BY <1>0
  <2> QED BY <2>1, <1>1
<1>4. n \in Nat /\ n - 1 \in Nat /\ n - 1 \notin T
  BY <1>1, <1>2, <1>3
<1>5. PICK b \in Nat : \A i \in DOMAIN s : i <= n - 1 => s[i].count <= b
  BY <1>4, <1>1
<1>6. CASE n \notin DOMAIN s
  <2>1. \A i \in DOMAIN s : i <= n => i <= n - 1
    BY <1>6, <1>0, <1>4
  <2> QED BY <2>1, <1>5, <1>1
<1>7. CASE n \in DOMAIN s
  <2>1. PICK c \in Nat : b <= c /\ s[n].count <= c
    <3>1. CASE s[n].count <= b
      BY <3>1
    <3>2. CASE ~(s[n].count <= b)
      BY <3>2, <1>0, <1>7
    <3> QED BY <3>1, <3>2
  <2>2. ASSUME NEW i \in DOMAIN s, i <= n PROVE s[i].count <= c
    <3>1. i = n \/ i <= n - 1
      BY <2>2, <1>0, <1>4
    <3>2. i <= n - 1 => s[i].count <= b /\ s[i].count \in Int
      BY <1>5, <1>0
    <3> QED BY <3>1, <3>2, <2>1
  <2> QED BY <2>2, <1>1
<1> QED BY <1>6, <1>7

\* MaxCount is a number of slices.
LEMMA MaxCountIsCount ==
  ASSUME NEW j, IsJob(j)
  PROVE  MaxCount(j) \in Nat
<1> DEFINE S == {0} \cup {g.count : g \in ToSet(j.groups)}
<1>1. IsList(j.groups) /\ \A i \in DOMAIN j.groups : j.groups[i].count \in Int
  BY TaskIsThere DEF IsJob, AreGroups
<1>2. Len(j.groups) \in Nat /\ DOMAIN j.groups = 1..Len(j.groups)
  BY <1>1, ListFacts
<1>3. PICK b \in Nat : \A i \in DOMAIN j.groups : i <= Len(j.groups) => j.groups[i].count <= b
  BY <1>2, BoundOfCounts DEF IsJob
<1>4. S \subseteq Int /\ 0 \in S /\ \A x \in S : x <= b
  BY <1>1, <1>2, <1>3 DEF ToSet
<1>5. PICK U : U = {c \in Nat : \A x \in S : x <= c}
  OBVIOUS
<1>6. b \in U /\ U \in SUBSET Nat
  BY <1>4, <1>5
<1>7. PICK c \in U : \A d \in U : c <= d
  BY <1>6, Least
<1> HIDE DEF S
<1>8. c \in S
  <2> SUFFICES ASSUME c \notin S PROVE FALSE
    OBVIOUS
  <2>1. c \in Nat /\ c # 0 /\ \A x \in S : x <= c /\ x # c
    BY <1>4, <1>5
  <2>2. c - 1 \in Nat /\ \A x \in S : x <= c - 1
    BY <2>1, <1>4
  <2> QED BY <2>1, <2>2, <1>5, <1>7
<1>9. \A x \in S : c >= x
  BY <1>4, <1>5
<1>10. Max(S) \in S /\ \A x \in S : Max(S) >= x
  BY <1>8, <1>9 DEF Max
<1> QED BY <1>10, <1>4 DEF MaxCount, S

\* The entries that GenerateUnits goes through are groups and slices of the job.
LEMMA RenderedAreGroups ==
  ASSUME NEW j, IsJob(j), Cluster.kube \in BOOLEAN
  PROVE  Rendered(j) \in Seq([group : DOMAIN j.groups, slice : Nat \ {0}])
<1> DEFINE n == IF Cluster.kube THEN 1 ELSE MaxCount(j)
           E == [group : DOMAIN j.groups, slice : Nat \ {0}]
           ss == [i \in 1..n |-> [k \in DOMAIN j.groups |-> [group |-> k, slice |-> i]]]
<1>1. n \in Nat
  BY MaxCountIsCount
<1>2. IsList(j.groups) /\ DOMAIN j.groups = 1..Len(j.groups) /\ Len(j.groups) \in Nat
  BY ListFacts DEF IsJob, AreGroups
<1>3. Rendered(j) = FlattenSeq(ss)
  BY DEF Rendered
<1>4. ASSUME NEW i \in 1..n PROVE ss[i] \in Seq(E)
  <2>1. i \in Nat \ {0}
    BY <1>1
  <2>2. \A k \in DOMAIN j.groups : [group |-> k, slice |-> i] \in E
    BY <2>1
  <2>3. ss[i] = [k \in DOMAIN j.groups |-> [group |-> k, slice |-> i]]
    OBVIOUS
  <2>4. ss[i] \in [DOMAIN j.groups -> E]
    BY <2>2, <2>3
  <2> HIDE DEF ss, E
  <2> QED BY <2>4, <1>2
<1>5. IsList(ss)
  <2> HIDE DEF n
  <2>1. ss = [i \in 1..n |-> ss[i]]
    OBVIOUS
  <2> HIDE DEF ss
  <2> QED BY <1>1, <2>1, ListIsSeq
<1> HIDE DEF ss, E, n
<1>6. DOMAIN ss = 1..n
  BY DEF ss
<1> QED BY <1>3, <1>4, <1>5, <1>6, Flattened DEF E

-----------------------------------------------------------------------------
(* The job keeps its shape, is valid from Validate on and then stays as it   *)
(* is; what is to be rendered are groups of it.                              *)

\* The stages after Validate, and the entries of what is then to be rendered.
Rendering == stage \in {"render", "ties", "pods", "done"}
Entries == [group : DOMAIN job.groups, slice : Nat \ {0}]

\* The job, and what is to be rendered of it.
JobOK ==
  /\ file \in File /\ IsJob(job)
  /\ Rendering => JobIsValid(job) /\ todo \in Seq(Entries)
  /\ stage \in {"ties", "pods"} => todo # <<>> /\ Cluster.kube

\* A job with another task of the same shape in a place has the same shape.
LEMMA TaskReplaced ==
  ASSUME NEW j, IsJob(j), NEW a, NEW b, NEW t,
         a \in DOMAIN j.groups /\ b \in DOMAIN j.groups[a].tasks => TaskLike(j.groups[a].tasks[b], t)
  PROVE  JobLike(j, [j EXCEPT !.groups[a].tasks[b] = t])
<1> DEFINE l == [j EXCEPT !.groups[a].tasks[b] = t]
<1>1. /\ DOMAIN l = DOMAIN j /\ l.groups = [i \in DOMAIN j.groups |-> l.groups[i]]
      /\ \A i \in DOMAIN j.groups :
           /\ DOMAIN l.groups[i] = DOMAIN j.groups[i] /\ l.groups[i].count = j.groups[i].count
           /\ l.groups[i].tasks = IF i = a THEN [j.groups[i].tasks EXCEPT ![b] = t]
                                  ELSE j.groups[i].tasks
  BY TaskIsThere DEF IsJob
<1> HIDE DEF l
<1>2. \A i \in DOMAIN j.groups : AreTasks(j.groups[i].tasks)
  BY DEF IsJob, AreGroups, IsGroup, ToSet
<1>3. ASSUME NEW i \in DOMAIN j.groups PROVE TasksLike(j.groups[i].tasks, l.groups[i].tasks)
  <2>1. TasksLike(j.groups[i].tasks, j.groups[i].tasks)
    BY <1>2, TasksLikeThemselves
  <2>2. i = a => TasksLike(j.groups[i].tasks, [j.groups[i].tasks EXCEPT ![b] = t])
    BY <2>1 DEF TasksLike
  <2> QED BY <1>1, <2>1, <2>2
<1> QED BY <1>1, <1>3, TaskIsThere DEF IsJob, JobLike, GroupsLike, l

\* ReplaceTask keeps the shape of a task.
LEMMA ReplacedTaskIsLike ==
  ASSUME NEW t, IsTask(t), NEW j, NEW g
  PROVE  TaskLike(t, ReplaceTask(t, j, g))
<1> DEFINE u == ReplaceTask(t, j, g)
<1>1. /\ DOMAIN u = DOMAIN t
      /\ u.after = [i \in DOMAIN t.after |-> u.after[i]]
      /\ u.volumesFrom = [i \in DOMAIN t.volumesFrom |-> u.volumesFrom[i]]
      /\ u.links = [i \in DOMAIN t.links |-> u.links[i]]
      /\ u.volumes = t.volumes /\ u.secrets = t.secrets
      /\ u.public = t.public /\ u.private = t.private
      /\ "index" \in DOMAIN t => u.index = t.index
  BY FieldsOfTask DEF ReplaceTask
<1> HIDE DEF u
<1>2. IsList(u.after) /\ IsList(u.volumesFrom) /\ IsList(u.links)
  BY <1>1, FieldsOfTask, ListOfAll
<1> QED BY <1>1, <1>2, FieldsOfTask DEF TaskLike, ListFields, u

\* JobOK at the start: the job is empty.
LEMMA JobOKInit == Init => JobOK
<1> SUFFICES ASSUME Init PROVE JobOK
  OBVIOUS
<1>1. IsJob([name |-> <<>>, groups |-> <<>>])
  BY DEF IsJob, AreGroups, Indexed, IsList, ToSet
<1> QED BY <1>1 DEF Init, JobOK, Rendering

\* Parse keeps JobOK: the job has the shape of the file.
LEMMA JobOKParse == JobOK /\ Parse => JobOK'
<1> SUFFICES ASSUME JobOK, Parse PROVE JobOK'
  OBVIOUS
<1>1. CASE FileIsRefused(file)
  BY <1>1 DEF JobOK, Parse, End, parseVars, Rendering
<1>2. CASE ~FileIsRefused(file)
  <2>1. AreGroups(ParseJob(file).groups) /\ Indexed(ParseJob(file).groups)
    BY ParsedGroups DEF JobOK
  <2>2. "groups" \in DOMAIN ParseJob(file)
    BY DEF ParseJob
  <2>3. IsJob(SetDefaults(ParseJob(file), Cluster))
    BY <2>1, <2>2, DefaultsKeepShape, LikeJob DEF IsJob
  <2>4. stage' = "replace" /\ file' = file /\ job' = SetDefaults(ParseJob(file), Cluster)
    BY <1>2 DEF Parse
  <2> QED BY <2>3, <2>4 DEF JobOK, Rendering
<1> QED BY <1>1, <1>2

\* Each replaced variable keeps JobOK, and the places of the tasks.
LEMMA JobOKReplace ==
  ASSUME JobOK, NEW k \in pending, ReplaceVariable(k)
  PROVE  JobOK' /\ JobLike(job, job')
<1> DEFINE t == TaskAt(job, todo[1])
           r == ReplaceUse(Cluster, job, job.groups[todo[1][1]], t, t.env[k])
<1>0. JobLike(job, job)
  <2>1. \A i \in DOMAIN job.groups : AreTasks(job.groups[i].tasks)
    BY DEF JobOK, IsJob, AreGroups, IsGroup, ToSet
  <2>2. job.groups = [i \in DOMAIN job.groups |-> job.groups[i]]
    BY ListFacts DEF JobOK, IsJob, AreGroups
  <2> QED BY <2>1, <2>2, TasksLikeThemselves, TaskIsThere DEF JobOK, IsJob, JobLike, GroupsLike
<1>1. CASE r.end = "panic"
  BY <1>1, <1>0 DEF JobOK, ReplaceVariable, End, parseVars, Rendering
<1>2. CASE r.end # "panic"
  <2> DEFINE u == [t EXCEPT !.env[k] = r.value,
                            !.links = IF r.links = <<>> THEN @ ELSE AddLink(@, Head(r.links))]
  <2>1. /\ stage = "replace" /\ UNCHANGED <<file, stage, todo>>
        /\ job' = [job EXCEPT !.groups[todo[1][1]].tasks[todo[1][2]] = u]
    BY <1>2 DEF ReplaceVariable
  <2>2. ASSUME IsTask(t) PROVE TaskLike(t, u)
    <3> DEFINE links == IF r.links = <<>> THEN t.links ELSE AddLink(t.links, Head(r.links))
    <3>1. /\ DOMAIN u = DOMAIN t /\ u.links = links
          /\ \A f \in {"after", "volumesFrom", "volumes", "secrets", "public", "private"} : u[f] = t[f]
          /\ "index" \in DOMAIN t => u.index = t.index
      BY <2>2, FieldsOfTask
    <3>2. IsList(links)
      BY <2>2, FieldsOfTask, LongerList DEF AddLink
    <3> HIDE DEF u, links
    <3> QED BY <2>2, <3>1, <3>2, FieldsOfTask DEF TaskLike, ListFields
  <2>3. todo[1][1] \in DOMAIN job.groups /\ todo[1][2] \in DOMAIN job.groups[todo[1][1]].tasks
        => IsTask(t)
    BY TaskIsThere DEF TaskAt, JobOK, IsJob
  <2> HIDE DEF u
  <2>4. JobLike(job, job') /\ IsJob(job')
    BY <2>1, <2>2, <2>3, TaskReplaced, LikeJob DEF TaskAt, JobOK
  <2> QED BY <2>1, <2>4 DEF JobOK, Rendering
<1> QED BY <1>1, <1>2

\* EndReplaceTask keeps JobOK.
LEMMA JobOKEndReplace ==
  ASSUME JobOK, EndReplaceTask
  PROVE  JobOK'
<1> DEFINE g == job.groups[todo[1][1]]
           t == g.tasks[todo[1][2]]
<1>1. CASE errors
  BY <1>1 DEF JobOK, EndReplaceTask, End, parseVars, Rendering
<1>2. CASE ~errors
  <2>1. /\ stage = "replace" /\ UNCHANGED <<file, stage>>
        /\ job' = [job EXCEPT !.groups[todo[1][1]].tasks[todo[1][2]] = ReplaceTask(t, job, g)]
    BY <1>2 DEF EndReplaceTask
  <2>2. todo[1][1] \in DOMAIN job.groups /\ todo[1][2] \in DOMAIN g.tasks => IsTask(t)
    BY TaskIsThere DEF JobOK, IsJob
  <2>3. IsJob(job')
    BY <2>1, <2>2, ReplacedTaskIsLike, TaskReplaced, LikeJob DEF JobOK
  <2> QED BY <2>1, <2>3 DEF JobOK, Rendering
<1> QED BY <1>1, <1>2

\* Validate keeps JobOK: what it passes on is valid.
LEMMA JobOKValidate ==
  ASSUME JobOK, Validate
  PROVE  JobOK'
<1>1. PICK l \in Link(job) : job' = NormalizeTasks(OptimizeFor(l, Cluster), Cluster)
  BY DEF Validate
<1>2. Cluster.instances \in Nat /\ Cluster.kube \in BOOLEAN
  BY FileAssumption DEF FileAssumption, JobOK, Cluster
<1>3. IsJob(job')
  BY <1>1, <1>2, LinkedIsJob, OptimizeKeepsShape, LikeJob, NormalizeKeepsShape DEF JobOK
<1>4. Rendered(job') \in Seq(Entries')
  BY <1>2, <1>3, RenderedAreGroups DEF Entries
<1> QED BY <1>3, <1>4 DEF Validate, JobOK, Rendering, Cluster

\* The other steps leave the job alone, and at most take the first entry from todo.
LEMMA JobOKRender ==
  ASSUME JobOK,
         UNCHANGED <<file, job>>, Rendering, Rendering' => todo' \in {todo, Tail(todo)},
         Rendering' /\ todo' # todo => todo # <<>>,
         stage' \in {"ties", "pods"} => todo' = todo /\ todo # <<>> /\ Cluster.kube
  PROVE  JobOK'
<1>1. Rendering' => JobIsValid(job) /\ todo' \in Seq(Entries)
  BY DEF JobOK
<1> QED BY <1>1 DEF JobOK, Entries, Cluster, Rendering

\* JobOK is inductive.
LEMMA JobOKStep ==
  ASSUME JobOK, [Next]_pipelineVars
  PROVE  JobOK'
<1> USE DEF End, parseVars, podVars, Rendering
<1>1. CASE Parse
  BY <1>1, JobOKParse
<1>2. CASE \E k \in pending : ReplaceVariable(k)
  BY <1>2, JobOKReplace
<1>3. CASE EndReplaceTask
  BY <1>3, JobOKEndReplace
<1>4. CASE Validate
  BY <1>4, JobOKValidate
<1>5. CASE SkipGroup
  BY <1>5, JobOKRender DEF SkipGroup
<1>6. CASE RenderUnits
  BY <1>6, JobOKRender DEF RenderUnits
<1>7. CASE Done
  BY <1>7, JobOKRender DEF Done
<1>8. CASE OnePod
  BY <1>8, JobOKRender DEF OnePod
<1>9. CASE OwnPods
  BY <1>9, JobOKRender DEF OwnPods
<1>10. CASE TiePods
  BY <1>10, JobOKRender DEF TiePods, JobOK
<1>11. CASE EndTies
  BY <1>11, JobOKRender DEF EndTies, JobOK
<1>12. CASE SortTasks
  BY <1>12, JobOKRender DEF SortTasks, JobOK
<1>13. CASE RenderPods
  BY <1>13, JobOKRender DEF RenderPods, JobOK
<1>14. CASE \E p \in Pods : PickPod(p)
  BY <1>14, JobOKRender DEF PickPod, JobOK
<1>15. CASE Ended \/ UNCHANGED pipelineVars
  BY <1>15 DEF Ended, pipelineVars, JobOK, Cluster, Entries
<1> QED
  BY <1>1, <1>2, <1>3, <1>4, <1>5, <1>6, <1>7, <1>8, <1>9, <1>10, <1>11, <1>12, <1>13, <1>14,
     <1>15 DEF Next, Steps

-----------------------------------------------------------------------------
(* The pods of a group: what TiePods and the sorting of the pods keep.       *)

\* The ties of a group, as pairs of names, and the tasks of a pod.
TiesOf(g) ==
  UNION {{<<t.name, o>> : o \in ToSet(t.volumesFrom \o t.after)} : t \in ToSet(g.tasks)}
TasksOf(ps, p) == {n \in DOMAIN ps.of : ps.of[n] = p}

\* The list of tasks s holds the tasks with these names, each once.
Holds(s, g, names) == s \in Seq(ToSet(g.tasks)) /\ ~Duplicate(s) /\ Names(s) = names

\* The tasks of the group are divided over the pods.
Parts(g, ps) ==
  /\ DOMAIN ps = {"of", "members"}
  /\ DOMAIN ps.of = Names(g.tasks) /\ DOMAIN ps.members = DOMAIN g.tasks
  /\ \A n \in DOMAIN ps.of : /\ ps.of[n] \in DOMAIN g.tasks
                             /\ Holds(ps.members[ps.of[n]], g, TasksOf(ps, ps.of[n]))

\* The tasks of a tie that is not still to be looked at are in one pod.
Tied(g, ps, rest) ==
  \A tie \in TiesOf(g) : tie \in ToSet(rest) \/ ps.of[tie[1]] = ps.of[tie[2]]

\* What no tie leaves keeps its pods to itself.
Finest(g, ps) ==
  \A S \in SUBSET Names(g.tasks) :
    (\A tie \in TiesOf(g) : tie[1] \in S <=> tie[2] \in S)
    => \A m, n \in Names(g.tasks) : ps.of[m] = ps.of[n] => (m \in S <=> n \in S)

\* The first i tasks come after those they are to come after.
KeptUpTo(s, i) ==
  \A j, k \in DOMAIN s : j <= i /\ j < k => s[k].name \notin ToSet(s[j].after)

\* The sorted pods hold their tasks, in the order of after.
SortedOK(g, ps, list) ==
  \A p \in DOMAIN list : p \in Nat /\ TasksOf(ps, p) # {} /\ Holds(list[p], g, TasksOf(ps, p))
                         /\ KeptUpTo(list[p], Len(list[p]))

\* So does the pod that is being sorted, up to the task at hand.
SortingOK(g, ps, list, so) ==
  so # NoPod =>
    /\ so = [pod |-> so.pod, tasks |-> so.tasks, i |-> so.i]
    /\ TasksOf(ps, so.pod) # {} /\ so.pod \notin DOMAIN list
    /\ Holds(so.tasks, g, TasksOf(ps, so.pod))
    /\ so.i \in 1..Len(so.tasks) + 1 /\ KeptUpTo(so.tasks, so.i - 1)

\* The pods of the group at hand, and what is left of them at the other stages.
PodsOK ==
  /\ stage \in {"ties", "pods"} /\ Group.restart # "all" =>
       /\ Parts(Group, pods) /\ Finest(Group, pods) /\ SortedOK(Group, pods, sorted)
       /\ ties \in Seq(TiesOf(Group)) /\ Tied(Group, pods, ties)
       /\ SortingOK(Group, pods, sorted, sorting)
  /\ stage = "ties" => Group.restart # "all" /\ sorting = NoPod /\ sorted = <<>>
  /\ stage = "pods" => ties = <<>>
  /\ stage = "pods" /\ Group.restart = "all" =>
       sorting = NoPod /\ sorted = <<Group.tasks>> /\ pods.of = [n \in Names(Group.tasks) |-> 1]
  /\ stage \notin {"ties", "pods"} => sorting = NoPod /\ ties = <<>>
  /\ \A p \in DOMAIN sorted : Names(sorted[p]) \subseteq DOMAIN pods.of

\* The group at hand is a valid group of the job.
LEMMA GroupOK ==
  ASSUME JobOK, Rendering, todo # <<>>
  PROVE  Group \in ToSet(job.groups) /\ IsGroup(Group) /\ GroupIsValid(Group)
<1>1. todo \in Seq(Entries) /\ JobIsValid(job) /\ AreGroups(job.groups)
  BY DEF JobOK, IsJob
<1>2. todo[1] \in Entries
  BY <1>1
<1>3. Group \in ToSet(job.groups)
  BY <1>2 DEF Group, Entries, ToSet
<1> QED BY <1>1, <1>3 DEF AreGroups, JobIsValid

\* Two lists joined.
LEMMA ListsJoin ==
  ASSUME NEW s, IsList(s), NEW t, IsList(t)
  PROVE  IsList(s \o t) /\ ToSet(s \o t) = ToSet(s) \cup ToSet(t)
<1>1. s \in Seq(ToSet(s) \cup ToSet(t)) /\ t \in Seq(ToSet(s) \cup ToSet(t))
  BY SeqMonotonic DEF IsList
<1>2. ToSet(s \o t) = ToSet(s) \cup ToSet(t)
  BY <1>1, ToSetOfConcat
<1> QED BY <1>1, <1>2 DEF IsList

\* Ties lists the ties of a group, and nothing else.
LEMMA TiesAreAll ==
  ASSUME NEW g, AreTasks(g.tasks)
  PROVE  Ties(g) \in Seq(TiesOf(g)) /\ ToSet(Ties(g)) = TiesOf(g)
<1> DEFINE Other(i) == g.tasks[i].volumesFrom \o g.tasks[i].after
           s(i) == [k \in DOMAIN Other(i) |-> <<g.tasks[i].name, Other(i)[k]>>]
           ss == [i \in DOMAIN g.tasks |-> s(i)]
<1>1. Ties(g) = FlattenSeq(ss)
  BY DEF Ties
<1>2. IsList(g.tasks) /\ \A i \in DOMAIN g.tasks : g.tasks[i] \in ToSet(g.tasks) /\ IsTask(g.tasks[i])
  BY DEF AreTasks, ToSet
<1>3. ASSUME NEW i \in DOMAIN g.tasks
      PROVE  /\ s(i) \in Seq(TiesOf(g))
             /\ ToSet(s(i)) = {<<g.tasks[i].name, o>> : o \in ToSet(Other(i))}
  <2>1. IsList(Other(i))
    BY <1>2, ListsJoin DEF IsTask, ListFields
  <2> DEFINE os == Other(i)
             n == g.tasks[i].name
             l == [k \in DOMAIN os |-> <<n, os[k]>>]
  <2>2. \A o \in ToSet(os) : <<n, o>> \in TiesOf(g)
    BY <1>2 DEF TiesOf
  <2> HIDE DEF os, n
  <2>3. Len(os) \in Nat /\ DOMAIN os = 1..Len(os)
    BY <2>1, ListFacts DEF os
  <2>4. l \in [1..Len(os) -> TiesOf(g)]
    BY <2>2, <2>3 DEF ToSet
  <2>5. ToSet(l) = {<<n, o>> : o \in ToSet(os)}
    BY DEF ToSet
  <2> HIDE DEF l
  <2>6. l \in Seq(TiesOf(g))
    BY <2>3, <2>4
  <2> QED BY <2>5, <2>6 DEF os, n, l
<1> HIDE DEF s
<1>4. IsList(ss) /\ DOMAIN ss = DOMAIN g.tasks
  BY <1>2, ListOfAll
<1>5. Ties(g) \in Seq(TiesOf(g)) /\ ToSet(Ties(g)) = UNION {ToSet(s(i)) : i \in DOMAIN g.tasks}
  BY <1>1, <1>3, <1>4, Flattened
<1>6. UNION {ToSet(s(i)) : i \in DOMAIN g.tasks} = TiesOf(g)
  <2> DEFINE Of(t) == {<<t.name, o>> : o \in ToSet(t.volumesFrom \o t.after)}
  <2>1. TiesOf(g) = UNION {Of(t) : t \in ToSet(g.tasks)}
    BY DEF TiesOf
  <2>2. \A i \in DOMAIN g.tasks : ToSet(s(i)) = Of(g.tasks[i])
    BY <1>3
  <2> HIDE DEF Of
  <2>3. UNION {Of(t) : t \in ToSet(g.tasks)} = UNION {Of(g.tasks[i]) : i \in DOMAIN g.tasks}
    BY DEF ToSet
  <2> QED BY <2>1, <2>2, <2>3
<1> QED BY <1>5, <1>6

\* Without duplicates an element is found by its name.
LEMMA OneOfAName ==
  ASSUME NEW s, IsList(s), ~Duplicate(s), NEW i \in DOMAIN s
  PROVE  Index(s, s[i].name) = i /\ Get(s, s[i].name) = s[i]
<1>1. Index(s, s[i].name) \in DOMAIN s /\ s[Index(s, s[i].name)].name = s[i].name
  BY ListFacts, IndexFinds
<1> QED BY <1>1 DEF Duplicate, Get

\* A name of the list is found.
LEMMA Named ==
  ASSUME NEW s, IsList(s), NEW n \in Names(s)
  PROVE  Index(s, n) \in DOMAIN s /\ Get(s, n) \in ToSet(s) /\ Get(s, n).name = n
<1>1. PICK i \in DOMAIN s : s[i].name = n
  BY DEF Names, ToSet
<1>2. Index(s, n) \in DOMAIN s /\ s[Index(s, n)].name = n
  BY <1>1, ListFacts, IndexFinds
<1> QED BY <1>2 DEF Get, ToSet

\* In a valid group a tie is between two of its tasks.
LEMMA TiesAreOfTasks ==
  ASSUME NEW g, AreTasks(g.tasks), GroupIsValid(g), NEW tie \in TiesOf(g)
  PROVE  tie[1] \in Names(g.tasks) /\ tie[2] \in Names(g.tasks)
<1>1. PICK t \in ToSet(g.tasks) : \E o \in ToSet(t.volumesFrom \o t.after) : tie = <<t.name, o>>
  BY DEF TiesOf
<1> PICK o \in ToSet(t.volumesFrom \o t.after) : tie = <<t.name, o>>
  BY <1>1
<1>2. IsTask(t) /\ IsList(t.after) /\ IsList(t.volumesFrom) /\ IsList(g.tasks)
  BY DEF AreTasks, IsTask, ListFields
<1>3. o \in ToSet(t.after \o t.volumesFrom)
  BY <1>2, ListsJoin
<1>4. Index(g.tasks, o) # 0
  BY <1>3 DEF GroupIsValid, TaskIsValid, Known
<1>5. Index(g.tasks, o) \in DOMAIN g.tasks /\ g.tasks[Index(g.tasks, o)].name = o
  BY <1>2, <1>4, IndexFinds, ListFacts
<1> QED BY <1>5 DEF Names, ToSet

\* The members of two pods, which have no task in common, joined.
LEMMA HoldsJoin ==
  ASSUME NEW g, NEW M, NEW N, NEW s, NEW t, Holds(s, g, M), Holds(t, g, N), M \cap N = {}
  PROVE  Holds(s \o t, g, M \cup N)
<1>1. /\ s \in Seq(ToSet(g.tasks)) /\ t \in Seq(ToSet(g.tasks))
      /\ Len(s) \in Nat /\ Len(t) \in Nat
      /\ DOMAIN s = 1..Len(s) /\ DOMAIN t = 1..Len(t) /\ DOMAIN (s \o t) = 1..(Len(s) + Len(t))
      /\ \A i \in 1..(Len(s) + Len(t)) : (s \o t)[i] = IF i <= Len(s) THEN s[i] ELSE t[i - Len(s)]
  BY DEF Holds
<1>2. \A i \in DOMAIN s : s[i].name \in M
  BY DEF Holds, Names, ToSet
<1>3. \A i \in DOMAIN t : t[i].name \in N
  BY DEF Holds, Names, ToSet
<1>4. ToSet(s \o t) = ToSet(s) \cup ToSet(t)
  BY <1>1, ToSetOfConcat
<1>5. Names(s \o t) = M \cup N
  BY <1>4 DEF Holds, Names
<1>6. ASSUME NEW i \in DOMAIN (s \o t), NEW k \in DOMAIN (s \o t),
             (s \o t)[i].name = (s \o t)[k].name
      PROVE  i = k
  <2>1. CASE i <= Len(s) /\ k <= Len(s)
    BY <2>1, <1>1, <1>6 DEF Holds, Duplicate
  <2>2. CASE ~(i <= Len(s)) /\ ~(k <= Len(s))
    <3>1. i - Len(s) \in DOMAIN t /\ k - Len(s) \in DOMAIN t
      BY <2>2, <1>1
    <3>2. t[i - Len(s)].name = t[k - Len(s)].name
      BY <2>2, <1>1, <1>6
    <3>3. i - Len(s) = k - Len(s)
      BY <3>1, <3>2 DEF Holds, Duplicate
    <3> QED BY <3>3, <1>1
  <2>3. CASE (i <= Len(s)) # (k <= Len(s))
    <3>1. \A j \in DOMAIN (s \o t) : ~(j <= Len(s)) => j - Len(s) \in DOMAIN t
      BY <1>1
    <3>2. \A j \in DOMAIN (s \o t) : j <= Len(s) => j \in DOMAIN s
      BY <1>1
    <3>3. \A j \in DOMAIN (s \o t) : (s \o t)[j].name \in IF j <= Len(s) THEN M ELSE N
      BY <1>1, <1>2, <1>3, <3>1, <3>2
    <3> QED BY <2>3, <3>3, <1>6
  <2> QED BY <2>1, <2>2, <2>3
<1>7. ~Duplicate(s \o t)
  BY <1>6 DEF Duplicate
<1>8. s \o t \in Seq(ToSet(g.tasks))
  BY <1>1
<1> QED BY <1>5, <1>7, <1>8 DEF Holds

\* One pod for each task is a division of the tasks, with all ties still to come.
LEMMA OwnPodsArePods ==
  ASSUME NEW g, AreTasks(g.tasks), GroupIsValid(g)
  PROVE  /\ Parts(g, OnePodEach(g)) /\ Finest(g, OnePodEach(g))
         /\ Tied(g, OnePodEach(g), Ties(g))
<1> DEFINE ps == OnePodEach(g)
<1>0. IsList(g.tasks) /\ ~Duplicate(g.tasks)
  BY DEF AreTasks, GroupIsValid
<1>1. /\ DOMAIN ps = {"of", "members"}
      /\ ps.of = [n \in Names(g.tasks) |-> Index(g.tasks, n)]
      /\ ps.members = [i \in DOMAIN g.tasks |-> <<g.tasks[i]>>]
  BY DEF OnePodEach
<1> HIDE DEF ps
<1>2. \A n \in Names(g.tasks) : /\ ps.of[n] = Index(g.tasks, n) /\ ps.of[n] \in DOMAIN g.tasks
                                /\ g.tasks[ps.of[n]] \in ToSet(g.tasks) /\ g.tasks[ps.of[n]].name = n
  BY <1>0, <1>1, Named DEF Get
<1>3. \A n \in Names(g.tasks) : TasksOf(ps, ps.of[n]) = {n}
  BY <1>1, <1>2 DEF TasksOf
<1>4. ASSUME NEW n \in Names(g.tasks) PROVE Holds(ps.members[ps.of[n]], g, {n})
  <2> DEFINE t == g.tasks[ps.of[n]]
  <2>1. ps.members[ps.of[n]] = <<t>> /\ t \in ToSet(g.tasks) /\ t.name = n
    BY <1>1, <1>2
  <2> HIDE DEF t
  <2>2. Names(<<t>>) = {n} /\ ~Duplicate(<<t>>) /\ <<t>> \in Seq(ToSet(g.tasks))
    BY <2>1 DEF Names, Duplicate, ToSet
  <2> QED BY <2>1, <2>2 DEF Holds
<1>5. Parts(g, ps)
  BY <1>1, <1>2, <1>3, <1>4 DEF Parts
<1>6. Finest(g, ps)
  BY <1>2 DEF Finest
<1>7. Tied(g, ps, Ties(g))
  BY TiesAreAll DEF Tied
<1> QED BY <1>5, <1>6, <1>7 DEF ps

\* JoinPods keeps the division, brings the two tasks together, separates none, and brings only
\* together what ties connect.
LEMMA PodsJoin ==
  ASSUME NEW g, AreTasks(g.tasks), GroupIsValid(g), NEW ps, Parts(g, ps),
         NEW tie \in TiesOf(g)
  PROVE  LET qs == JoinPods(ps, tie[1], tie[2])
         IN  /\ Parts(g, qs) /\ qs.of[tie[1]] = qs.of[tie[2]]
             /\ \A m, n \in Names(g.tasks) : ps.of[m] = ps.of[n] => qs.of[m] = qs.of[n]
             /\ Finest(g, ps) => Finest(g, qs)
<1> DEFINE qs == JoinPods(ps, tie[1], tie[2])
           p1 == ps.of[tie[1]]
           p2 == ps.of[tie[2]]
<1>1. tie[1] \in Names(g.tasks) /\ tie[2] \in Names(g.tasks)
  BY TiesAreOfTasks
<1>2. CASE p1 = p2
  BY <1>2 DEF JoinPods
<1>3. CASE p1 # p2
  <2>1. /\ p1 \in DOMAIN g.tasks /\ p2 \in DOMAIN g.tasks
        /\ Holds(ps.members[p1], g, TasksOf(ps, p1)) /\ Holds(ps.members[p2], g, TasksOf(ps, p2))
    BY <1>1 DEF Parts
  <2>2. Names(ps.members[p2]) = TasksOf(ps, p2)
    BY <2>1 DEF Holds
  <2>3. /\ DOMAIN qs = {"of", "members"}
        /\ qs.of = [n \in DOMAIN ps.of |-> IF n \in TasksOf(ps, p2) THEN p1 ELSE ps.of[n]]
        /\ qs.members = [ps.members EXCEPT ![p1] = @ \o ps.members[p2]]
    BY <1>3, <2>2 DEF JoinPods
  <2> HIDE DEF qs
  <2>4. \A n \in DOMAIN ps.of : qs.of[n] = IF ps.of[n] = p2 THEN p1 ELSE ps.of[n]
    BY <2>3 DEF TasksOf
  <2>5. TasksOf(qs, p1) = TasksOf(ps, p1) \cup TasksOf(ps, p2)
    BY <2>3, <2>4 DEF TasksOf
  <2>6. \A p : p # p1 /\ p # p2 => TasksOf(qs, p) = TasksOf(ps, p)
    BY <2>3, <2>4 DEF TasksOf
  <2>7. TasksOf(ps, p1) \cap TasksOf(ps, p2) = {}
    BY <1>3 DEF TasksOf
  <2>8. Holds(ps.members[p1] \o ps.members[p2], g, TasksOf(qs, p1))
    BY <2>1, <2>5, <2>7, HoldsJoin
  <2> HIDE DEF p1, p2
  <2>9. DOMAIN qs.of = Names(g.tasks) /\ DOMAIN qs.members = DOMAIN g.tasks
    BY <2>3 DEF Parts
  <2>10. ASSUME NEW n \in DOMAIN qs.of
         PROVE  qs.of[n] \in DOMAIN g.tasks /\ Holds(qs.members[qs.of[n]], g, TasksOf(qs, qs.of[n]))
    <3>1. n \in DOMAIN ps.of /\ ps.of[n] \in DOMAIN g.tasks
          /\ Holds(ps.members[ps.of[n]], g, TasksOf(ps, ps.of[n]))
      BY <2>9 DEF Parts
    <3>2. CASE qs.of[n] = p1
      <4>1. qs.members[p1] = ps.members[p1] \o ps.members[p2]
        BY <2>1, <2>3 DEF Parts
      <4> QED BY <3>2, <4>1, <2>1, <2>8
    <3>3. CASE qs.of[n] # p1
      <4>1. qs.of[n] = ps.of[n] /\ qs.of[n] # p2
        BY <3>1, <3>3, <2>4
      <4>2. qs.members[qs.of[n]] = ps.members[qs.of[n]]
        BY <3>3, <2>3
      <4> QED BY <3>1, <3>3, <4>1, <4>2, <2>6
    <3> QED BY <3>2, <3>3
  <2>11. Parts(g, qs)
    BY <2>3, <2>9, <2>10 DEF Parts
  <2>12. qs.of[tie[1]] = qs.of[tie[2]]
    BY <1>1, <2>4, <2>9 DEF p1, p2, Parts
  <2>13. \A m, n \in Names(g.tasks) : ps.of[m] = ps.of[n] => qs.of[m] = qs.of[n]
    BY <2>4 DEF Parts
  <2>14. ASSUME Finest(g, ps) PROVE Finest(g, qs)
    <3> SUFFICES ASSUME NEW S \in SUBSET Names(g.tasks),
                        \A t \in TiesOf(g) : t[1] \in S <=> t[2] \in S,
                        NEW m \in Names(g.tasks), NEW n \in Names(g.tasks), qs.of[m] = qs.of[n]
                 PROVE  m \in S <=> n \in S
      BY DEF Finest
    <3>1. \A x, y \in Names(g.tasks) : ps.of[x] = ps.of[y] => (x \in S <=> y \in S)
      BY <2>14 DEF Finest
    <3>2. tie[1] \in S <=> tie[2] \in S
      OBVIOUS
    <3>3. ps.of[m] = ps.of[n] \/ (ps.of[m] \in {p1, p2} /\ ps.of[n] \in {p1, p2})
      BY <2>4 DEF Parts
    <3>4. \A x \in Names(g.tasks) : ps.of[x] \in {p1, p2} => (x \in S <=> tie[1] \in S)
      BY <1>1, <3>1, <3>2 DEF p1, p2
    <3> QED BY <3>1, <3>3, <3>4
  <2> QED BY <2>11, <2>12, <2>13, <2>14 DEF qs
<1> QED BY <1>2, <1>3

\* The tasks of a pod are tasks, each once.
LEMMA HeldAreTasks ==
  ASSUME NEW g, AreTasks(g.tasks), NEW names, NEW s, Holds(s, g, names)
  PROVE  /\ IsList(s) /\ Len(s) \in Nat /\ DOMAIN s = 1..Len(s)
         /\ \A i \in DOMAIN s : IsTask(s[i]) /\ IsList(s[i].after)
         /\ ~Duplicate(s)
<1>1. s \in Seq(ToSet(g.tasks)) /\ ~Duplicate(s)
  BY DEF Holds
<1>2. s \in Seq(ToSet(s))
  BY <1>1 DEF ToSet
<1>3. \A i \in DOMAIN s : s[i] \in ToSet(g.tasks)
  BY <1>1
<1> QED BY <1>1, <1>2, <1>3 DEF IsList, AreTasks, IsTask, ListFields

\* The task to change places with comes later; without one the task is where it is to be.
LEMMA SwapWithLater ==
  ASSUME NEW g, AreTasks(g.tasks), NEW names, NEW s, Holds(s, g, names), NEW i \in DOMAIN s
  PROVE  /\ SwapWith(s, i) # 0 => SwapWith(s, i) \in DOMAIN s /\ i < SwapWith(s, i)
         /\ SwapWith(s, i) = 0 /\ KeptUpTo(s, i - 1) => KeptUpTo(s, i)
<1>0. /\ IsList(s) /\ Len(s) \in Nat /\ DOMAIN s = 1..Len(s) /\ ~Duplicate(s)
      /\ IsList(s[i].after) /\ i \in Nat
  BY HeldAreTasks
<1> DEFINE a == s[i].after
<1>1. Len(a) \in Nat /\ DOMAIN a = 1..Len(a)
  BY <1>0, ListFacts
<1> HIDE DEF a
<1>2. PICK I : I = {k \in 1..Len(a) : Index(s, a[k]) > i}
  OBVIOUS
<1>3. SwapWith(s, i) = IF (IF I # {} THEN Min(I) ELSE 0) = 0 THEN 0
                       ELSE Index(s, a[IF I # {} THEN Min(I) ELSE 0])
  BY <1>2 DEF SwapWith, SelectInSeq, a
<1>4. I \in SUBSET Nat /\ 0 \notin I
  BY <1>1, <1>2
<1>5. I # {} => Min(I) \in I
  BY <1>4, MinOf
<1>6. CASE I # {}
  <2>1. SwapWith(s, i) = Index(s, a[Min(I)]) /\ Index(s, a[Min(I)]) > i
    BY <1>2, <1>3, <1>4, <1>5, <1>6
  <2>2. Index(s, a[Min(I)]) \in 0..Len(s)
    BY <1>0, IndexFinds
  <2> QED BY <2>1, <2>2, <1>0
<1>7. CASE I = {}
  <2>1. SwapWith(s, i) = 0
    BY <1>3, <1>7
  <2>2. ASSUME NEW k \in DOMAIN s, i < k PROVE s[k].name \notin ToSet(a)
    <3> SUFFICES ASSUME s[k].name \in ToSet(a) PROVE FALSE
      OBVIOUS
    <3>1. PICK m \in DOMAIN a : a[m] = s[k].name
      BY DEF ToSet
    <3>2. Index(s, a[m]) = k
      BY <3>1, <1>0, OneOfAName
    <3> QED BY <3>2, <2>2, <1>1, <1>2, <1>7, <1>0
  <2>3. ASSUME KeptUpTo(s, i - 1), NEW j \in DOMAIN s, NEW k \in DOMAIN s, j <= i, j < k
        PROVE  s[k].name \notin ToSet(s[j].after)
    <3>1. j = i \/ j <= i - 1
      BY <2>3, <1>0
    <3> QED BY <3>1, <2>2, <2>3 DEF KeptUpTo, a
  <2> QED BY <2>1, <2>3 DEF KeptUpTo
<1> QED BY <1>6, <1>7

\* A swap keeps the tasks of the pod and the order up to the place of the task.
LEMMA SwapKeeps ==
  ASSUME NEW g, NEW names, NEW s, Holds(s, g, names),
         NEW i \in DOMAIN s, NEW o \in DOMAIN s, i < o, KeptUpTo(s, i - 1)
  PROVE  LET t == [s EXCEPT ![i] = s[o], ![o] = s[i]]
         IN  Len(t) = Len(s) /\ Holds(t, g, names) /\ KeptUpTo(t, i - 1)
<1> DEFINE t == [s EXCEPT ![i] = s[o], ![o] = s[i]]
           back(k) == IF k = i THEN o ELSE IF k = o THEN i ELSE k
<1>1. s \in Seq(ToSet(g.tasks)) /\ Len(s) \in Nat /\ DOMAIN s = 1..Len(s) /\ ~Duplicate(s)
      /\ Names(s) = names
  BY DEF Holds
<1>2. /\ t \in Seq(ToSet(g.tasks)) /\ Len(t) = Len(s) /\ DOMAIN t = DOMAIN s
      /\ \A k \in DOMAIN s : t[k] = s[back(k)] /\ back(k) \in DOMAIN s
      /\ \A k \in DOMAIN s : s[k] = t[back(k)]
  BY <1>1
<1> HIDE DEF t
<1>3. \A j, k \in DOMAIN s : back(j) = back(k) => j = k
  OBVIOUS
<1>4. ~Duplicate(t)
  BY <1>1, <1>2, <1>3 DEF Duplicate
<1>5. ToSet(t) = ToSet(s)
  BY <1>2 DEF ToSet
<1>6. Names(t) = names
  BY <1>1, <1>5 DEF Names
<1>7. ASSUME NEW j \in DOMAIN s, NEW k \in DOMAIN s, j <= i - 1, j < k
      PROVE  t[k].name \notin ToSet(t[j].after)
  <2>1. back(j) = j /\ j < back(k)
    BY <1>1, <1>7
  <2>2. t[j] = s[j] /\ t[k] = s[back(k)] /\ back(k) \in DOMAIN s
    BY <1>2, <2>1
  <2> QED BY <1>7, <2>1, <2>2 DEF KeptUpTo
<1>8. KeptUpTo(t, i - 1)
  BY <1>2, <1>7 DEF KeptUpTo
<1> QED BY <1>2, <1>4, <1>6, <1>8 DEF Holds, t

\* The steps that leave the pods alone are outside of the stages of pods, but for Ended.
LEMMA PodsOKElsewhere ==
  ASSUME PodsOK, UNCHANGED podVars, stage' \notin {"ties", "pods"}, sorting = NoPod, ties = <<>>
  PROVE  PodsOK'
BY DEF PodsOK, podVars, NoPod

\* PodsOK is kept by a step that changes nothing of it.
LEMMA PodsOKSameGroup ==
  ASSUME PodsOK, UNCHANGED <<stage, todo, job>>, UNCHANGED podVars
  PROVE  PodsOK'
BY DEF PodsOK, podVars, NoPod, Group

\* OnePod keeps PodsOK.
LEMMA PodsOKOnePod ==
  ASSUME JobOK, PodsOK, OnePod
  PROVE  PodsOK'
<1>1. /\ stage' = "pods" /\ Group' = Group /\ Group.restart = "all"
      /\ pods'.of = [n \in Names(Group.tasks) |-> 1] /\ sorted' = <<Group.tasks>>
      /\ ties' = <<>> /\ sorting' = NoPod
  BY DEF OnePod, parseVars, Group, PodsOK, NoPod
<1>2. \A p \in DOMAIN sorted' : Names(sorted'[p]) \subseteq DOMAIN pods'.of
  BY <1>1
<1> QED BY <1>1, <1>2 DEF PodsOK, NoPod

\* OwnPods keeps PodsOK.
LEMMA PodsOKOwnPods ==
  ASSUME JobOK, PodsOK, OwnPods
  PROVE  PodsOK'
<1>1. /\ stage' = "ties" /\ Group' = Group /\ Group.restart # "all"
      /\ pods' = OnePodEach(Group) /\ ties' = Ties(Group) /\ sorted' = <<>> /\ sorting' = NoPod
  BY DEF OwnPods, parseVars, Group, PodsOK, NoPod
<1>2. AreTasks(Group.tasks) /\ GroupIsValid(Group)
  BY GroupOK DEF OwnPods, Rendering, IsGroup
<1>3. Parts(Group, pods') /\ Finest(Group, pods') /\ Tied(Group, pods', ties')
      /\ ties' \in Seq(TiesOf(Group))
  BY <1>1, <1>2, OwnPodsArePods, TiesAreAll
<1>4. SortedOK(Group, pods', sorted') /\ SortingOK(Group, pods', sorted', sorting')
  BY <1>1 DEF SortedOK, SortingOK, NoPod
<1> QED BY <1>1, <1>3, <1>4 DEF PodsOK, NoPod

\* TiePods keeps PodsOK: the tie is done with, and its tasks are in one pod.
LEMMA PodsOKTiePods ==
  ASSUME JobOK, PodsOK, TiePods
  PROVE  PodsOK'
<1>1. /\ stage = "ties" /\ stage' = "ties" /\ Group' = Group /\ Group.restart # "all"
      /\ ties # <<>> /\ ties' = Tail(ties) /\ pods' = JoinPods(pods, ties[1][1], ties[1][2])
      /\ sorted = <<>> /\ sorted' = <<>> /\ sorting' = NoPod
  BY DEF TiePods, parseVars, Group, PodsOK, NoPod
<1>2. AreTasks(Group.tasks) /\ GroupIsValid(Group)
  BY <1>1, GroupOK DEF JobOK, Rendering, IsGroup
<1>3. /\ Parts(Group, pods) /\ Finest(Group, pods) /\ ties \in Seq(TiesOf(Group))
      /\ Tied(Group, pods, ties)
  BY <1>1 DEF PodsOK
<1>4. ties[1] \in TiesOf(Group) /\ Tail(ties) \in Seq(TiesOf(Group))
  BY <1>1, <1>3
<1>5. /\ Parts(Group, pods') /\ pods'.of[ties[1][1]] = pods'.of[ties[1][2]]
      /\ \A m, n \in Names(Group.tasks) : pods.of[m] = pods.of[n] => pods'.of[m] = pods'.of[n]
      /\ Finest(Group, pods')
  BY <1>1, <1>2, <1>3, <1>4, PodsJoin
<1>6. \A tie \in ToSet(ties) : tie = ties[1] \/ tie \in ToSet(Tail(ties))
  <2> SUFFICES ASSUME NEW i \in DOMAIN ties, i # 1 PROVE ties[i] \in ToSet(Tail(ties))
    BY DEF ToSet
  <2>1. i - 1 \in DOMAIN Tail(ties) /\ Tail(ties)[i - 1] = ties[i]
    BY <1>1, <1>3
  <2> QED BY <2>1 DEF ToSet
<1>7. Tied(Group, pods', ties')
  <2> SUFFICES ASSUME NEW tie \in TiesOf(Group), tie \notin ToSet(Tail(ties))
               PROVE  pods'.of[tie[1]] = pods'.of[tie[2]]
    BY <1>1 DEF Tied
  <2>1. tie[1] \in Names(Group.tasks) /\ tie[2] \in Names(Group.tasks)
    BY <1>2, TiesAreOfTasks
  <2> QED BY <2>1, <1>3, <1>5, <1>6 DEF Tied
<1>8. SortedOK(Group, pods', sorted') /\ SortingOK(Group, pods', sorted', sorting')
  BY <1>1 DEF SortedOK, SortingOK, NoPod
<1> QED BY <1>1, <1>4, <1>5, <1>7, <1>8 DEF PodsOK, NoPod

\* EndTies keeps PodsOK.
LEMMA PodsOKEndTies ==
  ASSUME JobOK, PodsOK, EndTies
  PROVE  PodsOK'
<1>1. /\ stage = "ties" /\ stage' = "pods" /\ Group' = Group /\ ties = <<>> /\ UNCHANGED podVars
  BY DEF EndTies, parseVars, Group
<1> QED BY <1>1 DEF PodsOK, podVars, NoPod, SortingOK

\* PickPod keeps PodsOK, however the tasks are sorted by name.
LEMMA PodsOKPickPod ==
  ASSUME JobOK, PodsOK, NEW p \in Pods, PickPod(p)
  PROVE  PodsOK'
<1>1. /\ stage = "pods" /\ stage' = "pods" /\ Group' = Group /\ pods' = pods /\ ties' = ties
      /\ sorted' = sorted /\ p \in Pods /\ p \notin DOMAIN sorted
  BY DEF PickPod, parseVars, Group, Sorted
<1>2. PICK tasks \in Sortings(pods.members[p], ByName) : sorting' = [pod |-> p, tasks |-> tasks, i |-> 1]
  BY DEF PickPod
<1>3. Group.restart # "all"
  <2> SUFFICES ASSUME Group.restart = "all" PROVE FALSE
    OBVIOUS
  <2>1. pods.of = [n \in Names(Group.tasks) |-> 1] /\ sorted = <<Group.tasks>>
    BY <1>1 DEF PodsOK
  <2>2. p = 1
    BY <1>1, <2>1 DEF Pods
  <2>3. 1 \in DOMAIN sorted
    BY <2>1
  <2> QED BY <1>1, <2>2, <2>3
<1>4. AreTasks(Group.tasks)
  BY <1>1, GroupOK DEF JobOK, Rendering, IsGroup
<1>5. Parts(Group, pods)
  BY <1>1, <1>3 DEF PodsOK
<1>6. /\ p \in DOMAIN Group.tasks /\ TasksOf(pods, p) # {}
      /\ Holds(pods.members[p], Group, TasksOf(pods, p))
  BY <1>1, <1>5 DEF Parts, Pods, TasksOf
<1>7. /\ IsList(tasks) /\ Len(tasks) = Len(pods.members[p]) /\ ToSet(tasks) = ToSet(pods.members[p])
      /\ ~Duplicate(tasks) /\ Len(tasks) \in Nat /\ pods.members[p] \in Seq(ToSet(Group.tasks))
  BY <1>4, <1>6, SortedIsAll, HeldAreTasks DEF Holds
<1>8. tasks \in Seq(ToSet(Group.tasks))
  BY <1>7 DEF IsList, ToSet
<1>9. Holds(tasks, Group, TasksOf(pods, p))
  BY <1>6, <1>7, <1>8 DEF Holds, Names
<1>10. KeptUpTo(tasks, 0)
  BY <1>7 DEF KeptUpTo, IsList
<1>11. SortingOK(Group, pods, sorted, sorting')
  BY <1>1, <1>2, <1>6, <1>7, <1>9, <1>10 DEF SortingOK
<1> QED BY <1>1, <1>3, <1>11 DEF PodsOK

\* A round of sortTasks keeps PodsOK: nothing before the task at hand is out of order.
LEMMA PodsOKSortTasks ==
  ASSUME JobOK, PodsOK, SortTasks
  PROVE  PodsOK'
<1> DEFINE tasks == sorting.tasks
           i == sorting.i
           p == sorting.pod
           o == SwapWith(tasks, i)
           swapped == [tasks EXCEPT ![i] = tasks[o], ![o] = tasks[i]]
<1>1. /\ stage = "pods" /\ stage' = "pods" /\ Group' = Group /\ pods' = pods /\ ties' = ties
      /\ sorting # NoPod
  BY DEF SortTasks, parseVars, Group
<1>2. Group.restart # "all"
  BY <1>1 DEF PodsOK
<1>3. AreTasks(Group.tasks)
  BY <1>1, GroupOK DEF JobOK, Rendering, IsGroup
<1>4. /\ SortedOK(Group, pods, sorted) /\ Parts(Group, pods)
      /\ sorting = [pod |-> p, tasks |-> tasks, i |-> i]
      /\ TasksOf(pods, p) # {} /\ p \notin DOMAIN sorted
      /\ Holds(tasks, Group, TasksOf(pods, p))
      /\ i \in 1..Len(tasks) + 1 /\ KeptUpTo(tasks, i - 1)
  BY <1>1, <1>2 DEF PodsOK, SortingOK
<1>5. Len(tasks) \in Nat /\ DOMAIN tasks = 1..Len(tasks)
  BY <1>3, <1>4, HeldAreTasks
<1> HIDE DEF tasks, i, p
<1>6. CASE i > Len(tasks)
  <2>1. sorted' = WithPod(p, tasks) /\ sorting' = NoPod
    BY <1>6 DEF SortTasks, tasks, i, p
  <2>2. KeptUpTo(tasks, Len(tasks))
    BY <1>4, <1>5, <1>6 DEF KeptUpTo
  <2>3. p \in Nat /\ Names(tasks) \subseteq DOMAIN pods.of
    <3>0. PICK n \in DOMAIN pods.of : pods.of[n] = p
      BY <1>4 DEF TasksOf
    <3>1. p \in DOMAIN Group.tasks
      BY <1>4, <3>0 DEF Parts
    <3> QED BY <1>3, <1>4, <3>1, ListFacts DEF AreTasks, Holds, TasksOf
  <2>4. DOMAIN sorted' = DOMAIN sorted \cup {p}
        /\ \A q \in DOMAIN sorted' : sorted'[q] = IF q = p THEN tasks ELSE sorted[q]
    BY <2>1 DEF WithPod
  <2>5. SortedOK(Group, pods, sorted')
    BY <1>4, <2>2, <2>3, <2>4 DEF SortedOK
  <2>6. \A q \in DOMAIN sorted' : Names(sorted'[q]) \subseteq DOMAIN pods.of
    BY <2>3, <2>4 DEF PodsOK
  <2>7. SortingOK(Group, pods, sorted', sorting')
    BY <2>1 DEF SortingOK
  <2> QED BY <1>1, <1>2, <2>5, <2>6, <2>7 DEF PodsOK
<1>7. CASE ~(i > Len(tasks))
  <2>0. i \in DOMAIN tasks
    BY <1>4, <1>5, <1>7
  <2>1. sorted' = sorted
        /\ sorting' = IF o # 0 THEN [sorting EXCEPT !.tasks = swapped] ELSE [sorting EXCEPT !.i = i + 1]
    BY <1>7 DEF SortTasks, tasks, i
  <2>2. SortingOK(Group, pods, sorted, sorting')
    <3>1. CASE o # 0
      <4>1. o \in DOMAIN tasks /\ i < o
        BY <3>1, <1>3, <1>4, <2>0, SwapWithLater
      <4>2. Len(swapped) = Len(tasks) /\ Holds(swapped, Group, TasksOf(pods, p))
            /\ KeptUpTo(swapped, i - 1)
        BY <1>4, <2>0, <4>1, SwapKeeps
      <4> HIDE DEF o, swapped
      <4>3. sorting' = [pod |-> p, tasks |-> swapped, i |-> i]
        BY <1>4, <2>1, <3>1
      <4> QED BY <1>4, <4>2, <4>3 DEF SortingOK
    <3>2. CASE o = 0
      <4>1. KeptUpTo(tasks, i)
        BY <3>2, <1>3, <1>4, <2>0, SwapWithLater
      <4>2. sorting' = [pod |-> p, tasks |-> tasks, i |-> i + 1]
        BY <1>4, <2>1, <3>2
      <4>3. i + 1 \in 1..Len(tasks) + 1 /\ (i + 1) - 1 = i
        BY <2>0, <1>5
      <4> QED BY <1>4, <4>1, <4>2, <4>3 DEF SortingOK
    <3> QED BY <3>1, <3>2
  <2> QED BY <1>1, <1>2, <2>1, <2>2 DEF PodsOK
<1> QED BY <1>6, <1>7

\* PodsOK is inductive, relative to JobOK.
LEMMA PodsOKStep ==
  ASSUME JobOK, PodsOK, [Next]_pipelineVars
  PROVE  PodsOK'
<1>0. stage \notin {"ties", "pods"} => sorting = NoPod /\ ties = <<>>
  BY DEF PodsOK
<1>1. CASE Parse
  BY <1>0, <1>1, PodsOKElsewhere DEF Parse, End
<1>2. CASE \E k \in pending : ReplaceVariable(k)
  BY <1>0, <1>2, PodsOKElsewhere DEF ReplaceVariable, End
<1>3. CASE EndReplaceTask
  BY <1>0, <1>3, PodsOKElsewhere DEF EndReplaceTask, End
<1>4. CASE Validate
  BY <1>0, <1>4, PodsOKElsewhere DEF Validate
<1>5. CASE SkipGroup
  BY <1>0, <1>5, PodsOKElsewhere DEF SkipGroup
<1>6. CASE RenderUnits
  BY <1>0, <1>6, PodsOKElsewhere DEF RenderUnits, End
<1>7. CASE Done
  BY <1>0, <1>7, PodsOKElsewhere DEF Done, End
<1>8. CASE OnePod
  BY <1>8, PodsOKOnePod
<1>9. CASE OwnPods
  BY <1>9, PodsOKOwnPods
<1>10. CASE TiePods
  BY <1>10, PodsOKTiePods
<1>11. CASE EndTies
  BY <1>11, PodsOKEndTies
<1>12. CASE SortTasks
  BY <1>12, PodsOKSortTasks
<1>13. CASE RenderPods
  <2>1. ties = <<>> /\ sorting = NoPod
    BY <1>13 DEF PodsOK, RenderPods
  <2> QED BY <1>13, <2>1, PodsOKElsewhere DEF RenderPods, End
<1>14. CASE \E p \in Pods : PickPod(p)
  BY <1>14, PodsOKPickPod
<1>15. CASE Ended \/ UNCHANGED pipelineVars
  BY <1>15, PodsOKSameGroup DEF Ended, pipelineVars, parseVars
<1> QED
  BY <1>1, <1>2, <1>3, <1>4, <1>5, <1>6, <1>7, <1>8, <1>9, <1>10, <1>11, <1>12, <1>13, <1>14,
     <1>15 DEF Next, Steps

\* PodsOK at the start: there are no pods.
LEMMA PodsOKInit == Init => PodsOK
BY DEF Init, PodsOK, NoPod

\* The job keeps its shape and its validity, and the pods at hand are made of the ties of their
\* group, whatever the job file.
THEOREM JobAndPodsKept == Spec => [](JobOK /\ PodsOK)
<1>1. Init => JobOK /\ PodsOK
  BY JobOKInit, PodsOKInit
<1>2. JobOK /\ PodsOK /\ [Next]_pipelineVars => (JobOK /\ PodsOK)'
  BY JobOKStep, PodsOKStep
<1> QED BY <1>1, <1>2, PTL DEF Spec

\* The invariant says of the pods what PodsAreTies says of them.
LEMMA PodsOKIsTies ==
  ASSUME JobOK, PodsOK
  PROVE  PodsAreTies
<1> SUFFICES ASSUME stage = "pods", Group.restart # "all"
             PROVE  LET tasks == Names(Group.tasks)
                        Near(n) == {m \in tasks : \/ m \in ToSet(Others(Get(Group.tasks, n)))
                                                  \/ n \in ToSet(Others(Get(Group.tasks, m)))}
                        Pod(n) == {m \in tasks : pods.of[m] = pods.of[n]}
                    IN  /\ \A n \in tasks : Near(n) \subseteq Pod(n)
                        /\ \A S \in SUBSET tasks :
                             (\A n \in S : Near(n) \subseteq S) => \A n \in S : Pod(n) \subseteq S
                        /\ \A p \in DOMAIN sorted :
                             /\ Names(sorted[p]) = {n \in tasks : pods.of[n] = p}
                             /\ ~Duplicate(sorted[p])
  BY DEF PodsAreTies
<1> DEFINE g == Group
           tasks == Names(g.tasks)
           Near(n) == {m \in tasks : \/ m \in ToSet(Others(Get(g.tasks, n)))
                                     \/ n \in ToSet(Others(Get(g.tasks, m)))}
           Pod(n) == {m \in tasks : pods.of[m] = pods.of[n]}
<1>1. AreTasks(g.tasks) /\ GroupIsValid(g) /\ IsList(g.tasks) /\ ~Duplicate(g.tasks)
  BY GroupOK DEF JobOK, Rendering, IsGroup, AreTasks, GroupIsValid
<1>2. /\ Parts(g, pods) /\ Finest(g, pods) /\ SortedOK(g, pods, sorted) /\ Tied(g, pods, <<>>)
  BY DEF PodsOK
<1> HIDE DEF g
<1>3. \A n \in tasks : \A m : m \in ToSet(Others(Get(g.tasks, n))) <=> <<n, m>> \in TiesOf(g)
  <2> SUFFICES ASSUME NEW n \in tasks, NEW m
               PROVE  m \in ToSet(Others(Get(g.tasks, n))) <=> <<n, m>> \in TiesOf(g)
    OBVIOUS
  <2> DEFINE t == Get(g.tasks, n)
  <2>1. t \in ToSet(g.tasks) /\ t.name = n /\ IsList(t.after) /\ IsList(t.volumesFrom)
    BY <1>1, Named DEF AreTasks, IsTask, ListFields
  <2>2. \A u \in ToSet(g.tasks) : u.name = n => u = t
    BY <1>1, OneOfAName DEF ToSet
  <2> HIDE DEF t
  <2>3. ToSet(t.volumesFrom \o t.after) = ToSet(t.after \o t.volumesFrom)
    BY <2>1, ListsJoin
  <2>4. <<n, m>> \in TiesOf(g) <=> m \in ToSet(t.volumesFrom \o t.after)
    BY <2>1, <2>2 DEF TiesOf
  <2> QED BY <2>3, <2>4 DEF Others, t
<1>4. \A tie \in TiesOf(g) : /\ tie = <<tie[1], tie[2]>> /\ tie[1] \in tasks /\ tie[2] \in tasks
                             /\ pods.of[tie[1]] = pods.of[tie[2]]
  <2> TAKE tie \in TiesOf(g)
  <2>1. tie = <<tie[1], tie[2]>>
    BY DEF TiesOf
  <2>2. tie \notin ToSet(<<>>)
    BY DEF ToSet
  <2> QED BY <1>1, <1>2, <2>1, <2>2, TiesAreOfTasks DEF Tied
<1>5. \A m, n \in tasks : m \in Near(n) <=> <<n, m>> \in TiesOf(g) \/ <<m, n>> \in TiesOf(g)
  BY <1>3
<1> HIDE DEF Near
<1>6. ASSUME NEW n \in tasks PROVE Near(n) \subseteq Pod(n)
  <2> SUFFICES ASSUME NEW m \in Near(n) PROVE m \in tasks /\ pods.of[m] = pods.of[n]
    OBVIOUS
  <2>1. m \in tasks
    BY DEF Near
  <2>2. \A x, y : <<x, y>> \in TiesOf(g) => pods.of[x] = pods.of[y]
    <3> SUFFICES ASSUME NEW x, NEW y, <<x, y>> \in TiesOf(g) PROVE pods.of[x] = pods.of[y]
      OBVIOUS
    <3> DEFINE tie == <<x, y>>
    <3>1. tie[1] = x /\ tie[2] = y /\ tie \in TiesOf(g)
      OBVIOUS
    <3> HIDE DEF tie
    <3> QED BY <1>4, <3>1
  <2> QED BY <2>1, <2>2, <1>5
<1>7. ASSUME NEW S \in SUBSET tasks, \A n \in S : Near(n) \subseteq S, NEW n \in S
      PROVE  Pod(n) \subseteq S
  <2>1. \A tie \in TiesOf(g) : tie[1] \in S <=> tie[2] \in S
    <3> SUFFICES ASSUME NEW tie \in TiesOf(g) PROVE tie[1] \in S <=> tie[2] \in S
      OBVIOUS
    <3> DEFINE x == tie[1]
               y == tie[2]
    <3>1. <<x, y>> \in TiesOf(g) /\ x \in tasks /\ y \in tasks
      BY <1>4
    <3> HIDE DEF x, y
    <3>2. y \in Near(x) /\ x \in Near(y)
      BY <3>1, <1>5
    <3> QED BY <3>2, <1>7 DEF x, y
  <2> QED BY <1>2, <2>1 DEF Finest
<1>8. ASSUME NEW p \in DOMAIN sorted
      PROVE  Names(sorted[p]) = {n \in tasks : pods.of[n] = p} /\ ~Duplicate(sorted[p])
  BY <1>2 DEF SortedOK, Holds, TasksOf, Parts
<1> QED BY <1>6, <1>7, <1>8 DEF Near, g

\* Two tasks are in one pod exactly when after and volumes-from connect them.
THEOREM PodsAreTheTies == Spec => []PodsAreTies
BY JobAndPodsKept, PodsOKIsTies, PTL

-----------------------------------------------------------------------------
(* The units that fleet is given for a task: its sidekicks, by the kinds in  *)
(* their names, and then its main unit, in a chain.                          *)

\* A sequence is a list.
LEMMA SeqIsList ==
  ASSUME NEW S, NEW s \in Seq(S)
  PROVE  IsList(s) /\ ToSet(s) \subseteq S /\ Len(s) \in Nat /\ DOMAIN s = 1..Len(s)
         /\ \A i \in DOMAIN s : s[i] \in S
<1>1. Len(s) \in Nat /\ DOMAIN s = 1..Len(s) /\ \A i \in DOMAIN s : s[i] \in S
  OBVIOUS
<1>2. s \in Seq(ToSet(s))
  BY <1>1 DEF ToSet
<1> QED BY <1>1, <1>2 DEF IsList, ToSet

\* FlattenSeq of lists of at most one element.
LEMMA SomeOf ==
  ASSUME NEW ss, IsList(ss), NEW S, \A i \in DOMAIN ss : ss[i] = <<>> \/ \E x \in S : ss[i] = <<x>>
  PROVE  /\ IsList(FlattenSeq(ss)) /\ ToSet(FlattenSeq(ss)) \subseteq S
         /\ ToSet(FlattenSeq(ss)) = UNION {ToSet(ss[i]) : i \in DOMAIN ss}
<1>1. ASSUME NEW i \in DOMAIN ss PROVE ss[i] \in Seq(S)
  <2>1. CASE ss[i] = <<>>
    BY <2>1
  <2>2. CASE \E x \in S : ss[i] = <<x>>
    <3>1. PICK x \in S : ss[i] = <<x>>
      BY <2>2
    <3>2. <<x>> \in Seq(S)
      OBVIOUS
    <3> QED BY <3>1, <3>2
  <2> QED BY <2>1, <2>2
<1>2. FlattenSeq(ss) \in Seq(S) /\ ToSet(FlattenSeq(ss)) = UNION {ToSet(ss[i]) : i \in DOMAIN ss}
  BY <1>1, Flattened
<1> QED BY <1>2, SeqIsList

\* Numbers that are kept stay in order.
LEMMA NumbersIncrease ==
  ASSUME NEW ss, IsList(ss), \A i \in DOMAIN ss : ss[i] \in {<<>>, <<i>>}
  PROVE  \A a, b \in DOMAIN FlattenSeq(ss) : a < b => FlattenSeq(ss)[a] < FlattenSeq(ss)[b]
<1>0. Len(ss) \in Nat /\ DOMAIN ss = 1..Len(ss)
  BY ListFacts
<1>1. CASE ss = <<>>
  BY <1>1 DEF FlattenSeq
<1>2. CASE ss # <<>>
  <2>1. PICK f : Joins(ss, f, Len(ss)) /\ FlattenSeq(ss) = f[Len(ss)]
    BY <1>2, FlattenJoins
  <2> DEFINE Rises(n) == /\ f[n] \in Seq(1..n)
                         /\ \A a, b \in DOMAIN f[n] : a < b => f[n][a] < f[n][b]
  <2>2. PICK T : T = {n \in 1..Len(ss) : ~Rises(n)}
    OBVIOUS
  <2>3. ASSUME T # {} PROVE FALSE
    <3>0. T \in SUBSET Nat
      BY <1>0, <2>2
    <3>1. PICK n \in T : \A k \in T : n <= k
      BY <3>0, <2>3, Least
    <3>2. n \in 1..Len(ss) /\ f[n] = IF n = 1 THEN ss[n] ELSE f[n - 1] \o ss[n]
      BY <1>0, <2>1, <2>2 DEF Joins
    <3>3. CASE n = 1
      <4>1. f[1] \in {<<>>, <<1>>}
        BY <3>2, <3>3, <1>0
      <4>2. <<>> \in Seq(1..1) /\ <<1>> \in Seq(1..1) /\ DOMAIN <<1>> = {1} /\ DOMAIN <<>> = {}
        OBVIOUS
      <4>3. CASE f[1] = <<>>
        BY <4>2, <4>3, <3>3, <2>2
      <4>4. CASE f[1] = <<1>>
        <5>1. f[1] \in Seq(1..1) /\ DOMAIN f[1] = {1}
          BY <4>2, <4>4
        <5>2. \A a, b \in {1} : ~(a < b)
          OBVIOUS
        <5> QED BY <5>1, <5>2, <3>3, <2>2
      <4> QED BY <4>1, <4>3, <4>4, <3>3, <2>2
    <3>4. CASE n # 1
      <4>1. n - 1 \in 1..Len(ss) /\ n - 1 \notin T /\ n \in Nat /\ n - 1 \in Nat
        BY <3>1, <3>2, <3>4, <1>0
      <4>2. Rises(n - 1)
        BY <4>1, <2>2
      <4> DEFINE s == f[n - 1]
      <4>3. s \in Seq(1..(n - 1)) /\ \A a, b \in DOMAIN s : a < b => s[a] < s[b]
        BY <4>2
      <4>4. f[n] = s \o ss[n] /\ ss[n] \in {<<>>, <<n>>}
        BY <3>2, <3>4, <1>0
      <4> HIDE DEF s
      <4>5. Len(s) \in Nat /\ DOMAIN s = 1..Len(s) /\ \A a \in DOMAIN s : s[a] \in 1..(n - 1)
        BY <4>3, SeqIsList
      <4>6. CASE ss[n] = <<>>
        <5>1. f[n] = s
          BY <4>3, <4>4, <4>6
        <5>2. s \in Seq(1..n)
          BY <4>1, <4>3
        <5> QED BY <5>1, <5>2, <4>3, <2>2
      <4>7. CASE ss[n] = <<n>>
        <5>1. /\ f[n] \in Seq(1..n) /\ DOMAIN f[n] = 1..(Len(s) + 1)
              /\ \A a \in DOMAIN f[n] : f[n][a] = IF a <= Len(s) THEN s[a] ELSE n
          BY <4>1, <4>3, <4>4, <4>5, <4>7
        <5>2. ASSUME NEW a \in DOMAIN f[n], NEW b \in DOMAIN f[n], a < b PROVE f[n][a] < f[n][b]
          <6>1. a \in 1..(Len(s) + 1) /\ b \in 1..(Len(s) + 1) /\ a <= Len(s)
            BY <5>1, <5>2, <4>5
          <6>2. f[n][a] = s[a] /\ a \in DOMAIN s /\ s[a] < n
            BY <6>1, <5>1, <4>5, <4>1
          <6>3. CASE b <= Len(s)
            BY <6>1, <6>2, <6>3, <5>1, <5>2, <4>3, <4>5
          <6>4. CASE b > Len(s)
            BY <6>1, <6>2, <6>4, <5>1
          <6> QED BY <6>1, <6>3, <6>4, <4>5
        <5> QED BY <5>1, <5>2, <2>2
      <4> QED BY <4>4, <4>6, <4>7
    <3> QED BY <3>3, <3>4
  <2>4. Len(ss) \in 1..Len(ss)
    BY <1>0, <1>2 DEF IsList
  <2>5. Rises(Len(ss))
    BY <2>2, <2>3, <2>4
  <2> QED BY <2>5, <2>1
<1> QED BY <1>1, <1>2

\* The tcp links of a task are links of it.
LEMMA TcpLinksAreLinks ==
  ASSUME NEW t, IsTask(t)
  PROVE  IsList(TcpLinks(t)) /\ ToSet(TcpLinks(t)) \subseteq ToSet(t.links)
<1> DEFINE ss == [i \in DOMAIN t.links |-> IF t.links[i].type = "tcp" THEN <<t.links[i]>> ELSE <<>>]
<1>1. IsList(ss) /\ DOMAIN ss = DOMAIN t.links
  BY FieldsOfTask, ListOfAll
<1>2. \A i \in DOMAIN ss : ss[i] = <<>> \/ \E x \in ToSet(t.links) : ss[i] = <<x>>
  BY DEF ToSet
<1> HIDE DEF ss
<1> QED BY <1>1, <1>2, SomeOf DEF TcpLinks, ss

\* The numbers of the volumes that are not local rise.
LEMMA VolumeNumbersRise ==
  ASSUME NEW t, IsTask(t)
  PROVE  /\ IsList(VolumeNumbers(t)) /\ ToSet(VolumeNumbers(t)) \subseteq Nat
         /\ \A a, b \in DOMAIN VolumeNumbers(t) : a < b => VolumeNumbers(t)[a] < VolumeNumbers(t)[b]
<1> DEFINE ss == [i \in DOMAIN t.volumes |-> IF t.volumes[i].type # "local" THEN <<i>> ELSE <<>>]
<1>1. IsList(ss) /\ DOMAIN ss = DOMAIN t.volumes /\ DOMAIN t.volumes \subseteq Nat
  BY FieldsOfTask, ListOfAll, ListFacts
<1>2. \A i \in DOMAIN ss : ss[i] \in {<<>>, <<i>>}
  OBVIOUS
<1>3. \A i \in DOMAIN ss : ss[i] = <<>> \/ \E x \in Nat : ss[i] = <<x>>
  BY <1>1
<1> HIDE DEF ss
<1> QED BY <1>1, <1>2, <1>3, SomeOf, NumbersIncrease DEF VolumeNumbers, ss

\* The kinds of the sidekicks of a task: its tcp links and its volumes that are not local.
Kinds(t) ==
  [i \in DOMAIN TcpLinks(t) |-> Numbered("pr", i)]
  \o [k \in DOMAIN VolumeNumbers(t) |-> Numbered("vl", VolumeNumbers(t)[k])]

\* The places of two lists joined.
LEMMA ConcatLists ==
  ASSUME NEW s, IsList(s), NEW t, IsList(t)
  PROVE  /\ IsList(s \o t) /\ Len(s \o t) = Len(s) + Len(t) /\ DOMAIN (s \o t) = 1..(Len(s) + Len(t))
         /\ Len(s) \in Nat /\ Len(t) \in Nat
         /\ \A i \in 1..(Len(s) + Len(t)) :
              /\ (s \o t)[i] = IF i <= Len(s) THEN s[i] ELSE t[i - Len(s)]
              /\ IF i <= Len(s) THEN i \in DOMAIN s ELSE i - Len(s) \in DOMAIN t
<1>1. s \in Seq(ToSet(s) \cup ToSet(t)) /\ t \in Seq(ToSet(s) \cup ToSet(t)) /\ IsList(s \o t)
  BY SeqMonotonic, ListsJoin DEF IsList
<1> QED BY <1>1

\* The kinds of the sidekicks of a task differ from each other, and from those of a main unit
\* and a timer.
LEMMA KindsDiffer ==
  ASSUME NEW t, IsTask(t)
  PROVE  /\ IsList(Kinds(t))
         /\ \A a, b \in DOMAIN Kinds(t) : Kinds(t)[a] = Kinds(t)[b] => a = b
         /\ \A a \in DOMAIN Kinds(t) : Kinds(t)[a] \notin {<<>>, <<"mn">>, <<"ti">>}
<1> DEFINE pr == [i \in DOMAIN TcpLinks(t) |-> Numbered("pr", i)]
           vl == [k \in DOMAIN VolumeNumbers(t) |-> Numbered("vl", VolumeNumbers(t)[k])]
<1>1. /\ IsList(TcpLinks(t)) /\ IsList(VolumeNumbers(t))
      /\ DOMAIN TcpLinks(t) \subseteq Nat /\ DOMAIN VolumeNumbers(t) \subseteq Nat
      /\ \A a \in DOMAIN VolumeNumbers(t) : VolumeNumbers(t)[a] \in Nat
      /\ \A a, b \in DOMAIN VolumeNumbers(t) : a < b => VolumeNumbers(t)[a] < VolumeNumbers(t)[b]
  BY TcpLinksAreLinks, VolumeNumbersRise, ListFacts DEF ToSet
<1>2. IsList(pr) /\ DOMAIN pr = DOMAIN TcpLinks(t) /\ IsList(vl) /\ DOMAIN vl = DOMAIN VolumeNumbers(t)
  BY <1>1, ListOfAll
<1>3. \A i \in DOMAIN pr : pr[i] = <<"pr", i - 1>>
  BY DEF Numbered
<1>4. \A i \in DOMAIN vl : vl[i] = <<"vl", VolumeNumbers(t)[i] - 1>>
  BY DEF Numbered
<1>5. Kinds(t) = pr \o vl
  BY DEF Kinds
<1> HIDE DEF pr, vl
<1>6. \A a, b \in DOMAIN pr : pr[a] = pr[b] => a = b
  BY <1>1, <1>2, <1>3
<1>7. ASSUME NEW a \in DOMAIN vl, NEW b \in DOMAIN vl, vl[a] = vl[b] PROVE a = b
  <2>1. VolumeNumbers(t)[a] = VolumeNumbers(t)[b]
    BY <1>1, <1>2, <1>4, <1>7
  <2> QED BY <2>1, <1>1, <1>2
<1>8. \A a \in DOMAIN pr, b \in DOMAIN vl : pr[a] # vl[b]
  BY <1>3, <1>4
<1>9. \A k \in DOMAIN (pr \o vl) : /\ (pr \o vl)[k] = IF k <= Len(pr) THEN pr[k] ELSE vl[k - Len(pr)]
                                  /\ IF k <= Len(pr) THEN k \in DOMAIN pr ELSE k - Len(pr) \in DOMAIN vl
                                  /\ k \in Nat /\ Len(pr) \in Nat
  <2>1. DOMAIN (pr \o vl) = 1..(Len(pr) + Len(vl)) /\ Len(pr) \in Nat /\ Len(vl) \in Nat
    BY <1>2, ConcatLists
  <2>2. \A k \in 1..(Len(pr) + Len(vl)) : k \in Nat
    BY <2>1
  <2> QED BY <1>2, <2>1, <2>2, ConcatLists
<1>10. IsList(pr \o vl)
  BY <1>2, ListsJoin
<1>11. ASSUME NEW a \in DOMAIN (pr \o vl), NEW b \in DOMAIN (pr \o vl), (pr \o vl)[a] = (pr \o vl)[b]
       PROVE  a = b
  <2>1. CASE a <= Len(pr) /\ b <= Len(pr)
    BY <2>1, <1>6, <1>9, <1>11
  <2>2. CASE ~(a <= Len(pr)) /\ ~(b <= Len(pr))
    <3>1. a - Len(pr) = b - Len(pr)
      BY <2>2, <1>7, <1>9, <1>11
    <3> QED BY <3>1, <1>9
  <2>3. CASE (a <= Len(pr)) # (b <= Len(pr))
    BY <2>3, <1>8, <1>9, <1>11
  <2> QED BY <2>1, <2>2, <2>3
<1>12. \A k \in DOMAIN (pr \o vl) : (pr \o vl)[k] \notin {<<>>, <<"mn">>, <<"ti">>}
  BY <1>3, <1>4, <1>9
<1> QED BY <1>5, <1>10, <1>11, <1>12

\* The fields of a unit.
UnitFields ==
  {"name", "slice", "global", "conflicts", "machineID", "instance", "metadata", "requires",
   "after", "machineOf", "container", "uses", "hostname", "hosts", "reads", "makes", "records",
   "starts"}

\* Unit u is unit v with more units that it needs, comes after or is on the machine of.
Grown(u, v) ==
  /\ DOMAIN u = UnitFields /\ DOMAIN v = UnitFields
  /\ \A f \in UnitFields \ {"requires", "after", "machineOf"} : u[f] = v[f]
  /\ v.requires \subseteq u.requires /\ v.after \subseteq u.after /\ v.machineOf \subseteq u.machineOf

\* Unit v with more names in it.
With(v, r, a, m) == [v EXCEPT !.requires = @ \cup r, !.after = @ \cup a, !.machineOf = @ \cup m]

\* A unit with more names in it is grown from what it was.
LEMMA GrownFrom ==
  ASSUME NEW u, NEW v, DOMAIN v = UnitFields, NEW r, NEW a, NEW m, u = With(v, r, a, m)
  PROVE  /\ Grown(u, v) /\ u.requires = v.requires \cup r /\ u.after = v.after \cup a
         /\ u.machineOf = v.machineOf \cup m
<1>1. {"requires", "after", "machineOf"} \subseteq UnitFields
  BY DEF UnitFields
<1>2. /\ DOMAIN u = UnitFields /\ u.requires = v.requires \cup r /\ u.after = v.after \cup a
      /\ u.machineOf = v.machineOf \cup m
      /\ \A f \in UnitFields \ {"requires", "after", "machineOf"} : u[f] = v[f]
  BY <1>1 DEF With
<1> QED BY <1>2 DEF Grown

\* Growing goes on.
LEMMA GrownMore ==
  ASSUME NEW u, NEW v, NEW w, Grown(u, v), Grown(v, w)
  PROVE  Grown(u, w)
BY DEF Grown

\* What createDefaultUnit starts with.
LEMMA DefaultIs ==
  ASSUME NEW j, NEW g, NEW t, NEW kind, NEW n, NEW c
  PROVE  LET u == DefaultUnit(j, g, t, kind, n, c)
         IN  /\ DOMAIN u = UnitFields /\ u.name = UnitName(j, g, t, kind, n, "service")
             /\ u.slice = n /\ u.requires = {} /\ u.after = {} /\ u.machineOf = {}
             /\ u.container = <<>> /\ u.uses = {} /\ u.reads = {} /\ u.makes = {}
             /\ u.records = <<>>
BY DEF DefaultUnit, BaseUnit, UnitFields

\* A sidekick, by its kind.
Side(j, g, t, kind, n, c) ==
  [DefaultUnit(j, g, t, kind, n, c) EXCEPT !.container = <<ContainerName(j, g, t, n, kind)>>]

\* What a sidekick is.
LEMMA SideIs ==
  ASSUME NEW j, NEW g, NEW t, NEW kind, NEW n, NEW c
  PROVE  LET u == Side(j, g, t, kind, n, c)
         IN  /\ DOMAIN u = UnitFields /\ u.name = UnitName(j, g, t, kind, n, "service")
             /\ u.slice = n /\ u.requires = {} /\ u.after = {} /\ u.machineOf = {}
             /\ u.container = <<ContainerName(j, g, t, n, kind)>> /\ u.uses = {} /\ u.reads = {}
             /\ u.records = <<>>
             /\ u.conflicts = DefaultUnit(j, g, t, kind, n, c).conflicts
             /\ u.instance = DefaultUnit(j, g, t, kind, n, c).instance
<1> DEFINE d == DefaultUnit(j, g, t, kind, n, c)
<1>1. /\ DOMAIN d = UnitFields /\ d.name = UnitName(j, g, t, kind, n, "service")
      /\ d.slice = n /\ d.requires = {} /\ d.after = {} /\ d.machineOf = {}
      /\ d.uses = {} /\ d.reads = {} /\ d.records = <<>>
  BY DefaultIs
<1>2. Side(j, g, t, kind, n, c) = [d EXCEPT !.container = <<ContainerName(j, g, t, n, kind)>>]
  BY DEF Side
<1> HIDE DEF d
<1> QED BY <1>1, <1>2 DEF UnitFields, d

\* The names of the main units of the tasks it has volumes of.
Mains(j, g, t, n) ==
  {UnitName(j, g, o, <<"mn">>, n, "service") : o \in {Get(g.tasks, name) : name \in ToSet(t.volumesFrom)}}

\* The containers that the main unit of a task uses.
UsedBy(j, g, t, n) ==
  VolumeContainers(j, g, t, n)
    \cup {ContainerName(j, g, t, n, Numbered("pr", i)) : i \in DOMAIN TcpLinks(t)}
    \cup UNION {VolumeContainers(j, g, o, n) \cup {ContainerName(j, g, o, n, <<>>)} :
                  o \in {Get(g.tasks, name) : name \in ToSet(t.volumesFrom)}}

\* What a main unit is.
LEMMA MainIs ==
  ASSUME NEW j, NEW g, NEW t, NEW n, NEW names, NEW c
  PROVE  LET u == MainUnit(j, g, t, n, names, c)
         IN  /\ DOMAIN u = UnitFields /\ u.name = UnitName(j, g, t, <<"mn">>, n, "service")
             /\ u.slice = n /\ u.requires = names \cup Mains(j, g, t, n)
             /\ u.after = names \cup Mains(j, g, t, n) /\ u.machineOf = {}
             /\ u.container = <<ContainerName(j, g, t, n, <<>>)>>
             /\ u.reads = Read(t) /\ u.makes = Made(t)
             /\ u.uses = UsedBy(j, g, t, n) /\ u.records = UnitRecords(j, g, t, n)
             /\ u.conflicts = DefaultUnit(j, g, t, <<"mn">>, n, c).conflicts
             /\ u.instance = DefaultUnit(j, g, t, <<"mn">>, n, c).instance
<1> DEFINE d == DefaultUnit(j, g, t, <<"mn">>, n, c)
<1>1. /\ DOMAIN d = UnitFields /\ d.name = UnitName(j, g, t, <<"mn">>, n, "service")
      /\ d.slice = n /\ d.machineOf = {}
  BY DefaultIs
<1>2. \E h, hs : MainUnit(j, g, t, n, names, c) =
        [d EXCEPT !.container = <<ContainerName(j, g, t, n, <<>>)>>,
                  !.uses = UsedBy(j, g, t, n),
                  !.hostname = h, !.hosts = hs, !.reads = Read(t), !.makes = Made(t),
                  !.requires = names \cup Mains(j, g, t, n), !.after = names \cup Mains(j, g, t, n),
                  !.records = UnitRecords(j, g, t, n)]
  BY Zenon DEF MainUnit, Mains, UsedBy
<1> HIDE DEF d
<1> QED BY <1>1, <1>2 DEF UnitFields, d

\* The names of its sidekicks, and the units of a task before anything is joined.
SideNames(j, g, t, n) == {UnitName(j, g, t, kind, n, "service") : kind \in ToSet(Kinds(t))}
Base(j, g, t, n, c) ==
  Append([k \in DOMAIN Kinds(t) |-> Side(j, g, t, Kinds(t)[k], n, c)],
         MainUnit(j, g, t, n, SideNames(j, g, t, n), c))

\* The chain of a task: its sidekicks and its main unit, each after the one before.
LEMMA ChainOf ==
  ASSUME NEW j, NEW g, NEW t, IsTask(t), NEW n, NEW c
  PROVE  LET b == Base(j, g, t, n, c)
             ch == MainChain(j, g, t, n, c)
         IN  /\ IsList(b) /\ Len(b) = Len(Kinds(t)) + 1
             /\ \A k \in DOMAIN b : DOMAIN b[k] = UnitFields
             /\ \A k \in DOMAIN Kinds(t) : k \in DOMAIN b /\ b[k] = Side(j, g, t, Kinds(t)[k], n, c)
             /\ b[Len(b)] = MainUnit(j, g, t, n, SideNames(j, g, t, n), c)
             /\ IsList(ch) /\ DOMAIN ch = DOMAIN b
             /\ \A k \in DOMAIN b : /\ Grown(ch[k], b[k])
                                    /\ ch[k].after = b[k].after \cup (IF k > 1 THEN {b[k - 1].name} ELSE {})
<1> DEFINE sides == [k \in DOMAIN Kinds(t) |-> Side(j, g, t, Kinds(t)[k], n, c)]
           b == Base(j, g, t, n, c)
           main == MainUnit(j, g, t, n, SideNames(j, g, t, n), c)
           ch == MainChain(j, g, t, n, c)
<1>1. IsList(Kinds(t)) /\ Len(Kinds(t)) \in Nat /\ DOMAIN Kinds(t) = 1..Len(Kinds(t))
  BY KindsDiffer, ListFacts
<1>2. IsList(sides) /\ Len(sides) = Len(Kinds(t)) /\ DOMAIN sides = DOMAIN Kinds(t)
  BY <1>1, ListOfAll
<1>3. ProxyUnits(j, g, t, n, c) \o VolumeUnits(j, g, t, n, c) = sides
  <2> DEFINE pk == [i \in DOMAIN TcpLinks(t) |-> Numbered("pr", i)]
             vk == [k \in DOMAIN VolumeNumbers(t) |-> Numbered("vl", VolumeNumbers(t)[k])]
             p == ProxyUnits(j, g, t, n, c)
             v == VolumeUnits(j, g, t, n, c)
  <2>1. p = [i \in DOMAIN TcpLinks(t) |-> p[i]] /\ v = [i \in DOMAIN VolumeNumbers(t) |-> v[i]]
    BY DEF ProxyUnits, VolumeUnits
  <2>2. IsList(TcpLinks(t)) /\ IsList(VolumeNumbers(t))
    BY TcpLinksAreLinks, VolumeNumbersRise
  <2>3. /\ IsList(pk) /\ Len(pk) = Len(TcpLinks(t)) /\ DOMAIN pk = DOMAIN TcpLinks(t)
        /\ IsList(vk) /\ Len(vk) = Len(VolumeNumbers(t)) /\ DOMAIN vk = DOMAIN VolumeNumbers(t)
    BY <2>2, ListOfAll
  <2>4. /\ IsList(p) /\ Len(p) = Len(TcpLinks(t)) /\ DOMAIN p = DOMAIN TcpLinks(t)
        /\ IsList(v) /\ Len(v) = Len(VolumeNumbers(t)) /\ DOMAIN v = DOMAIN VolumeNumbers(t)
    BY <2>1, <2>2, ListOfAll
  <2>5. \A i \in DOMAIN p : p[i] = Side(j, g, t, pk[i], n, c)
    BY <2>4 DEF ProxyUnits, Side
  <2>6. \A i \in DOMAIN v : v[i] = Side(j, g, t, vk[i], n, c)
    BY <2>4 DEF VolumeUnits, Side
  <2>7. Kinds(t) = pk \o vk
    BY DEF Kinds
  <2> HIDE DEF p, v, pk, vk
  <2>8. /\ DOMAIN (p \o v) = 1..(Len(p) + Len(v)) /\ IsList(p \o v)
        /\ \A i \in 1..(Len(p) + Len(v)) :
             /\ (p \o v)[i] = IF i <= Len(p) THEN p[i] ELSE v[i - Len(p)]
             /\ IF i <= Len(p) THEN i \in DOMAIN p ELSE i - Len(p) \in DOMAIN v
    BY <2>4, ConcatLists
  <2>9. /\ DOMAIN Kinds(t) = 1..(Len(p) + Len(v))
        /\ \A i \in 1..(Len(p) + Len(v)) :
             Kinds(t)[i] = IF i <= Len(p) THEN pk[i] ELSE vk[i - Len(p)]
    <3>1. Len(pk) = Len(p) /\ Len(vk) = Len(v)
      BY <2>3, <2>4
    <3>2. /\ DOMAIN (pk \o vk) = 1..(Len(pk) + Len(vk))
          /\ \A i \in 1..(Len(pk) + Len(vk)) :
               (pk \o vk)[i] = IF i <= Len(pk) THEN pk[i] ELSE vk[i - Len(pk)]
      BY <2>3, ConcatLists
    <3> QED BY <3>1, <3>2, <2>7
  <2>10. \A i \in DOMAIN Kinds(t) : (p \o v)[i] = sides[i]
    BY <2>5, <2>6, <2>8, <2>9
  <2>11. p \o v = [i \in DOMAIN Kinds(t) |-> (p \o v)[i]]
    BY <2>8, <2>9, ListFacts
  <2>12. sides = [i \in DOMAIN Kinds(t) |-> sides[i]]
    OBVIOUS
  <2> HIDE DEF sides
  <2> QED BY <2>10, <2>11, <2>12 DEF p, v
<1>4. {u.name : u \in ToSet(sides)} = SideNames(j, g, t, n)
  <2>1. \A k \in DOMAIN Kinds(t) : sides[k].name = UnitName(j, g, t, Kinds(t)[k], n, "service")
    BY SideIs
  <2> HIDE DEF sides
  <2> QED BY <1>2, <2>1 DEF ToSet, SideNames
<1>5. b = Append(sides, main)
  BY DEF Base
<1>6. ch = LinkChain(b)
  BY <1>3, <1>4, <1>5 DEF MainChain
<1> DEFINE l == Len(Kinds(t))
<1>7. /\ IsList(b) /\ Len(b) = l + 1 /\ DOMAIN b = 1..(l + 1) /\ l \in Nat
      /\ \A k \in 1..(l + 1) : b[k] = IF k <= l THEN sides[k] ELSE main
  <2> HIDE DEF sides, main, b
  <2>1. sides \in Seq(ToSet(sides) \cup {main})
    BY <1>2, SeqMonotonic DEF IsList
  <2> QED BY <1>1, <1>2, <1>5, <2>1, LongerList
<1>8. \A k \in DOMAIN Kinds(t) : k \in DOMAIN b /\ k <= l /\ b[k] = Side(j, g, t, Kinds(t)[k], n, c)
  BY <1>1, <1>7
<1>9. b[Len(b)] = main
  <2> HIDE DEF b, main, sides
  <2>1. l \in Nat => l + 1 \in 1..(l + 1) /\ ~(l + 1 <= l)
    OBVIOUS
  <2> HIDE DEF l
  <2> QED BY <1>7, <2>1
<1>10. \A k \in DOMAIN b : DOMAIN b[k] = UnitFields
  BY <1>1, <1>7, <1>8, SideIs, MainIs
<1> HIDE DEF b, main, sides, l
<1>11. IsList(ch) /\ DOMAIN ch = DOMAIN b
  <2>1. LinkChain(b) = [k \in DOMAIN b |-> LinkChain(b)[k]]
    BY DEF LinkChain
  <2> QED BY <1>6, <1>7, <2>1, ListOfAll
<1>12. ASSUME NEW k \in DOMAIN b
       PROVE  /\ Grown(ch[k], b[k])
              /\ ch[k].after = b[k].after \cup (IF k > 1 THEN {b[k - 1].name} ELSE {})
  <2> DEFINE before == IF k > 1 THEN {b[k - 1].name} ELSE {}
  <2> DEFINE next == IF k < Len(b) THEN {b[k + 1].name} ELSE {}
             last == IF k = 1 /\ Len(b) > 1 THEN {Last(b).name} ELSE {}
  <2>1. ch[k] = [b[k] EXCEPT !.requires = @ \cup before \cup next \cup last, !.after = @ \cup before,
                             !.machineOf = @ \cup before]
    BY <1>6, Zenon DEF LinkChain
  <2> HIDE DEF before, next, last
  <2>2. b[k].requires \cup before \cup next \cup last = b[k].requires \cup (before \cup next \cup last)
    OBVIOUS
  <2>3. ch[k] = [b[k] EXCEPT !.requires = @ \cup (before \cup next \cup last),
                             !.after = @ \cup before, !.machineOf = @ \cup before]
    BY <2>1, <2>2
  <2>4. Grown(ch[k], b[k]) /\ ch[k].after = b[k].after \cup before
    <3>1. ch[k] = With(b[k], before \cup next \cup last, before, before)
      BY <2>3 DEF With
    <3>2. DOMAIN b[k] = UnitFields
      BY <1>10
    <3>3. Grown(ch[k], b[k])
      BY <3>1, <3>2, GrownFrom
    <3>4. ch[k].after = b[k].after \cup before
      BY <3>1, <3>2, GrownFrom
    <3> QED BY <3>3, <3>4
  <2> QED BY <2>4 DEF before
<1> QED BY <1>7, <1>8, <1>9, <1>10, <1>11, <1>12 DEF b, main, l

\* Every place of a joined list is a place in one of the lists.
LEMMA FlattenPlaces ==
  ASSUME NEW ss, IsList(ss), \A i \in DOMAIN ss : IsList(ss[i])
  PROVE  \E a, b :
           /\ \A p \in DOMAIN FlattenSeq(ss) :
                /\ a[p] \in DOMAIN ss /\ b[p] \in DOMAIN ss[a[p]]
                /\ FlattenSeq(ss)[p] = ss[a[p]][b[p]]
           /\ \A p, q \in DOMAIN FlattenSeq(ss) : a[p] = a[q] /\ b[p] = b[q] => p = q
<1>0. Len(ss) \in Nat /\ DOMAIN ss = 1..Len(ss)
  BY ListFacts
<1>1. CASE ss = <<>>
  <2>1. FlattenSeq(ss) = <<>>
    BY <1>1 DEF FlattenSeq
  <2> QED BY <2>1
<1>2. CASE ss # <<>>
  <2>1. PICK f : Joins(ss, f, Len(ss)) /\ FlattenSeq(ss) = f[Len(ss)]
    BY <1>2, FlattenJoins
  <2> DEFINE Places(n, a, b) ==
               /\ \A p \in DOMAIN f[n] : /\ a[p] \in 1..n /\ b[p] \in DOMAIN ss[a[p]]
                                         /\ f[n][p] = ss[a[p]][b[p]]
               /\ \A p, q \in DOMAIN f[n] : a[p] = a[q] /\ b[p] = b[q] => p = q
             Fits(n) == IsList(f[n]) /\ \E a, b : Places(n, a, b)
  <2>2. PICK T : T = {n \in 1..Len(ss) : ~Fits(n)}
    OBVIOUS
  <2>3. ASSUME T # {} PROVE FALSE
    <3>0. T \in SUBSET Nat
      BY <1>0, <2>2
    <3>1. PICK n \in T : \A k \in T : n <= k
      BY <3>0, <2>3, Least
    <3>2. n \in 1..Len(ss) /\ f[n] = IF n = 1 THEN ss[n] ELSE f[n - 1] \o ss[n]
      BY <1>0, <2>1, <2>2 DEF Joins
    <3>3. CASE n = 1
      <4> DEFINE a == [p \in DOMAIN ss[1] |-> 1]
                 b == [p \in DOMAIN ss[1] |-> p]
      <4>1. f[1] = ss[1] /\ IsList(ss[1]) /\ 1 \in 1..1
        BY <3>2, <3>3, <1>0
      <4>2. \A p \in DOMAIN f[1] : a[p] = 1 /\ b[p] = p
        BY <4>1
      <4> HIDE DEF a, b
      <4>3. Places(1, a, b)
        BY <4>1, <4>2
      <4>4. Fits(1)
        BY <4>1, <4>3
      <4> QED BY <4>4, <3>3, <2>2
    <3>4. CASE n # 1
      <4>1. n - 1 \in 1..Len(ss) /\ n - 1 \notin T /\ n \in Nat /\ n - 1 \in Nat
        BY <3>1, <3>2, <3>4, <1>0
      <4>2. Fits(n - 1)
        BY <4>1, <2>2
      <4> DEFINE s == f[n - 1]
                 t == ss[n]
      <4>3. PICK a, b : Places(n - 1, a, b)
        BY <4>2
      <4>4. /\ \A p \in DOMAIN s : /\ a[p] \in 1..(n - 1) /\ b[p] \in DOMAIN ss[a[p]]
                                   /\ s[p] = ss[a[p]][b[p]]
            /\ \A p, q \in DOMAIN s : a[p] = a[q] /\ b[p] = b[q] => p = q
        BY <4>3
      <4>5. f[n] = s \o t /\ IsList(s) /\ IsList(t)
        BY <3>2, <3>4, <1>0, <4>2
      <4> HIDE DEF s
      <4> DEFINE l == Len(s)
                 c == [p \in 1..(l + Len(t)) |-> IF p <= l THEN a[p] ELSE n]
                 d == [p \in 1..(l + Len(t)) |-> IF p <= l THEN b[p] ELSE p - l]
      <4>6. /\ IsList(f[n]) /\ DOMAIN f[n] = 1..(l + Len(t)) /\ l \in Nat /\ Len(t) \in Nat
            /\ \A i \in 1..(l + Len(t)) :
                 /\ f[n][i] = IF i <= l THEN s[i] ELSE t[i - l]
                 /\ IF i <= l THEN i \in DOMAIN s ELSE i - l \in DOMAIN t
        BY <4>5, ConcatLists
      <4>7. \A p \in 1..(l + Len(t)) : c[p] = (IF p <= l THEN a[p] ELSE n)
                                       /\ d[p] = IF p <= l THEN b[p] ELSE p - l
        OBVIOUS
      <4> HIDE DEF c, d, l
      <4>8. ASSUME NEW p \in DOMAIN f[n]
            PROVE  c[p] \in 1..n /\ d[p] \in DOMAIN ss[c[p]] /\ f[n][p] = ss[c[p]][d[p]]
        <5>1. CASE p <= l
          <6>1. c[p] = a[p] /\ d[p] = b[p] /\ p \in DOMAIN s /\ f[n][p] = s[p]
            BY <5>1, <4>6, <4>7
          <6>2. a[p] \in 1..(n - 1) => a[p] \in 1..n
            BY <4>1
          <6> QED BY <6>1, <6>2, <4>4
        <5>2. CASE ~(p <= l)
          <6>1. c[p] = n /\ d[p] = p - l /\ p - l \in DOMAIN ss[n] /\ f[n][p] = ss[n][p - l]
            BY <5>2, <4>6, <4>7
          <6> QED BY <6>1, <4>1, <3>2
        <5> QED BY <5>1, <5>2
      <4>9. ASSUME NEW p \in DOMAIN f[n], NEW q \in DOMAIN f[n], c[p] = c[q], d[p] = d[q]
            PROVE  p = q
        <5>1. \A x \in DOMAIN f[n] : x <= l => c[x] # n /\ c[x] = a[x] /\ d[x] = b[x] /\ x \in DOMAIN s
          <6>1. \A x \in DOMAIN f[n] : x <= l => c[x] = a[x] /\ d[x] = b[x] /\ x \in DOMAIN s
            BY <4>6, <4>7
          <6>2. \A x \in DOMAIN s : a[x] # n
            BY <4>4, <4>1
          <6> QED BY <6>1, <6>2
        <5>2. \A x \in DOMAIN f[n] : ~(x <= l) => c[x] = n /\ d[x] = x - l
          BY <4>6, <4>7
        <5>3. CASE p <= l /\ q <= l
          BY <5>1, <5>3, <4>4, <4>9
        <5>4. CASE ~(p <= l) /\ ~(q <= l)
          <6>1. p - l = q - l
            BY <5>2, <5>4, <4>9
          <6> QED BY <6>1, <4>6
        <5> QED BY <5>1, <5>2, <5>3, <5>4, <4>9
      <4>10. Places(n, c, d)
        BY <4>8, <4>9
      <4> HIDE DEF Places
      <4>11. \E x, y : Places(n, x, y)
        BY <4>10
      <4>12. Fits(n)
        BY <4>11, <4>6
      <4> QED BY <4>12, <2>2
    <3> QED BY <3>3, <3>4
  <2>4. Len(ss) \in 1..Len(ss)
    BY <1>0, <1>2 DEF IsList
  <2>5. Fits(Len(ss))
    BY <2>2, <2>3, <2>4
  <2>6. PICK a, b : Places(Len(ss), a, b)
    BY <2>5
  <2> QED BY <2>6, <2>1, <1>0
<1> QED BY <1>1, <1>2

\* The units that come first for a task.
WaitsFor(j, g, n, c, i) ==
  LET mains == [x \in DOMAIN g.tasks |-> MainChain(j, g, g.tasks[x], n, c)]
      chains == {mains[Index(g.tasks, a)] : a \in ToSet(g.tasks[i].after)}
  IN  {u.name : u \in UNION {ToSet(x) : x \in chains}}

\* Unit u is the one of task i of group g in place k of its chain.
UnitOf(u, j, g, n, c, i, k) ==
  /\ i \in DOMAIN g.tasks /\ k \in DOMAIN Base(j, g, g.tasks[i], n, c)
  /\ Grown(u, Base(j, g, g.tasks[i], n, c)[k])
  /\ u.after = Base(j, g, g.tasks[i], n, c)[k].after
               \cup (IF k > 1 THEN {Base(j, g, g.tasks[i], n, c)[k - 1].name} ELSE {})
               \cup WaitsFor(j, g, n, c, i)

\* Unit u is the timer of task i.
TimerOf(u, j, g, n, i) ==
  /\ i \in DOMAIN g.tasks /\ DOMAIN u = UnitFields
  /\ u.name = UnitName(j, g, g.tasks[i], <<"ti">>, n, "timer")
  /\ u.slice = n /\ u.after = {} /\ u.requires = {} /\ u.uses = {} /\ u.reads = {}
  /\ u.records = <<>>

\* Together only adds names that the unit needs.
LEMMA TogetherGrows ==
  ASSUME NEW chain, NEW others, NEW k \in DOMAIN chain, DOMAIN chain[k] = UnitFields
  PROVE  Grown(Together(chain, others)[k], chain[k]) /\ Together(chain, others)[k].after = chain[k].after
<1> DEFINE names == {u.name : u \in UNION {ToSet(c) : c \in others}}
           u == Together(chain, others)[k]
<1>1. u = [chain[k] EXCEPT !.requires = @ \cup names]
  BY DEF Together
<1> HIDE DEF u, names
<1>2. u.after = chain[k].after /\ DOMAIN u = UnitFields /\ chain[k].requires \subseteq u.requires
      /\ \A f \in UnitFields \ {"requires"} : u[f] = chain[k][f]
  BY <1>1 DEF UnitFields
<1>3. {"after", "machineOf"} \subseteq UnitFields \ {"requires"}
  BY DEF UnitFields
<1> QED BY <1>2, <1>3 DEF u, Grown

\* Behind only adds the names of the tasks before.
LEMMA BehindGrows ==
  ASSUME NEW chain, NEW others, NEW k \in DOMAIN chain, DOMAIN chain[k] = UnitFields
  PROVE  /\ Grown(Behind(chain, others)[k], chain[k])
         /\ Behind(chain, others)[k].after =
              chain[k].after \cup {u.name : u \in UNION {ToSet(c) : c \in others}}
<1> DEFINE names == {u.name : u \in UNION {ToSet(c) : c \in others}}
           u == Behind(chain, others)[k]
<1>1. u = [chain[k] EXCEPT !.after = @ \cup names]
  BY DEF Behind
<1> HIDE DEF u, names
<1>2. u.after = chain[k].after \cup names /\ DOMAIN u = UnitFields
      /\ \A f \in UnitFields \ {"after"} : u[f] = chain[k][f]
  BY <1>1 DEF UnitFields
<1>3. {"requires", "machineOf"} \subseteq UnitFields \ {"after"}
  BY DEF UnitFields
<1> QED BY <1>2, <1>3 DEF u, names, Grown

\* Unit v on the machine of the unit of a name.
On(v, name) == [v EXCEPT !.machineOf = @ \cup {name}]

\* The joining of the units of a slice only adds the name of the first one.
LEMMA OnGrows ==
  ASSUME NEW v, DOMAIN v = UnitFields, NEW name
  PROVE  /\ Grown(On(v, name), v) /\ On(v, name).machineOf = v.machineOf \cup {name}
         /\ \A f \in UnitFields \ {"machineOf"} : On(v, name)[f] = v[f]
<1> DEFINE u == On(v, name)
<1>1. u.machineOf = v.machineOf \cup {name} /\ DOMAIN u = UnitFields
      /\ \A f \in UnitFields \ {"machineOf"} : u[f] = v[f]
  BY DEF On, UnitFields
<1>2. {"requires", "after"} \subseteq UnitFields \ {"machineOf"}
  BY DEF UnitFields
<1> QED BY <1>1, <1>2 DEF Grown

\* What a chain becomes when the tasks of its group are put in order.
OrderedChain(j, g, n, c, i) ==
  LET mains == [x \in DOMAIN g.tasks |-> MainChain(j, g, g.tasks[x], n, c)]
      bound == IF g.restart = "all" THEN Together(mains[i], {mains[k] : k \in DOMAIN mains \ {i}})
               ELSE mains[i]
  IN  Behind(bound, {mains[Index(g.tasks, a)] : a \in ToSet(g.tasks[i].after)})

\* Ordered, a chain still has the units of its task in their places.
LEMMA ChainOrdered ==
  ASSUME NEW j, NEW g, AreTasks(g.tasks), NEW n, NEW c, NEW i \in DOMAIN g.tasks
  PROVE  LET o == OrderedChain(j, g, n, c, i)
         IN  /\ IsList(o) /\ DOMAIN o = DOMAIN Base(j, g, g.tasks[i], n, c)
             /\ \A k \in DOMAIN o : UnitOf(o[k], j, g, n, c, i, k)
<1> DEFINE mains == [x \in DOMAIN g.tasks |-> MainChain(j, g, g.tasks[x], n, c)]
           ch == MainChain(j, g, g.tasks[i], n, c)
           b == Base(j, g, g.tasks[i], n, c)
           all == {mains[k] : k \in DOMAIN mains \ {i}}
           bound == IF g.restart = "all" THEN Together(ch, all) ELSE ch
           first == {mains[Index(g.tasks, a)] : a \in ToSet(g.tasks[i].after)}
           o == Behind(bound, first)
<1>1. IsTask(g.tasks[i])
  BY DEF AreTasks, ToSet
<1>2. /\ IsList(ch) /\ DOMAIN ch = DOMAIN b
      /\ \A k \in DOMAIN b : DOMAIN b[k] = UnitFields
      /\ \A k \in DOMAIN b : /\ Grown(ch[k], b[k])
                             /\ ch[k].after = b[k].after \cup (IF k > 1 THEN {b[k - 1].name} ELSE {})
  <2> DEFINE t == g.tasks[i]
  <2>1. IsTask(t)
    BY <1>1
  <2> HIDE DEF t
  <2>2. /\ IsList(MainChain(j, g, t, n, c)) /\ DOMAIN MainChain(j, g, t, n, c) = DOMAIN Base(j, g, t, n, c)
        /\ \A k \in DOMAIN Base(j, g, t, n, c) : DOMAIN Base(j, g, t, n, c)[k] = UnitFields
    BY <2>1, ChainOf
  <2>3. \A k \in DOMAIN Base(j, g, t, n, c) :
          /\ Grown(MainChain(j, g, t, n, c)[k], Base(j, g, t, n, c)[k])
          /\ MainChain(j, g, t, n, c)[k].after =
               Base(j, g, t, n, c)[k].after \cup (IF k > 1 THEN {Base(j, g, t, n, c)[k - 1].name} ELSE {})
    BY <2>1, ChainOf
  <2> QED BY <2>2, <2>3 DEF t
<1>3. OrderedChain(j, g, n, c, i) = o
  BY DEF OrderedChain
<1>4. WaitsFor(j, g, n, c, i) = {u.name : u \in UNION {ToSet(x) : x \in first}}
  BY DEF WaitsFor
<1> HIDE DEF mains, ch, b, all, first
<1>5. /\ IsList(bound) /\ DOMAIN bound = DOMAIN ch
      /\ \A k \in DOMAIN b : Grown(bound[k], b[k]) /\ bound[k].after = ch[k].after
  <2>1. CASE g.restart = "all"
    <3>1. Together(ch, all) = [k \in DOMAIN ch |-> Together(ch, all)[k]]
      BY DEF Together
    <3>2. IsList(Together(ch, all)) /\ DOMAIN Together(ch, all) = DOMAIN ch
      BY <3>1, <1>2, ListOfAll
    <3>3. \A k \in DOMAIN b : Grown(Together(ch, all)[k], ch[k]) /\ Together(ch, all)[k].after = ch[k].after
      <4>1. \A k \in DOMAIN b : DOMAIN ch[k] = UnitFields
        BY <1>2 DEF Grown
      <4> QED BY <4>1, <1>2, TogetherGrows
    <3> QED BY <2>1, <3>2, <3>3, <1>2, GrownMore
  <2>2. CASE g.restart # "all"
    BY <2>2, <1>2
  <2> QED BY <2>1, <2>2
<1> HIDE DEF bound
<1>6. IsList(o) /\ DOMAIN o = DOMAIN b
  <2>1. o = [k \in DOMAIN bound |-> o[k]]
    BY DEF Behind
  <2> HIDE DEF o
  <2> QED BY <2>1, <1>5, <1>2, ListOfAll
<1>7. ASSUME NEW k \in DOMAIN b
      PROVE  /\ Grown(o[k], b[k])
             /\ o[k].after = ch[k].after \cup WaitsFor(j, g, n, c, i)
  <2>1. k \in DOMAIN bound /\ DOMAIN bound[k] = UnitFields
    BY <1>5, <1>2 DEF Grown
  <2>2. Grown(o[k], bound[k]) /\ o[k].after = bound[k].after \cup WaitsFor(j, g, n, c, i)
    BY <2>1, <1>4, BehindGrows
  <2> QED BY <2>2, <1>5, GrownMore
<1> HIDE DEF o
<1>8. ASSUME NEW k \in DOMAIN b PROVE UnitOf(o[k], j, g, n, c, i, k)
  BY <1>2, <1>7 DEF UnitOf, b
<1> QED BY <1>3, <1>6, <1>8 DEF b, o

\* The place of the timer, after the chain.
TimerPlace(j, g, n, c, i) == Len(Base(j, g, g.tasks[i], n, c)) + 1

\* Unit u has place k among those of task i.
Placed(u, j, g, n, c, i, k) ==
  \/ UnitOf(u, j, g, n, c, i, k)
  \/ TimerOf(u, j, g, n, i) /\ k = TimerPlace(j, g, n, c, i)

\* A timer is the only unit of its list.
LEMMA TimersOf ==
  ASSUME NEW j, NEW g, NEW n, NEW i \in DOMAIN g.tasks
  PROVE  LET l == TimerChain(j, g, g.tasks[i], n)
         IN  IsList(l) /\ \A k \in DOMAIN l : k = 1 /\ TimerOf(l[k], j, g, n, i)
<1> DEFINE t == g.tasks[i]
           l == TimerChain(j, g, t, n)
           x == BaseUnit(UnitName(j, g, t, <<"ti">>, n, "timer"), n)
           u == [x EXCEPT !.starts = <<UnitName(j, g, t, <<"mn">>, n, "service")>>]
<1>1. /\ DOMAIN x = UnitFields /\ x.name = UnitName(j, g, t, <<"ti">>, n, "timer")
      /\ x.slice = n /\ x.after = {} /\ x.requires = {} /\ x.uses = {} /\ x.reads = {}
      /\ x.records = <<>>
  BY DEF BaseUnit, UnitFields
<1>2. l = IF ~t.timer THEN <<>> ELSE <<u>>
  BY DEF TimerChain
<1>3. TimerOf(u, j, g, n, i)
  <2> HIDE DEF x
  <2>1. /\ DOMAIN u = UnitFields /\ u.name = x.name
        /\ u.slice = n /\ u.after = {} /\ u.requires = {} /\ u.uses = {} /\ u.reads = {}
        /\ u.records = <<>>
    BY <1>1 DEF UnitFields
  <2> QED BY <2>1, <1>1 DEF TimerOf
<1> HIDE DEF u, l, t
<1>4. l = <<>> \/ l = <<u>>
  BY <1>2
<1>5. IsList(l) /\ \A k \in DOMAIN l : k = 1 /\ l[k] = u
  <2>1. <<>> \in Seq({}) /\ <<u>> \in Seq({u}) /\ DOMAIN <<>> = {} /\ DOMAIN <<u>> = {1} /\ <<u>>[1] = u
    OBVIOUS
  <2> QED BY <2>1, <1>4, SeqIsList
<1> QED BY <1>3, <1>5 DEF l, t

\* A unit keeps its place when it gets a machine.
LEMMA GrownPlaced ==
  ASSUME NEW j, NEW g, NEW n, NEW c, NEW i, NEW k, NEW v, Placed(v, j, g, n, c, i, k), NEW name
  PROVE  /\ DOMAIN v = UnitFields /\ Placed(On(v, name), j, g, n, c, i, k)
         /\ On(v, name).name = v.name
         /\ On(v, name).machineOf = v.machineOf \cup {name}
         /\ UnitOf(v, j, g, n, c, i, k) => UnitOf(On(v, name), j, g, n, c, i, k)
<1>1. DOMAIN v = UnitFields
  BY DEF Placed, UnitOf, TimerOf, Grown
<1>2. /\ Grown(On(v, name), v) /\ On(v, name).machineOf = v.machineOf \cup {name}
      /\ \A f \in UnitFields \ {"machineOf"} : On(v, name)[f] = v[f]
  BY <1>1, OnGrows
<1>3. {"name", "slice", "after", "requires", "uses", "reads", "records"}
        \subseteq UnitFields \ {"machineOf"}
  BY DEF UnitFields
<1>4. UnitOf(v, j, g, n, c, i, k) => UnitOf(On(v, name), j, g, n, c, i, k)
  BY <1>2, <1>3, GrownMore DEF UnitOf
<1>5. TimerOf(v, j, g, n, i) => TimerOf(On(v, name), j, g, n, i)
  BY <1>2, <1>3 DEF TimerOf, Grown
<1> QED BY <1>1, <1>2, <1>3, <1>4, <1>5 DEF Placed

\* Each unit of the list has a place of its own.
AtPlaces(units, j, g, n, c, a, b) ==
  /\ \A p \in DOMAIN units : Placed(units[p], j, g, n, c, a[p], b[p])
  /\ \A p, q \in DOMAIN units : a[p] = a[q] /\ b[p] = b[q] => p = q

\* The units of a group in a slice are the chains of its tasks and their timers, each once;
\* unless the group is global they are on the machine of one of them.
LEMMA UnitsOfGroup ==
  ASSUME NEW j, NEW g, AreTasks(g.tasks), NEW n, NEW c
  PROVE  LET units == GroupUnits(j, g, n, c)
         IN  /\ IsList(units)
             /\ \E a, b : AtPlaces(units, j, g, n, c, a, b)
             /\ \A i \in DOMAIN g.tasks : \A k \in DOMAIN Base(j, g, g.tasks[i], n, c) :
                  \E u \in ToSet(units) : UnitOf(u, j, g, n, c, i, k)
             /\ ~g.global => \A u, v \in ToSet(units) : \E w \in ToSet(units) :
                               w.name \in (u.machineOf \cup {u.name}) \cap (v.machineOf \cup {v.name})
<1> DEFINE o(i) == OrderedChain(j, g, n, c, i)
           ti(i) == TimerChain(j, g, g.tasks[i], n)
           cs == [i \in DOMAIN g.tasks |-> o(i) \o ti(i)]
           x == FlattenSeq(cs)
           units == GroupUnits(j, g, n, c)
<1>1. IsList(g.tasks)
  BY DEF AreTasks
<1>2. units = IF g.global THEN x
              ELSE [p \in DOMAIN x |-> IF p = 1 THEN x[p] ELSE On(x[p], x[1].name)]
  BY DEF GroupUnits, OrderedChain, On
<1>3. IsList(cs) /\ DOMAIN cs = DOMAIN g.tasks
  BY <1>1, ListOfAll
<1>4. ASSUME NEW i \in DOMAIN g.tasks
      PROVE  /\ IsList(cs[i])
             /\ \A k \in DOMAIN cs[i] : Placed(cs[i][k], j, g, n, c, i, k)
             /\ \A k \in DOMAIN Base(j, g, g.tasks[i], n, c) :
                  k \in DOMAIN cs[i] /\ UnitOf(cs[i][k], j, g, n, c, i, k)
  <2> DEFINE s == o(i)
             t == ti(i)
             b == Base(j, g, g.tasks[i], n, c)
  <2>1. IsList(s) /\ DOMAIN s = DOMAIN b /\ \A k \in DOMAIN s : UnitOf(s[k], j, g, n, c, i, k)
    BY ChainOrdered
  <2>2. IsList(t) /\ \A k \in DOMAIN t : k = 1 /\ TimerOf(t[k], j, g, n, i)
    BY TimersOf
  <2>3. IsList(b)
    <3>1. IsTask(g.tasks[i])
      BY DEF AreTasks, ToSet
    <3> QED BY <3>1, ChainOf
  <2>4. cs[i] = s \o t
    OBVIOUS
  <2>5. TimerPlace(j, g, n, c, i) = Len(b) + 1
    BY DEF TimerPlace
  <2> HIDE DEF s, t, cs, b
  <2>6. /\ Len(s) = Len(b) /\ Len(s) \in Nat /\ DOMAIN s = 1..Len(s)
    BY <2>1, <2>3, ListFacts
  <2>7. /\ IsList(s \o t) /\ DOMAIN (s \o t) = 1..(Len(s) + Len(t)) /\ Len(t) \in Nat
        /\ \A k \in 1..(Len(s) + Len(t)) :
             /\ (s \o t)[k] = IF k <= Len(s) THEN s[k] ELSE t[k - Len(s)]
             /\ IF k <= Len(s) THEN k \in DOMAIN s ELSE k - Len(s) \in DOMAIN t
    BY <2>1, <2>2, ConcatLists
  <2>8. ASSUME NEW k \in DOMAIN cs[i] PROVE Placed(cs[i][k], j, g, n, c, i, k)
    <3>1. CASE k <= Len(s)
      <4>1. cs[i][k] = s[k] /\ k \in DOMAIN s
        BY <2>4, <2>7, <3>1
      <4> QED BY <4>1, <2>1 DEF Placed
    <3>2. CASE ~(k <= Len(s))
      <4>1. cs[i][k] = t[k - Len(s)] /\ k - Len(s) \in DOMAIN t /\ k \in Nat
        BY <2>4, <2>7, <3>2
      <4>2. k = Len(b) + 1 /\ TimerOf(cs[i][k], j, g, n, i)
        BY <4>1, <2>2, <2>6
      <4> QED BY <4>2, <2>5 DEF Placed
    <3> QED BY <3>1, <3>2
  <2>9. ASSUME NEW k \in DOMAIN b PROVE k \in DOMAIN cs[i] /\ UnitOf(cs[i][k], j, g, n, c, i, k)
    <3>1. k \in 1..(Len(s) + Len(t)) /\ k <= Len(s)
      BY <2>1, <2>6, <2>7
    <3> QED BY <3>1, <2>1, <2>4, <2>7
  <2> QED BY <2>4, <2>7, <2>8, <2>9 DEF b
<1> HIDE DEF cs
<1>5. IsList(x) /\ ToSet(x) = UNION {ToSet(cs[i]) : i \in DOMAIN cs}
  <2> DEFINE S == UNION {ToSet(cs[i]) : i \in DOMAIN cs}
  <2>1. ASSUME NEW i \in DOMAIN cs PROVE cs[i] \in Seq(S)
    <3>1. cs[i] \in Seq(ToSet(cs[i])) /\ ToSet(cs[i]) \subseteq S
      BY <1>3, <1>4 DEF IsList
    <3> QED BY <3>1, SeqMonotonic
  <2> HIDE DEF S
  <2>2. x \in Seq(S) /\ ToSet(x) = UNION {ToSet(cs[i]) : i \in DOMAIN cs}
    BY <2>1, <1>3, Flattened
  <2> QED BY <2>2, SeqIsList
<1>6. PICK a, b :
        /\ \A p \in DOMAIN x : a[p] \in DOMAIN cs /\ b[p] \in DOMAIN cs[a[p]] /\ x[p] = cs[a[p]][b[p]]
        /\ \A p, q \in DOMAIN x : a[p] = a[q] /\ b[p] = b[q] => p = q
  BY <1>3, <1>4, FlattenPlaces
<1> HIDE DEF x, units
<1>7. /\ \A p \in DOMAIN x : Placed(x[p], j, g, n, c, a[p], b[p])
      /\ \A p, q \in DOMAIN x : a[p] = a[q] /\ b[p] = b[q] => p = q
  BY <1>3, <1>4, <1>6
<1>8. ASSUME NEW i \in DOMAIN g.tasks, NEW k \in DOMAIN Base(j, g, g.tasks[i], n, c)
      PROVE  \E p \in DOMAIN x : UnitOf(x[p], j, g, n, c, i, k)
  <2>1. k \in DOMAIN cs[i] /\ UnitOf(cs[i][k], j, g, n, c, i, k) /\ i \in DOMAIN cs
    BY <1>3, <1>4
  <2>2. cs[i][k] \in ToSet(x)
    BY <2>1, <1>5 DEF ToSet
  <2> QED BY <2>1, <2>2 DEF ToSet
<1>9. CASE g.global
  <2>1. units = x
    BY <1>2, <1>9
  <2>2. \E d, e : AtPlaces(x, j, g, n, c, d, e)
    BY <1>7 DEF AtPlaces
  <2> QED BY <2>1, <2>2, <1>5, <1>8, <1>9 DEF units, ToSet
<1>10. CASE ~g.global
  <2> DEFINE y == [p \in DOMAIN x |-> IF p = 1 THEN x[p] ELSE On(x[p], x[1].name)]
  <2>1. units = y
    BY <1>2, <1>10
  <2>2. IsList(y) /\ DOMAIN y = DOMAIN x
    BY <1>5, ListOfAll
  <2>3. \A p \in DOMAIN x : y[p] = IF p = 1 THEN x[p] ELSE On(x[p], x[1].name)
    OBVIOUS
  <2> HIDE DEF y
  <2>4. ASSUME NEW p \in DOMAIN x
        PROVE  /\ Placed(y[p], j, g, n, c, a[p], b[p])
               /\ y[p].name = x[p].name
               /\ \A i, k : UnitOf(x[p], j, g, n, c, i, k) => UnitOf(y[p], j, g, n, c, i, k)
               /\ x[1].name \in y[p].machineOf \cup {y[p].name}
    <3>1. CASE p = 1
      BY <3>1, <2>3, <1>7
    <3>2. CASE p # 1
      <4>1. y[p] = On(x[p], x[1].name) /\ Placed(x[p], j, g, n, c, a[p], b[p])
        BY <3>2, <2>3, <1>7
      <4>2. \A i, k : UnitOf(x[p], j, g, n, c, i, k) => UnitOf(y[p], j, g, n, c, i, k)
        <5>1. \A i, k : UnitOf(x[p], j, g, n, c, i, k) => Placed(x[p], j, g, n, c, i, k)
          BY DEF Placed
        <5> QED BY <5>1, <4>1, GrownPlaced
      <4> QED BY <4>1, <4>2, GrownPlaced
    <3> QED BY <3>1, <3>2
  <2>5. ASSUME NEW i \in DOMAIN g.tasks, NEW k \in DOMAIN Base(j, g, g.tasks[i], n, c)
        PROVE  \E u \in ToSet(y) : UnitOf(u, j, g, n, c, i, k)
    BY <1>8, <2>2, <2>4 DEF ToSet
  <2>6. ASSUME NEW u \in ToSet(y), NEW v \in ToSet(y)
        PROVE  \E w \in ToSet(y) :
                 w.name \in (u.machineOf \cup {u.name}) \cap (v.machineOf \cup {v.name})
    <3>1. PICK p \in DOMAIN x : u = y[p]
      BY <2>2 DEF ToSet
    <3>2. PICK q \in DOMAIN x : v = y[q]
      BY <2>2 DEF ToSet
    <3>3. 1 \in DOMAIN x
      <4>1. Len(x) \in Nat /\ DOMAIN x = 1..Len(x)
        BY <1>5, ListFacts
      <4> QED BY <4>1
    <3>4. y[1].name = x[1].name /\ y[1] \in ToSet(y)
      BY <3>3, <2>2, <2>4 DEF ToSet
    <3> QED BY <3>1, <3>2, <3>4, <2>4
  <2>7. \E d, e : AtPlaces(y, j, g, n, c, d, e)
    <3>1. \A p \in DOMAIN y : Placed(y[p], j, g, n, c, a[p], b[p])
      BY <2>2, <2>4
    <3>2. \A p, q \in DOMAIN y : a[p] = a[q] /\ b[p] = b[q] => p = q
      BY <2>2, <1>7
    <3> QED BY <3>1, <3>2 DEF AtPlaces
  <2>8. units = GroupUnits(j, g, n, c)
    BY DEF units
  <2> QED BY <2>1, <2>2, <2>5, <2>6, <2>7, <2>8
<1> QED BY <1>9, <1>10

-----------------------------------------------------------------------------
(* The resources that kubernetes is given for a pod.                         *)

\* FlattenSeq of lists is a list of what they hold.
LEMMA ListsFlatten ==
  ASSUME NEW ss, IsList(ss), \A i \in DOMAIN ss : IsList(ss[i])
  PROVE  /\ IsList(FlattenSeq(ss))
         /\ ToSet(FlattenSeq(ss)) = UNION {ToSet(ss[i]) : i \in DOMAIN ss}
<1> DEFINE S == UNION {ToSet(ss[i]) : i \in DOMAIN ss}
<1>1. ASSUME NEW i \in DOMAIN ss PROVE ss[i] \in Seq(S)
  <2>1. ss[i] \in Seq(ToSet(ss[i])) /\ ToSet(ss[i]) \subseteq S
    BY DEF IsList
  <2> QED BY <2>1, SeqMonotonic
<1> HIDE DEF S
<1>2. FlattenSeq(ss) \in Seq(S) /\ ToSet(FlattenSeq(ss)) = UNION {ToSet(ss[i]) : i \in DOMAIN ss}
  BY <1>1, Flattened
<1> QED BY <1>2, SeqIsList

\* The lists of no and of one element.
LEMMA SmallLists ==
  /\ IsList(<<>>) /\ ToSet(<<>>) = {}
  /\ \A x : IsList(<<x>>) /\ ToSet(<<x>>) = {x}
<1>1. <<>> \in Seq({}) /\ ToSet(<<>>) = {}
  BY DEF ToSet
<1>2. ASSUME NEW x PROVE <<x>> \in Seq({x}) /\ ToSet(<<x>>) = {x}
  <2>1. DOMAIN <<x>> = {1} /\ <<x>>[1] = x
    OBVIOUS
  <2>2. <<x>> \in Seq({x})
    OBVIOUS
  <2> QED BY <2>1, <2>2 DEF ToSet
<1> QED BY <1>1, <1>2, SeqIsList

\* What is made of each task of a pod.
LEMMA OfEach ==
  ASSUME NEW s, IsList(s), NEW ss, ss = [i \in DOMAIN s |-> ss[i]], \A i \in DOMAIN s : IsList(ss[i])
  PROVE  /\ IsList(FlattenSeq(ss))
         /\ \A u : u \in ToSet(FlattenSeq(ss)) <=> \E i \in DOMAIN s : u \in ToSet(ss[i])
<1>1. IsList(ss) /\ DOMAIN ss = DOMAIN s
  BY ListOfAll
<1> QED BY <1>1, ListsFlatten

\* The services of a task; it has the one of its name if it is a proxy or has ports.
LEMMA ServicesAre ==
  ASSUME NEW j, NEW g, NEW t, NEW pod
  PROVE  /\ IsList(Services(j, g, t, pod))
         /\ \A u \in ToSet(Services(j, g, t, pod)) : u.kind = "service"
         /\ t.type = "proxy" \/ HasService(t) =>
              \E u \in ToSet(Services(j, g, t, pod)) : u.kind = "service" /\ u.name = ServiceName(g, t)
<1>1. CASE t.type = "proxy"
  <2>1. Services(j, g, t, pod) = <<ProxyService(j, g, t)>>
    BY <1>1 DEF Services, HasService
  <2>2. ProxyService(j, g, t).kind = "service" /\ ProxyService(j, g, t).name = ServiceName(g, t)
    BY DEF ProxyService, Service
  <2> QED BY <2>1, <2>2, SmallLists
<1>2. CASE t.type # "proxy" /\ HasService(t)
  <2> DEFINE a == Service(ServiceName(g, t), pod.name, <<>>, ToSet(CollectPorts(t)), {})
             mapped == SelectSeq(t.ports, LAMBDA p : p.ip = "0.0.0.0")
             NodePort(p) == IF p.host = 0 THEN p.container ELSE p.host
             b == Service(ServiceName(g, t) \o <<"host">>, pod.name, <<>>,
                    {p.container : p \in ToSet(mapped)}, {NodePort(p) : p \in ToSet(mapped)})
             more == IF t.network = "host" \/ mapped = <<>> THEN <<>> ELSE <<b>>
  <2>1. Services(j, g, t, pod) = <<a>> \o more
    BY <1>2 DEF Services, PodServices
  <2>2. a.kind = "service" /\ a.name = ServiceName(g, t) /\ b.kind = "service"
    BY DEF Service
  <2>3. more = <<>> \/ more = <<b>>
    OBVIOUS
  <2> HIDE DEF a, b, more
  <2>4. IsList(more) /\ \A u \in ToSet(more) : u.kind = "service"
    BY <2>2, <2>3, SmallLists
  <2>5. IsList(<<a>>) /\ ToSet(<<a>>) = {a}
    BY SmallLists
  <2>6. IsList(<<a>> \o more) /\ ToSet(<<a>> \o more) = {a} \cup ToSet(more)
    BY <2>4, <2>5, ListsJoin
  <2> QED BY <2>1, <2>2, <2>4, <2>6
<1>3. CASE t.type # "proxy" /\ ~HasService(t)
  BY <1>3, SmallLists DEF Services
<1> QED BY <1>1, <1>2, <1>3

\* The kinds of resources.
Kinds6 == {"deployment", "daemonset", "job", "secret", "service", "ingress"}

\* The controllers of a pod have its specification.
LEMMA ControllersAre ==
  ASSUME NEW j, NEW g, NEW pod
  PROVE  LET l == Deployments(j, g, pod) \o DaemonSets(j, g, pod) \o Jobs(j, g, pod)
         IN  /\ IsList(l)
             /\ \A u \in ToSet(l) : /\ u.kind \in {"deployment", "daemonset", "job"}
                                    /\ u.spec = PodSpec(j, g, pod.tasks)
                                    /\ HasType(pod.tasks, "service") \/ HasType(pod.tasks, "oneshot")
<1> DEFINE Good(u) == /\ u.kind \in {"deployment", "daemonset", "job"}
                      /\ u.spec = PodSpec(j, g, pod.tasks)
                      /\ HasType(pod.tasks, "service") \/ HasType(pod.tasks, "oneshot")
<1>1. \A kind, name, n, s : /\ Controller(kind, name, j, g, pod, n, s).kind = kind
                            /\ Controller(kind, name, j, g, pod, n, s).spec = PodSpec(j, g, pod.tasks)
  BY DEF Controller
<1>2. IsList(Deployments(j, g, pod)) /\ \A u \in ToSet(Deployments(j, g, pod)) : Good(u)
  BY <1>1, SmallLists DEF Deployments
<1>3. IsList(DaemonSets(j, g, pod)) /\ \A u \in ToSet(DaemonSets(j, g, pod)) : Good(u)
  BY <1>1, SmallLists DEF DaemonSets
<1>4. IsList(Jobs(j, g, pod)) /\ \A u \in ToSet(Jobs(j, g, pod)) : Good(u)
  BY <1>1, SmallLists DEF Jobs
<1> HIDE DEF Good
<1>5. /\ IsList(Deployments(j, g, pod) \o DaemonSets(j, g, pod))
      /\ \A u \in ToSet(Deployments(j, g, pod) \o DaemonSets(j, g, pod)) : Good(u)
  BY <1>2, <1>3, ListsJoin
<1>6. /\ IsList(Deployments(j, g, pod) \o DaemonSets(j, g, pod) \o Jobs(j, g, pod))
      /\ \A u \in ToSet(Deployments(j, g, pod) \o DaemonSets(j, g, pod) \o Jobs(j, g, pod)) : Good(u)
  BY <1>4, <1>5, ListsJoin
<1> QED BY <1>6 DEF Good

\* What the resources of a pod are, and which of them its tasks have.
LEMMA ResourcesAre ==
  ASSUME NEW j, NEW g, NEW pod, IsList(pod.tasks)
  PROVE  LET rs == ToSet(Resources(j, g, pod))
         IN  /\ IsList(Resources(j, g, pod))
             /\ \A u \in rs :
                  /\ u.kind \in Kinds6
                  /\ u.kind \in {"deployment", "daemonset", "job"} =>
                       /\ u.spec = PodSpec(j, g, pod.tasks)
                       /\ HasType(pod.tasks, "service") \/ HasType(pod.tasks, "oneshot")
                  /\ u.kind = "ingress" =>
                       \E t \in ToSet(pod.tasks) : HasFrontends(t) /\ u = Ingress(j, g, t)
             /\ \A t \in ToSet(pod.tasks) :
                  /\ t.secrets # <<>> => \E u \in rs : u.kind = "secret" /\ u.name = SecretName(g, t)
                  /\ t.type = "proxy" \/ HasService(t) =>
                       \E u \in rs : u.kind = "service" /\ u.name = ServiceName(g, t)
<1> DEFINE s == pod.tasks
           c == Deployments(j, g, pod) \o DaemonSets(j, g, pod) \o Jobs(j, g, pod)
           a == [i \in DOMAIN s |-> Secrets(g, s[i])]
           b == [i \in DOMAIN s |-> Services(j, g, s[i], pod)]
           d == [i \in DOMAIN s |-> IF HasFrontends(s[i]) THEN <<Ingress(j, g, s[i])>> ELSE <<>>]
<1>1. Resources(j, g, pod) = c \o FlattenSeq(a) \o FlattenSeq(b) \o FlattenSeq(d)
  BY DEF Resources
<1>2. /\ IsList(c)
      /\ \A u \in ToSet(c) : /\ u.kind \in {"deployment", "daemonset", "job"}
                             /\ u.spec = PodSpec(j, g, pod.tasks)
                             /\ HasType(pod.tasks, "service") \/ HasType(pod.tasks, "oneshot")
  BY ControllersAre
<1>3. \A i \in DOMAIN s :
        /\ IsList(a[i]) /\ \A u \in ToSet(a[i]) : u.kind = "secret"
        /\ s[i].secrets # <<>> => \E u \in ToSet(a[i]) : u.kind = "secret" /\ u.name = SecretName(g, s[i])
  <2> SUFFICES ASSUME NEW i \in DOMAIN s
               PROVE  /\ IsList(a[i]) /\ \A u \in ToSet(a[i]) : u.kind = "secret"
                      /\ s[i].secrets # <<>> =>
                           \E u \in ToSet(a[i]) : u.kind = "secret" /\ u.name = SecretName(g, s[i])
    OBVIOUS
  <2> DEFINE u == [kind |-> "secret", name |-> SecretName(g, s[i])]
  <2>1. a[i] = IF s[i].secrets = <<>> THEN <<>> ELSE <<u>>
    BY DEF Secrets
  <2>2. u.kind = "secret" /\ u.name = SecretName(g, s[i])
    OBVIOUS
  <2> HIDE DEF u, a
  <2> QED BY <2>1, <2>2, SmallLists
<1>4. \A i \in DOMAIN s :
        /\ IsList(b[i]) /\ \A u \in ToSet(b[i]) : u.kind = "service"
        /\ s[i].type = "proxy" \/ HasService(s[i]) =>
             \E u \in ToSet(b[i]) : u.kind = "service" /\ u.name = ServiceName(g, s[i])
  BY ServicesAre
<1>5. \A i \in DOMAIN s :
        IsList(d[i]) /\ \A u \in ToSet(d[i]) : HasFrontends(s[i]) /\ u = Ingress(j, g, s[i])
  BY SmallLists
<1>6. \A t : Ingress(j, g, t).kind = "ingress"
  BY DEF Ingress
<1>7. a = [i \in DOMAIN s |-> a[i]] /\ b = [i \in DOMAIN s |-> b[i]] /\ d = [i \in DOMAIN s |-> d[i]]
  OBVIOUS
<1> HIDE DEF a, b, c, d
<1>8. /\ IsList(FlattenSeq(a))
      /\ \A u : u \in ToSet(FlattenSeq(a)) <=> \E i \in DOMAIN s : u \in ToSet(a[i])
  BY <1>3, <1>7, OfEach
<1>9. /\ IsList(FlattenSeq(b))
      /\ \A u : u \in ToSet(FlattenSeq(b)) <=> \E i \in DOMAIN s : u \in ToSet(b[i])
  BY <1>4, <1>7, OfEach
<1>10. /\ IsList(FlattenSeq(d))
       /\ \A u : u \in ToSet(FlattenSeq(d)) <=> \E i \in DOMAIN s : u \in ToSet(d[i])
  BY <1>5, <1>7, OfEach
<1> DEFINE fa == FlattenSeq(a)
           fb == FlattenSeq(b)
           fd == FlattenSeq(d)
<1> HIDE DEF fa, fb, fd
<1>11. IsList(c \o fa) /\ ToSet(c \o fa) = ToSet(c) \cup ToSet(fa)
  BY <1>2, <1>8, ListsJoin DEF fa
<1>12. IsList(c \o fa \o fb) /\ ToSet(c \o fa \o fb) = ToSet(c) \cup ToSet(fa) \cup ToSet(fb)
  BY <1>11, <1>9, ListsJoin DEF fb
<1>13. /\ IsList(c \o fa \o fb \o fd)
       /\ ToSet(c \o fa \o fb \o fd) = ToSet(c) \cup ToSet(fa) \cup ToSet(fb) \cup ToSet(fd)
  BY <1>12, <1>10, ListsJoin DEF fd
<1> DEFINE rs == ToSet(Resources(j, g, pod))
<1>14. IsList(Resources(j, g, pod)) /\ rs = ToSet(c) \cup ToSet(fa) \cup ToSet(fb) \cup ToSet(fd)
  BY <1>1, <1>13 DEF fa, fb, fd
<1> HIDE DEF rs
<1>15. ASSUME NEW u \in rs
       PROVE  /\ u.kind \in Kinds6
              /\ u.kind \in {"deployment", "daemonset", "job"} =>
                   /\ u.spec = PodSpec(j, g, pod.tasks)
                   /\ HasType(pod.tasks, "service") \/ HasType(pod.tasks, "oneshot")
              /\ u.kind = "ingress" =>
                   \E t \in ToSet(pod.tasks) : HasFrontends(t) /\ u = Ingress(j, g, t)
  <2>1. CASE u \in ToSet(c)
    <3>1. /\ u.kind \in {"deployment", "daemonset", "job"} /\ u.spec = PodSpec(j, g, pod.tasks)
          /\ HasType(pod.tasks, "service") \/ HasType(pod.tasks, "oneshot")
      BY <2>1, <1>2
    <3> QED BY <3>1 DEF Kinds6
  <2>2. CASE u \in ToSet(fa)
    <3>1. u.kind = "secret"
      BY <2>2, <1>3, <1>8 DEF fa
    <3> QED BY <3>1 DEF Kinds6
  <2>3. CASE u \in ToSet(fb)
    <3>1. u.kind = "service"
      BY <2>3, <1>4, <1>9 DEF fb
    <3> QED BY <3>1 DEF Kinds6
  <2>4. CASE u \in ToSet(fd)
    <3>1. PICK i \in DOMAIN s : HasFrontends(s[i]) /\ u = Ingress(j, g, s[i])
      BY <2>4, <1>5, <1>10 DEF fd
    <3>2. u.kind = "ingress" /\ s[i] \in ToSet(pod.tasks)
      BY <3>1, <1>6 DEF ToSet
    <3> QED BY <3>1, <3>2 DEF Kinds6
  <2> QED BY <1>14, <2>1, <2>2, <2>3, <2>4
<1>16. ASSUME NEW t \in ToSet(pod.tasks)
       PROVE  /\ t.secrets # <<>> => \E u \in rs : u.kind = "secret" /\ u.name = SecretName(g, t)
              /\ t.type = "proxy" \/ HasService(t) =>
                   \E u \in rs : u.kind = "service" /\ u.name = ServiceName(g, t)
  <2>1. PICK i \in DOMAIN s : t = s[i]
    BY DEF ToSet
  <2>2. ToSet(a[i]) \subseteq rs /\ ToSet(b[i]) \subseteq rs
    BY <1>8, <1>9, <1>14 DEF fa, fb
  <2> QED BY <2>1, <2>2, <1>3, <1>4
<1> QED BY <1>14, <1>15, <1>16 DEF rs

\* Container k mounts volumes of the pod and has the secret of one of its tasks.
Provided(k, j, g, tasks) ==
  /\ k.mounts \subseteq PodSpec(j, g, tasks).volumes
  /\ k.secret # <<>> => \E t \in ToSet(tasks) : t.secrets # <<>> /\ k.secret = SecretName(g, t)

\* The containers of a task mount volumes of the pod and have secrets of its tasks.
LEMMA ContainersProvided ==
  ASSUME NEW j, NEW g, NEW tasks, NEW t \in ToSet(tasks), IsTask(t), NEW type
  PROVE  /\ IsList(TaskContainers(j, g, t, tasks, type))
         /\ \A k \in ToSet(TaskContainers(j, g, t, tasks, type)) : Provided(k, j, g, tasks)
<1> DEFINE volumes == PodSpec(j, g, tasks).volumes
           files == FileSecrets(t)
           main == MainContainer(j, g, t, tasks)
           sc == SecretContainers(j, g, t)
<1>1. /\ \A u \in ToSet(tasks) : {VolumeName(g, v) : v \in ToSet(u.volumes)} \subseteq volumes
      /\ t.type # "proxy" /\ EnvSecrets(t) # {} => <<"vault-info-env">> \in volumes
      /\ t.type # "proxy" /\ files # <<>> =>
           <<"vault-files">> \in volumes /\ <<"vault-info-file">> \in volumes
  <2> DEFINE own == UNION {{VolumeName(g, v) : v \in ToSet(u.volumes)} : u \in ToSet(tasks)}
             env == IF \E u \in ToSet(tasks) : u.type # "proxy" /\ EnvSecrets(u) # {}
                    THEN {<<"vault-info-env">>} ELSE {}
             fs == IF \E u \in ToSet(tasks) : u.type # "proxy" /\ FileSecrets(u) # <<>>
                   THEN {<<"vault-files">>, <<"vault-info-file">>} ELSE {}
  <2>1. volumes = own \cup env \cup fs
    BY DEF PodSpec
  <2> HIDE DEF volumes
  <2>2. \A u \in ToSet(tasks) : {VolumeName(g, v) : v \in ToSet(u.volumes)} \subseteq own
    OBVIOUS
  <2>3. t.type # "proxy" /\ EnvSecrets(t) # {} => <<"vault-info-env">> \in env
    OBVIOUS
  <2>4. t.type # "proxy" /\ files # <<>> => <<"vault-files">> \in fs /\ <<"vault-info-file">> \in fs
    OBVIOUS
  <2> HIDE DEF own, env, fs, files
  <2> QED BY <2>1, <2>2, <2>3, <2>4
<1>2. \A name, u, mounts, secret : /\ Container(name, u, mounts, secret).mounts = mounts
                                   /\ Container(name, u, mounts, secret).secret = secret
  BY DEF Container
<1>3. EnvSecrets(t) # {} => t.secrets # <<>>
  <2>1. ToSet(<<>>) = {}
    BY SmallLists
  <2> QED BY <2>1 DEF EnvSecrets
<1>4. MountTasks(t, tasks) \subseteq ToSet(tasks)
  BY DEF MountTasks, Closure
<1>5. t.type # "proxy" => Provided(main, j, g, tasks)
  <2> DEFINE own == UNION {{VolumeName(g, v) : v \in ToSet(u.volumes)} : u \in MountTasks(t, tasks)}
  <2>1. /\ main.mounts = own \cup (IF files = <<>> THEN {} ELSE {<<"vault-files">>})
        /\ main.secret = IF EnvSecrets(t) = {} THEN <<>> ELSE SecretName(g, t)
    BY <1>2 DEF MainContainer
  <2>2. own \subseteq volumes
    BY <1>1, <1>4
  <2> HIDE DEF own, main, volumes, files
  <2>3. t.type # "proxy" => main.mounts \subseteq volumes
    BY <2>1, <2>2, <1>1
  <2> QED BY <2>1, <2>3, <1>3 DEF Provided, volumes
<1>6. IsList(files)
  <2> DEFINE ss == [i \in DOMAIN t.secrets |-> IF t.secrets[i].env = "" THEN <<t.secrets[i]>> ELSE <<>>]
  <2>1. IsList(ss)
    BY FieldsOfTask, ListOfAll
  <2>2. \A i \in DOMAIN ss : ss[i] = <<>> \/ \E x \in ToSet(t.secrets) : ss[i] = <<x>>
    BY DEF ToSet
  <2> HIDE DEF ss
  <2> QED BY <2>1, <2>2, SomeOf DEF FileSecrets, ss
<1>7. t.type # "proxy" => IsList(sc) /\ \A k \in ToSet(sc) : Provided(k, j, g, tasks)
  <2> SUFFICES ASSUME t.type # "proxy" PROVE IsList(sc) /\ \A k \in ToSet(sc) : Provided(k, j, g, tasks)
    OBVIOUS
  <2> DEFINE vm == Container(FullName(j, g, t) \o <<"vm">>, t, {<<"vault-info-env">>}, SecretName(g, t))
             a == IF EnvSecrets(t) = {} THEN <<>> ELSE <<vm>>
             b == [i \in DOMAIN files |-> Container(FullName(j, g, t) \o <<"vmf", i - 1>>, t,
                                            {<<"vault-files">>, <<"vault-info-file">>}, <<>>)]
  <2>1. sc = a \o b
    BY DEF SecretContainers
  <2>2. vm.mounts = {<<"vault-info-env">>} /\ vm.secret = SecretName(g, t)
    BY <1>2
  <2>3. \A i \in DOMAIN b : b[i].mounts = {<<"vault-files">>, <<"vault-info-file">>} /\ b[i].secret = <<>>
    BY <1>2
  <2>4. IsList(b) /\ DOMAIN b = DOMAIN files
    <3>1. b = [i \in DOMAIN files |-> b[i]]
      OBVIOUS
    <3> HIDE DEF b
    <3> QED BY <3>1, <1>6, ListOfAll
  <2> HIDE DEF b, vm, volumes, files
  <2>5. IsList(a) /\ \A k \in ToSet(a) : Provided(k, j, g, tasks)
    <3>1. EnvSecrets(t) # {} => Provided(vm, j, g, tasks)
      <4>1. EnvSecrets(t) # {} => vm.mounts \subseteq volumes
        BY <2>2, <1>1
      <4> QED BY <4>1, <2>2, <1>3 DEF Provided, volumes
    <3>2. a = <<>> \/ (a = <<vm>> /\ EnvSecrets(t) # {})
      OBVIOUS
    <3> HIDE DEF a
    <3> QED BY <3>1, <3>2, SmallLists
  <2>6. \A k \in ToSet(b) : Provided(k, j, g, tasks)
    <3> SUFFICES ASSUME NEW i \in DOMAIN b PROVE Provided(b[i], j, g, tasks)
      BY DEF ToSet
    <3>1. files # <<>>
      BY <2>4
    <3>2. b[i].mounts \subseteq volumes /\ b[i].secret = <<>>
      BY <3>1, <2>3, <1>1
    <3> QED BY <3>2 DEF Provided, volumes
  <2> HIDE DEF a
  <2> QED BY <2>1, <2>4, <2>5, <2>6, ListsJoin
<1> HIDE DEF main, sc
<1>8. CASE t.type = "proxy"
  BY <1>8, SmallLists DEF TaskContainers
<1>9. CASE t.type # "proxy" /\ type = "init"
  <2> DEFINE m == IF t.type = "oneshot" THEN <<main>> ELSE <<>>
  <2>1. TaskContainers(j, g, t, tasks, type) = sc \o m
    BY <1>9 DEF TaskContainers, sc, main
  <2>2. IsList(m) /\ \A k \in ToSet(m) : k = main
    BY SmallLists
  <2> HIDE DEF m
  <2> QED BY <2>1, <2>2, <1>5, <1>7, <1>9, ListsJoin
<1>10. CASE t.type # "proxy" /\ type # "init"
  <2>1. TaskContainers(j, g, t, tasks, type) = IF t.type = "service" THEN <<main>> ELSE <<>>
    BY <1>10 DEF TaskContainers, main
  <2> QED BY <2>1, <1>5, <1>10, SmallLists
<1> QED BY <1>8, <1>9, <1>10

\* A list is its front and its last element.
LEMMA FrontAndLast ==
  ASSUME NEW s, IsList(s), s # <<>>
  PROVE  ToSet(Front(s)) \subseteq ToSet(s) /\ IsList(Front(s)) /\ Last(s) \in ToSet(s)
<1>1. Len(s) \in Nat /\ DOMAIN s = 1..Len(s) /\ s \in Seq(ToSet(s)) /\ Len(s) # 0
  BY ListFacts DEF IsList
<1>2. Front(s) = [i \in 1..(Len(s) - 1) |-> s[i]] /\ Last(s) = s[Len(s)]
  <2>1. Len(s) - 1 \in Nat /\ Len(s) - 1 <= Len(s) /\ s \in Seq(ToSet(s))
    BY <1>1
  <2>2. Front(s) = SubSeq(s, 1, Len(s) - 1) /\ Last(s) = s[Len(s)]
    BY DEF Front, Last
  <2>3. SubSeq(s, 1, Len(s) - 1) = [i \in 1..(Len(s) - 1) |-> s[i]]
    BY <2>1, <1>1
  <2> QED BY <2>2, <2>3
<1>3. Len(s) \in 1..Len(s) /\ Len(s) - 1 \in Nat /\ 1..(Len(s) - 1) \subseteq 1..Len(s)
  BY <1>1
<1>4. Last(s) \in ToSet(s)
  BY <1>1, <1>2, <1>3 DEF ToSet
<1> DEFINE f == Front(s)
<1>5. f = [i \in 1..(Len(s) - 1) |-> f[i]] /\ \A i \in DOMAIN f : i \in DOMAIN s /\ f[i] = s[i]
  BY <1>1, <1>2, <1>3
<1> HIDE DEF f
<1>6. IsList(f)
  BY <1>3, <1>5, ListIsSeq
<1> QED BY <1>4, <1>5, <1>6 DEF ToSet, f

\* What the containers of a pod refer to is part of the pod.
LEMMA SpecProvides ==
  ASSUME NEW j, NEW g, NEW tasks, AreTasks(tasks)
  PROVE  LET spec == PodSpec(j, g, tasks)
         IN  \A k \in ToSet(spec.init \o spec.containers) : Provided(k, j, g, tasks)
<1> DEFINE spec == PodSpec(j, g, tasks)
           ss(type) == [i \in DOMAIN tasks |-> TaskContainers(j, g, tasks[i], tasks, type)]
           init == FlattenSeq(ss("init"))
           main == FlattenSeq(ss("main"))
           lone == main = <<>> /\ init # <<>>
<1>1. ASSUME NEW type
      PROVE  IsList(FlattenSeq(ss(type))) /\ \A k \in ToSet(FlattenSeq(ss(type))) : Provided(k, j, g, tasks)
  <2> DEFINE l == ss(type)
  <2>1. \A i \in DOMAIN tasks : /\ IsList(TaskContainers(j, g, tasks[i], tasks, type))
                                /\ \A k \in ToSet(TaskContainers(j, g, tasks[i], tasks, type)) :
                                     Provided(k, j, g, tasks)
    BY ContainersProvided DEF AreTasks, ToSet
  <2>2. l = [i \in DOMAIN tasks |-> l[i]] /\ IsList(tasks)
    BY DEF AreTasks
  <2>3. \A i \in DOMAIN tasks : IsList(l[i]) /\ \A k \in ToSet(l[i]) : Provided(k, j, g, tasks)
    BY <2>1
  <2> HIDE DEF l
  <2>4. /\ IsList(FlattenSeq(l))
        /\ \A u : u \in ToSet(FlattenSeq(l)) <=> \E i \in DOMAIN tasks : u \in ToSet(l[i])
    BY <2>2, <2>3, OfEach
  <2> QED BY <2>3, <2>4 DEF l
<1>2. /\ spec.init = IF lone THEN Front(init) ELSE init
      /\ spec.containers = IF lone THEN <<Last(init)>> ELSE main
  BY DEF PodSpec
<1>3. /\ IsList(init) /\ \A k \in ToSet(init) : Provided(k, j, g, tasks)
      /\ IsList(main) /\ \A k \in ToSet(main) : Provided(k, j, g, tasks)
  BY <1>1
<1> HIDE DEF spec, init, main
<1>4. CASE lone
  <2>1. ToSet(Front(init)) \subseteq ToSet(init) /\ IsList(Front(init)) /\ Last(init) \in ToSet(init)
    BY <1>3, <1>4, FrontAndLast
  <2>2. IsList(<<Last(init)>>) /\ ToSet(<<Last(init)>>) = {Last(init)}
    BY SmallLists
  <2>3. ToSet(Front(init) \o <<Last(init)>>) = ToSet(Front(init)) \cup {Last(init)}
    BY <2>1, <2>2, ListsJoin
  <2>4. spec.init \o spec.containers = Front(init) \o <<Last(init)>>
    BY <1>2, <1>4
  <2> QED BY <2>1, <2>3, <2>4, <1>3 DEF spec
<1>5. CASE ~lone
  <2>1. spec.init \o spec.containers = init \o main
    BY <1>2, <1>5
  <2>2. ToSet(init \o main) = ToSet(init) \cup ToSet(main)
    BY <1>3, ListsJoin
  <2> QED BY <2>1, <2>2, <1>3 DEF spec
<1> QED BY <1>4, <1>5

-----------------------------------------------------------------------------
(* What is still to be done: the tasks whose variables are to be replaced,   *)
(* and the variables of the one that is at hand.                             *)

\* The variables that are still to be replaced are of a task of the job.
TodoOK ==
  /\ stage \in {"parse", "replace", "render", "ties", "pods", "done", "refused", "panic"}
  /\ errors \in BOOLEAN
  /\ stage = "replace" => todo \in Seq(ToSet(Positions(job)))
  /\ pending # {} => stage \in {"replace", "panic"} /\ pending \subseteq Uses(job, todo)

\* Positions are of tasks of the job.
LEMMA PositionsAreAll ==
  ASSUME NEW j, IsJob(j)
  PROVE  /\ IsList(Positions(j))
         /\ \A p \in ToSet(Positions(j)) :
              p[1] \in DOMAIN j.groups /\ p[2] \in DOMAIN j.groups[p[1]].tasks
<1> DEFINE ss == [i \in DOMAIN j.groups |-> [k \in DOMAIN j.groups[i].tasks |-> <<i, k>>]]
<1>1. Positions(j) = FlattenSeq(ss)
  BY DEF Positions
<1>2. IsList(j.groups) /\ \A i \in DOMAIN j.groups : IsList(j.groups[i].tasks)
  BY TaskIsThere DEF IsJob, AreGroups
<1>3. ASSUME NEW i \in DOMAIN j.groups
      PROVE  /\ IsList(ss[i])
             /\ \A p \in ToSet(ss[i]) : p[1] = i /\ p[2] \in DOMAIN j.groups[i].tasks
  <2> DEFINE s == [k \in DOMAIN j.groups[i].tasks |-> <<i, k>>]
  <2>1. ss[i] = s
    OBVIOUS
  <2>2. IsList(s)
    BY <1>2, ListOfAll
  <2>3. DOMAIN s = DOMAIN j.groups[i].tasks /\ \A k \in DOMAIN s : s[k][1] = i /\ s[k][2] = k
    OBVIOUS
  <2> HIDE DEF s, ss
  <2>4. \A p \in ToSet(s) : p[1] = i /\ p[2] \in DOMAIN j.groups[i].tasks
    BY <2>3 DEF ToSet
  <2> QED BY <2>1, <2>2, <2>4
<1>4. ss = [i \in DOMAIN j.groups |-> ss[i]]
  OBVIOUS
<1> HIDE DEF ss
<1>5. /\ IsList(FlattenSeq(ss))
      /\ \A u : u \in ToSet(FlattenSeq(ss)) <=> \E i \in DOMAIN j.groups : u \in ToSet(ss[i])
  BY <1>2, <1>3, <1>4, OfEach
<1> QED BY <1>1, <1>3, <1>5

\* Jobs of the same shape have the same positions.
LEMMA PositionsOfLike ==
  ASSUME NEW j, NEW l, JobLike(j, l)
  PROVE  Positions(l) = Positions(j)
<1>1. DOMAIN l.groups = DOMAIN j.groups
      /\ \A i \in DOMAIN j.groups : DOMAIN l.groups[i].tasks = DOMAIN j.groups[i].tasks
  BY DEF JobLike, GroupsLike, TasksLike
<1> DEFINE s(x) == [i \in DOMAIN x.groups |-> [k \in DOMAIN x.groups[i].tasks |-> <<i, k>>]]
<1>2. s(l) = s(j)
  BY <1>1
<1>3. Positions(l) = FlattenSeq(s(l)) /\ Positions(j) = FlattenSeq(s(j))
  BY DEF Positions
<1> HIDE DEF s
<1> QED BY <1>2, <1>3

\* The tail of a sequence.
LEMMA TailOfList ==
  ASSUME NEW S, NEW s \in Seq(S), s # <<>>
  PROVE  Tail(s) \in Seq(S) /\ s[1] \in S
OBVIOUS

\* TodoOK at the start.
LEMMA TodoOKInit == Init => TodoOK
BY DEF Init, TodoOK

\* Parse keeps TodoOK: all tasks are to be replaced.
LEMMA TodoOKParse ==
  ASSUME JobOK, JobOK', TodoOK, Parse
  PROVE  TodoOK'
<1>1. CASE FileIsRefused(file)
  BY <1>1 DEF Parse, End, parseVars, TodoOK
<1>2. CASE ~FileIsRefused(file)
  <2>1. /\ stage' = "replace" /\ todo' = Positions(job') /\ pending' = Uses(job', todo')
        /\ errors' = errors
    BY <1>2 DEF Parse
  <2>2. IsList(Positions(job'))
    BY PositionsAreAll DEF JobOK
  <2>3. todo' \in Seq(ToSet(Positions(job')))
    BY <2>1, <2>2 DEF IsList
  <2> QED BY <2>1, <2>3 DEF TodoOK
<1> QED BY <1>1, <1>2

\* Each replaced variable keeps TodoOK: one variable less.
LEMMA TodoOKReplace ==
  ASSUME JobOK, TodoOK, NEW k \in pending, ReplaceVariable(k)
  PROVE  TodoOK'
<1> DEFINE a == todo[1][1]
           b == todo[1][2]
           t == TaskAt(job, todo[1])
           r == ReplaceUse(Cluster, job, job.groups[a], t, t.env[k])
           u == [t EXCEPT !.env[k] = r.value,
                          !.links = IF r.links = <<>> THEN @ ELSE AddLink(@, Head(r.links))]
<1>0. stage = "replace" /\ todo # <<>>
  BY DEF ReplaceVariable
<1>1. CASE r.end = "panic"
  BY <1>0, <1>1 DEF ReplaceVariable, End, parseVars, TodoOK
<1>2. CASE r.end # "panic"
  <2>1. /\ stage' = stage /\ todo' = todo /\ pending' = pending \ {k}
        /\ errors' = (errors \/ r.end = "error")
        /\ job' = [job EXCEPT !.groups[a].tasks[b] = u]
    BY <1>2 DEF ReplaceVariable
  <2>2. Positions(job') = Positions(job)
    BY JobOKReplace, PositionsOfLike
  <2>3. todo[1] \in ToSet(Positions(job))
    BY <1>0, TailOfList DEF TodoOK
  <2>4. a \in DOMAIN job.groups /\ b \in DOMAIN job.groups[a].tasks
    BY <2>3, PositionsAreAll DEF JobOK
  <2>5. IsTask(t) /\ "tasks" \in DOMAIN job.groups[a]
    BY <2>4, TaskIsThere DEF TaskAt, JobOK, IsJob
  <2>6. "env" \in DOMAIN t /\ "groups" \in DOMAIN job
    BY <2>5, FieldsOfTask DEF JobOK, IsJob
  <2>7. DOMAIN u.env = DOMAIN t.env
    BY <2>6
  <2> HIDE DEF t, u
  <2>8. job'.groups[a].tasks[b] = u
    BY <2>1, <2>4, <2>5, <2>6
  <2>9. Uses(job', todo') = Uses(job, todo)
    BY <1>0, <2>1, <2>7, <2>8 DEF Uses, TaskAt, t
  <2>10. errors' \in BOOLEAN
    BY <2>1, Zenon DEF TodoOK
  <2> QED BY <1>0, <2>1, <2>2, <2>9, <2>10 DEF TodoOK
<1> QED BY <1>1, <1>2

\* EndReplaceTask keeps TodoOK: one task less.
LEMMA TodoOKEndReplace ==
  ASSUME JobOK, TodoOK, EndReplaceTask
  PROVE  TodoOK'
<1> DEFINE g == job.groups[todo[1][1]]
           t == g.tasks[todo[1][2]]
<1>0. stage = "replace" /\ todo # <<>> /\ pending = {}
  BY DEF EndReplaceTask
<1>1. CASE errors
  BY <1>0, <1>1 DEF EndReplaceTask, End, parseVars, TodoOK
<1>2. CASE ~errors
  <2>1. /\ UNCHANGED <<stage, errors>> /\ todo' = Tail(todo) /\ pending' = Uses(job', todo')
        /\ job' = [job EXCEPT !.groups[todo[1][1]].tasks[todo[1][2]] = ReplaceTask(t, job, g)]
    BY <1>2 DEF EndReplaceTask
  <2>2. todo[1][1] \in DOMAIN job.groups /\ todo[1][2] \in DOMAIN g.tasks => IsTask(t)
    BY TaskIsThere DEF JobOK, IsJob
  <2>3. JobLike(job, job')
    BY <2>1, <2>2, ReplacedTaskIsLike, TaskReplaced DEF JobOK
  <2>4. Positions(job') = Positions(job)
    BY <2>3, PositionsOfLike
  <2>5. todo' \in Seq(ToSet(Positions(job)))
    BY <1>0, <2>1, TailOfList DEF TodoOK
  <2> QED BY <1>0, <2>1, <2>4, <2>5 DEF TodoOK
<1> QED BY <1>1, <1>2

\* TodoOK is inductive, relative to JobOK.
LEMMA TodoOKStep ==
  ASSUME JobOK, JobOK', TodoOK, [Next]_pipelineVars
  PROVE  TodoOK'
<1> USE DEF End, parseVars, podVars
<1>1. CASE Parse
  BY <1>1, TodoOKParse
<1>2. CASE \E k \in pending : ReplaceVariable(k)
  BY <1>2, TodoOKReplace
<1>3. CASE EndReplaceTask
  BY <1>3, TodoOKEndReplace
<1>4. CASE Validate
  <2>1. pending = {}
    BY <1>4 DEF Validate, TodoOK, Uses
  <2>2. pending' = pending /\ errors' = errors /\ stage' \in {"render", "refused"}
    BY <1>4 DEF Validate
  <2> QED BY <2>1, <2>2 DEF TodoOK
<1> DEFINE Further == /\ stage \in {"render", "ties", "pods"} /\ pending' = pending /\ errors' = errors
                      /\ stage' \in {"render", "ties", "pods", "done", "refused"}
<1>5. CASE Further
  BY <1>5 DEF TodoOK
<1>6. SkipGroup \/ RenderUnits => Further
  BY DEF SkipGroup, RenderUnits
<1>7. Done \/ OnePod \/ OwnPods => Further
  BY DEF Done, OnePod, OwnPods
<1>8. TiePods \/ EndTies \/ SortTasks => Further
  BY DEF TiePods, EndTies, SortTasks
<1>9. RenderPods \/ (\E p \in Pods : PickPod(p)) => Further
  BY DEF RenderPods, PickPod
<1>10. CASE Ended \/ UNCHANGED pipelineVars
  BY <1>10 DEF Ended, pipelineVars, TodoOK
<1> QED
  BY <1>1, <1>2, <1>3, <1>4, <1>5, <1>6, <1>7, <1>8, <1>9, <1>10 DEF Next, Steps

-----------------------------------------------------------------------------
(* What is rendered: on fleet whole slices of groups, on kubernetes all      *)
(* resources of pods, and of all groups once nothing is left to do.          *)

\* Each unit is of a slice of a group, which is rendered as a whole.
FleetOK(j, c, out) ==
  \A u \in ToSet(out) : \E g \in ToSet(j.groups) :
    /\ ~UnitsFail(j, g, c)
    /\ \E n \in 1..g.count : /\ u \in ToSet(GroupUnits(j, g, n, c))
                             /\ ToSet(GroupUnits(j, g, n, c)) \subseteq ToSet(out)

\* Each resource is of a pod of tasks of a group, which is rendered as a whole.
PodOf(pod, g) ==
  AreTasks(pod.tasks) /\ ~Duplicate(pod.tasks) /\ ToSet(pod.tasks) \subseteq ToSet(g.tasks)
KubeOK(j, out) ==
  \A u \in ToSet(out) : \E g \in ToSet(j.groups) : \E pod :
    /\ PodOf(pod, g) /\ u \in ToSet(Resources(j, g, pod))
    /\ ToSet(Resources(j, g, pod)) \subseteq ToSet(out)

\* Each task of a group is in a pod that is rendered, and each group that is not to come is.
GroupRendered(j, g, out) ==
  \A t \in ToSet(g.tasks) : \E pod :
    PodOf(pod, g) /\ t \in ToSet(pod.tasks) /\ ToSet(Resources(j, g, pod)) \subseteq ToSet(out)
AllRendered(j, td, out) ==
  \A i \in DOMAIN j.groups : \/ \E k \in DOMAIN td : td[k].group = i
                             \/ GroupRendered(j, j.groups[i], out)

\* The output, and what the groups of a job for fleet are when they are rendered.
OutputOK ==
  /\ IsList(output)
  /\ stage \in {"parse", "replace"} => output = <<>>
  /\ ~Cluster.kube => FleetOK(job, Cluster, output)
  /\ Cluster.kube => KubeOK(job, output)
  /\ Cluster.kube /\ Rendering /\ file.selected = {} => AllRendered(job, todo, output)
  /\ Rendering /\ ~Cluster.kube =>
       \A g \in ToSet(job.groups) : g.global => g.count <= Cluster.instances

\* OutputOK at the start: there is no output.
LEMMA OutputOKInit == Init => OutputOK
<1>1. IsList(<<>>) /\ ToSet(<<>>) = {}
  BY SmallLists
<1> QED BY <1>1 DEF Init, OutputOK, FleetOK, KubeOK, Rendering

\* Before anything is rendered there is nothing to say of the output.
LEMMA OutputOKEmpty ==
  ASSUME output = <<>>, output' = output, file' = file, ~Rendering'
  PROVE  OutputOK'
<1>1. IsList(<<>>) /\ ToSet(<<>>) = {}
  BY SmallLists
<1>2. FleetOK(job', Cluster', <<>>) /\ KubeOK(job', <<>>)
  BY <1>1 DEF FleetOK, KubeOK
<1> QED BY <1>1, <1>2 DEF OutputOK

\* On kubernetes each group has an entry among those to be rendered.
LEMMA RenderedHasAll ==
  ASSUME NEW j, IsJob(j), Cluster.kube, NEW i \in DOMAIN j.groups
  PROVE  \E k \in DOMAIN Rendered(j) : Rendered(j)[k].group = i
<1> DEFINE one == [k \in DOMAIN j.groups |-> [group |-> k, slice |-> 1]]
           ss == [n \in 1..1 |-> [k \in DOMAIN j.groups |-> [group |-> k, slice |-> n]]]
<1>1. Rendered(j) = FlattenSeq(ss)
  BY DEF Rendered
<1>2. IsList(one) /\ one[i].group = i /\ one[i] \in ToSet(one)
  <2>1. one = [k \in DOMAIN j.groups |-> one[k]] /\ one[i].group = i /\ DOMAIN one = DOMAIN j.groups
    OBVIOUS
  <2>2. IsList(j.groups)
    BY DEF IsJob, AreGroups
  <2> HIDE DEF one
  <2> QED BY <2>1, <2>2, ListOfAll DEF ToSet
<1>3. ss[1] = one /\ 1 \in 1..1 /\ DOMAIN ss = 1..1 /\ \A n \in 1..1 : n = 1
  OBVIOUS
<1>4. IsList(ss)
  <2>1. ss = [n \in 1..1 |-> ss[n]] /\ 1 \in Nat
    OBVIOUS
  <2> HIDE DEF ss
  <2> QED BY <2>1, ListIsSeq
<1> HIDE DEF ss, one
<1>5. \A n \in DOMAIN ss : IsList(ss[n])
  BY <1>2, <1>3
<1>6. one[i] \in ToSet(FlattenSeq(ss))
  BY <1>2, <1>3, <1>4, <1>5, ListsFlatten
<1> QED BY <1>1, <1>2, <1>6 DEF ToSet

\* Validate keeps OutputOK: everything is to be rendered, and on fleet no global group has more
\* instances than there are machines.
LEMMA OutputOKValidate ==
  ASSUME JobOK, JobOK', OutputOK, Validate
  PROVE  OutputOK'
<1>0. stage = "replace" /\ output = <<>> /\ output' = <<>> /\ file' = file
  BY DEF Validate, OutputOK
<1>1. CASE ~JobIsValid(job')
  <2>1. ~Rendering'
    BY <1>1 DEF Validate, Rendering
  <2> QED BY <1>0, <2>1, OutputOKEmpty
<1>2. CASE JobIsValid(job')
  <2>1. todo' = Rendered(job') /\ Cluster' = Cluster
    BY <1>0, <1>2 DEF Validate, Cluster
  <2>2. IsList(<<>>) /\ ToSet(<<>>) = {}
    BY SmallLists
  <2>3. FleetOK(job', Cluster', <<>>) /\ KubeOK(job', <<>>)
    BY <2>2 DEF FleetOK, KubeOK
  <2>4. Cluster.kube => AllRendered(job', todo', <<>>)
    BY <2>1, RenderedHasAll DEF AllRendered, JobOK
  <2>5. ASSUME ~Cluster.kube
        PROVE  \A g \in ToSet(job'.groups) : g.global => g.count <= Cluster.instances
    <3>1. PICK l \in Link(job) : job' = NormalizeTasks(OptimizeFor(l, Cluster), Cluster)
      BY DEF Validate
    <3>2. job' = OptimizeFor(l, Cluster)
      BY <2>5, <3>1 DEF NormalizeTasks
    <3>3. IsJob(l) /\ Cluster.instances \in Nat
      BY LinkedIsJob, FileAssumption DEF FileAssumption, JobOK, Cluster
    <3> DEFINE Fitted(g) == IF g.global /\ g.count > Cluster.instances
                            THEN [g EXCEPT !.count = Cluster.instances] ELSE g
    <3>4. job'.groups = [i \in DOMAIN l.groups |-> Fitted(l.groups[i])]
      BY <3>2, <3>3 DEF OptimizeFor, EachGroup, IsJob
    <3>5. ASSUME NEW i \in DOMAIN l.groups
          PROVE  Fitted(l.groups[i]).global => Fitted(l.groups[i]).count <= Cluster.instances
      <4>1. {"count", "global"} \subseteq DOMAIN l.groups[i] /\ l.groups[i].count \in Int
        BY <3>3, TaskIsThere DEF IsJob
      <4> QED BY <3>3, <4>1
    <3> HIDE DEF Fitted
    <3> QED BY <3>4, <3>5 DEF ToSet
  <2> QED BY <1>0, <2>1, <2>2, <2>3, <2>4, <2>5 DEF OutputOK, Validate
<1> QED BY <1>1, <1>2

\* The output of a fleet grows by the units of a group in a slice.
LEMMA OutputOKRenderUnits ==
  ASSUME JobOK, OutputOK, RenderUnits
  PROVE  OutputOK'
<1>0. /\ stage = "render" /\ ~Cluster.kube /\ todo # <<>> /\ file' = file /\ job' = job
      /\ Cluster' = Cluster /\ stage' \in {"render", "refused"}
  BY DEF RenderUnits, End, parseVars, Cluster
<1>1. CASE output' = output
  BY <1>0, <1>1 DEF OutputOK, Rendering
<1>2. CASE output' # output
  <2> DEFINE n == todo[1].slice
             units == GroupUnits(job, Group, n, Cluster)
  <2>1. output' = output \o units /\ ~(n > Group.count) /\ ~UnitsFail(job, Group, Cluster)
    <3>1. ~(n <= Group.count /\ UnitsFail(job, Group, Cluster))
      BY <1>2 DEF RenderUnits, End
    <3>2. output' = IF n > Group.count THEN output ELSE output \o units
      BY <3>1 DEF RenderUnits
    <3>3. n \in Nat /\ Group.count \in Int
      <4>1. todo[1] \in Entries
        BY <1>0 DEF JobOK, Rendering
      <4> QED BY <1>0, <4>1, GroupOK DEF Entries, IsGroup, Rendering
    <3> HIDE DEF n, units
    <3> QED BY <3>1, <3>2, <3>3, <1>2
  <2>2. /\ Group \in ToSet(job.groups) /\ AreTasks(Group.tasks) /\ Group.count \in Int
    BY <1>0, GroupOK DEF IsGroup, Rendering
  <2>3. n \in 1..Group.count
    <3>1. n \in Nat \ {0}
      <4>1. todo[1] \in Entries
        BY <1>0 DEF JobOK, Rendering
      <4> QED BY <4>1 DEF Entries
    <3> QED BY <2>1, <2>2, <3>1
  <2>4. IsList(units)
    BY <2>2, UnitsOfGroup
  <2>5. IsList(output') /\ ToSet(output') = ToSet(output) \cup ToSet(units)
    BY <2>1, <2>4, ListsJoin DEF OutputOK
  <2>6. FleetOK(job, Cluster, output')
    <3>1. ASSUME NEW u \in ToSet(output)
          PROVE  \E g \in ToSet(job.groups) :
                   /\ ~UnitsFail(job, g, Cluster)
                   /\ \E m \in 1..g.count : /\ u \in ToSet(GroupUnits(job, g, m, Cluster))
                                            /\ ToSet(GroupUnits(job, g, m, Cluster)) \subseteq ToSet(output')
      BY <1>0, <2>5 DEF OutputOK, FleetOK
    <3>2. ASSUME NEW u \in ToSet(units)
          PROVE  \E g \in ToSet(job.groups) :
                   /\ ~UnitsFail(job, g, Cluster)
                   /\ \E m \in 1..g.count : /\ u \in ToSet(GroupUnits(job, g, m, Cluster))
                                            /\ ToSet(GroupUnits(job, g, m, Cluster)) \subseteq ToSet(output')
      BY <2>1, <2>2, <2>3, <2>5
    <3> QED BY <2>5, <3>1, <3>2 DEF FleetOK
  <2> QED BY <1>0, <2>5, <2>6 DEF OutputOK, Rendering
<1> QED BY <1>1, <1>2

\* The pods that are rendered are the sorted ones.
LEMMA PodListIs ==
  ASSUME IsList(Group.tasks)
  PROVE  /\ IsList(PodList)
         /\ \A pod \in ToSet(PodList) : \E p \in DOMAIN sorted : pod.tasks = sorted[p]
         /\ \A p \in DOMAIN sorted : p \in DOMAIN Group.tasks =>
              \E pod \in ToSet(PodList) : pod.tasks = sorted[p]
<1> DEFINE Name(p) == IF Group.restart = "all" THEN Group.name ELSE PodName(Group, sorted[p])
           ss == [p \in DOMAIN Group.tasks |->
                    IF Sorted(p) THEN <<[name |-> Name(p), tasks |-> sorted[p]]>> ELSE <<>>]
<1>1. PodList = FlattenSeq(ss)
  BY DEF PodList
<1>2. ASSUME NEW p \in DOMAIN Group.tasks
      PROVE  /\ IsList(ss[p])
             /\ \A pod \in ToSet(ss[p]) : p \in DOMAIN sorted /\ pod.tasks = sorted[p]
             /\ p \in DOMAIN sorted => \E pod \in ToSet(ss[p]) : pod.tasks = sorted[p]
  <2> DEFINE x == [name |-> Name(p), tasks |-> sorted[p]]
  <2>1. ss[p] = (IF p \in DOMAIN sorted THEN <<x>> ELSE <<>>) /\ x.tasks = sorted[p]
    BY DEF Sorted
  <2> HIDE DEF x, ss
  <2> QED BY <2>1, SmallLists
<1>3. ss = [p \in DOMAIN Group.tasks |-> ss[p]]
  OBVIOUS
<1> HIDE DEF ss
<1>4. /\ IsList(FlattenSeq(ss))
      /\ \A u : u \in ToSet(FlattenSeq(ss)) <=> \E p \in DOMAIN Group.tasks : u \in ToSet(ss[p])
  BY <1>2, <1>3, OfEach
<1> QED BY <1>1, <1>2, <1>4

\* Whatever else a step does, it leaves the job and the output as they are.
LEMMA OutputOKSame ==
  ASSUME OutputOK, UNCHANGED <<file, job, output>>, Rendering, stage' \notin {"parse", "replace"},
         Rendering' /\ Cluster.kube /\ file.selected = {} => todo' = todo
  PROVE  OutputOK'
BY DEF OutputOK, Cluster, Rendering

\* On kubernetes the output grows by the resources of the pods of a group.
LEMMA OutputOKRenderPods ==
  ASSUME JobOK, PodsOK, OutputOK, RenderPods
  PROVE  OutputOK'
<1>0. /\ stage = "pods" /\ todo # <<>> /\ Cluster.kube /\ UNCHANGED <<file, job>>
      /\ Rendering /\ Cluster' = Cluster /\ sorting = NoPod /\ \A p \in Pods : Sorted(p)
      /\ stage' \in {"render", "refused"}
  BY DEF RenderPods, End, parseVars, Cluster, JobOK, Rendering
<1>1. CASE stage' = "refused"
  <2>1. output' = output
    BY <1>1 DEF RenderPods, End
  <2> QED BY <1>0, <1>1, <2>1, OutputOKSame DEF Rendering
<1>2. CASE stage' = "render"
  <2> DEFINE g == Group
             ss == [i \in DOMAIN PodList |-> Resources(job, Group, PodList[i])]
             new == FlattenSeq(ss)
  <2>1. output' = output \o new /\ todo' = Tail(todo)
    BY <1>2 DEF RenderPods, End
  <2>2. g \in ToSet(job.groups) /\ AreTasks(g.tasks) /\ GroupIsValid(g) /\ IsList(g.tasks)
    BY <1>0, GroupOK DEF IsGroup, AreTasks
  <2>3. ASSUME NEW p \in DOMAIN sorted
        PROVE  /\ AreTasks(sorted[p]) /\ ~Duplicate(sorted[p])
               /\ ToSet(sorted[p]) \subseteq ToSet(g.tasks)
    <3>1. CASE g.restart = "all"
      <4>1. sorted = <<g.tasks>>
        BY <1>0, <3>1 DEF PodsOK
      <4>2. sorted[p] = g.tasks
        BY <4>1
      <4> QED BY <4>2, <2>2 DEF GroupIsValid
    <3>2. CASE g.restart # "all"
      <4>1. sorted[p] \in Seq(ToSet(g.tasks)) /\ ~Duplicate(sorted[p])
        BY <1>0, <3>2 DEF PodsOK, SortedOK, Holds
      <4>2. IsList(sorted[p]) /\ ToSet(sorted[p]) \subseteq ToSet(g.tasks)
        BY <4>1, SeqIsList
      <4> QED BY <4>1, <4>2, <2>2 DEF AreTasks
    <3> QED BY <3>1, <3>2
  <2>4. /\ IsList(PodList)
        /\ \A pod \in ToSet(PodList) : PodOf(pod, g)
        /\ \A p \in DOMAIN sorted : p \in DOMAIN g.tasks =>
             \E pod \in ToSet(PodList) : pod.tasks = sorted[p]
    BY <2>2, <2>3, PodListIs DEF PodOf
  <2>5. /\ IsList(new)
        /\ \A u : u \in ToSet(new) <=> \E i \in DOMAIN PodList : u \in ToSet(ss[i])
    <3>1. \A i \in DOMAIN PodList : IsList(ss[i])
      <4>1. \A i \in DOMAIN PodList : IsList(PodList[i].tasks)
        BY <2>4 DEF PodOf, AreTasks, ToSet
      <4> QED BY <4>1, ResourcesAre
    <3>2. ss = [i \in DOMAIN PodList |-> ss[i]]
      OBVIOUS
    <3> HIDE DEF ss
    <3> QED BY <2>4, <3>1, <3>2, OfEach
  <2>6. \A i \in DOMAIN PodList : ss[i] = Resources(job, g, PodList[i]) /\ PodList[i] \in ToSet(PodList)
    BY DEF ToSet
  <2> HIDE DEF new, ss, g
  <2>7. IsList(output') /\ ToSet(output') = ToSet(output) \cup ToSet(new)
    BY <2>1, <2>5, ListsJoin DEF OutputOK
  <2>8. \A pod \in ToSet(PodList) : ToSet(Resources(job, g, pod)) \subseteq ToSet(output')
    <3> SUFFICES ASSUME NEW i \in DOMAIN PodList
                 PROVE  ToSet(Resources(job, g, PodList[i])) \subseteq ToSet(output')
      BY DEF ToSet
    <3> QED BY <2>5, <2>6, <2>7
  <2>9. KubeOK(job, output')
    <3>1. ASSUME NEW u \in ToSet(output)
          PROVE  \E h \in ToSet(job.groups) : \E pod :
                   /\ PodOf(pod, h) /\ u \in ToSet(Resources(job, h, pod))
                   /\ ToSet(Resources(job, h, pod)) \subseteq ToSet(output')
      BY <1>0, <2>7 DEF OutputOK, KubeOK
    <3>2. ASSUME NEW u \in ToSet(new)
          PROVE  \E h \in ToSet(job.groups) : \E pod :
                   /\ PodOf(pod, h) /\ u \in ToSet(Resources(job, h, pod))
                   /\ ToSet(Resources(job, h, pod)) \subseteq ToSet(output')
      <4>1. PICK i \in DOMAIN PodList : u \in ToSet(ss[i])
        BY <2>5
      <4> QED BY <4>1, <2>2, <2>4, <2>6, <2>8
    <3> QED BY <2>7, <3>1, <3>2 DEF KubeOK
  <2>10. GroupRendered(job, g, output')
    <3> SUFFICES ASSUME NEW t \in ToSet(g.tasks)
                 PROVE  \E pod : /\ PodOf(pod, g) /\ t \in ToSet(pod.tasks)
                                 /\ ToSet(Resources(job, g, pod)) \subseteq ToSet(output')
      BY DEF GroupRendered
    <3>1. \E p \in DOMAIN sorted : p \in DOMAIN g.tasks /\ t \in ToSet(sorted[p])
      <4>1. CASE g.restart = "all"
        <5>1. sorted = <<g.tasks>>
          BY <1>0, <4>1 DEF PodsOK, g
        <5>2. 1 \in DOMAIN sorted /\ sorted[1] = g.tasks
          BY <5>1
        <5>3. 1 \in DOMAIN g.tasks
          <6>1. Len(g.tasks) \in Nat /\ DOMAIN g.tasks = 1..Len(g.tasks)
            BY <2>2, ListFacts
          <6>2. DOMAIN g.tasks # {}
            BY DEF ToSet
          <6> QED BY <6>1, <6>2
        <5> QED BY <5>2, <5>3
      <4>2. CASE g.restart # "all"
        <5> DEFINE p == pods.of[t.name]
        <5>1. Parts(g, pods) /\ SortedOK(g, pods, sorted)
          BY <1>0, <4>2 DEF PodsOK, g
        <5>2. t.name \in DOMAIN pods.of /\ p \in DOMAIN g.tasks
          BY <5>1 DEF Parts, Names
        <5>3. p \in DOMAIN sorted
          BY <5>2, <1>0 DEF Pods, Sorted
        <5>4. t.name \in Names(sorted[p]) /\ sorted[p] \in Seq(ToSet(g.tasks))
          BY <5>1, <5>2, <5>3 DEF SortedOK, Holds, TasksOf
        <5>5. PICK x \in ToSet(sorted[p]) : x.name = t.name
          BY <5>4 DEF Names
        <5>6. x \in ToSet(g.tasks)
          BY <2>3, <5>3 DEF g
        <5>7. x = t
          BY <2>2, <5>5, <5>6 DEF GroupIsValid, Duplicate, ToSet
        <5> QED BY <5>2, <5>3, <5>5, <5>7
      <4> QED BY <4>1, <4>2
    <3>2. PICK p \in DOMAIN sorted : p \in DOMAIN g.tasks /\ t \in ToSet(sorted[p])
      BY <3>1
    <3> QED BY <2>4, <2>8, <3>2
  <2>11. ASSUME AllRendered(job, todo, output)
         PROVE  AllRendered(job, Tail(todo), output')
    <3> SUFFICES ASSUME NEW i \in DOMAIN job.groups
                 PROVE  \/ \E k \in DOMAIN Tail(todo) : Tail(todo)[k].group = i
                        \/ GroupRendered(job, job.groups[i], output')
      BY DEF AllRendered
    <3>1. CASE \E k \in DOMAIN todo : todo[k].group = i
      <4>1. PICK k \in DOMAIN todo : todo[k].group = i
        BY <3>1
      <4>2. CASE k = 1
        BY <4>1, <4>2, <2>10 DEF g, Group
      <4>3. CASE k # 1
        <5>1. todo \in Seq(Entries)
          BY <1>0 DEF JobOK
        <5>2. k - 1 \in DOMAIN Tail(todo) /\ Tail(todo)[k - 1] = todo[k]
          BY <4>1, <4>3, <5>1, <1>0
        <5> QED BY <4>1, <5>2
      <4> QED BY <4>2, <4>3
    <3>2. CASE GroupRendered(job, job.groups[i], output)
      BY <3>2, <2>7 DEF GroupRendered
    <3>3. \/ \E k \in DOMAIN todo : todo[k].group = i
          \/ GroupRendered(job, job.groups[i], output)
      BY <2>11 DEF AllRendered
    <3> QED BY <3>1, <3>2, <3>3
  <2> QED BY <1>0, <1>2, <2>1, <2>7, <2>9, <2>11 DEF OutputOK, Rendering
<1> QED BY <1>0, <1>1, <1>2

\* OutputOK is inductive, relative to JobOK and PodsOK.
LEMMA OutputOKStep ==
  ASSUME JobOK, JobOK', PodsOK, OutputOK, [Next]_pipelineVars
  PROVE  OutputOK'
<1> USE DEF End, parseVars, podVars
<1>1. CASE Parse \/ EndReplaceTask \/ \E k \in pending : ReplaceVariable(k)
  <2>1. /\ stage \in {"parse", "replace"} /\ UNCHANGED <<file, output>>
        /\ stage' \in {"replace", "refused", "panic"}
    <3>1. Parse \/ EndReplaceTask => /\ stage \in {"parse", "replace"} /\ UNCHANGED <<file, output>>
                                     /\ stage' \in {"replace", "refused", "panic"}
      BY DEF Parse, EndReplaceTask
    <3>2. (\E k \in pending : ReplaceVariable(k))
            => /\ stage \in {"parse", "replace"} /\ UNCHANGED <<file, output>>
               /\ stage' \in {"replace", "refused", "panic"}
      BY DEF ReplaceVariable
    <3> QED BY <1>1, <3>1, <3>2
  <2> QED BY <2>1, OutputOKEmpty DEF OutputOK, Rendering
<1>2. CASE Validate
  BY <1>2, OutputOKValidate
<1>3. CASE RenderUnits
  BY <1>3, OutputOKRenderUnits
<1>4. CASE RenderPods
  BY <1>4, OutputOKRenderPods
<1> DEFINE Same == /\ UNCHANGED <<file, job, output>> /\ Rendering /\ stage' \notin {"parse", "replace"}
                   /\ Rendering' /\ Cluster.kube /\ file.selected = {} => todo' = todo
<1>5. CASE Same
  BY <1>5, OutputOKSame
<1>6. SkipGroup => Same
  BY DEF SkipGroup, Included, Rendering
<1>7. Done \/ OnePod \/ OwnPods => Same
  BY DEF Done, OnePod, OwnPods, Rendering
<1>8. TiePods \/ EndTies \/ SortTasks => Same
  BY DEF TiePods, EndTies, SortTasks, Rendering
<1>9. (\E p \in Pods : PickPod(p)) => Same
  BY DEF PickPod, Rendering
<1>10. CASE Ended \/ UNCHANGED pipelineVars
  <2>1. UNCHANGED <<file, stage, job, todo, output>>
    BY <1>10 DEF Ended, pipelineVars
  <2> QED BY <2>1 DEF OutputOK, Cluster, Rendering
<1> QED
  BY <1>1, <1>2, <1>3, <1>4, <1>5, <1>6, <1>7, <1>8, <1>9, <1>10 DEF Next, Steps

-----------------------------------------------------------------------------
(* The dependencies of the job are those of the file.                        *)

\* The dependencies are a list from the time the file is parsed.
HasDeps(j) == "deps" \in DOMAIN j /\ IsList(j.deps)
DepsOK == stage = "replace" \/ Rendering => HasDeps(job)

\* Validate keeps the dependencies.
LEMMA DepsOKValidate ==
  ASSUME JobOK, DepsOK, Validate
  PROVE  HasDeps(job')
<1>1. stage = "replace" /\ HasDeps(job)
  BY DEF Validate, DepsOK
<1>2. PICK l \in Link(job) : job' = NormalizeTasks(OptimizeFor(l, Cluster), Cluster)
  BY DEF Validate
<1>3. HasDeps(l)
  <2>1. \E gs : l = [job EXCEPT !.groups = gs]
    BY <1>2 DEF Link
  <2> QED BY <2>1, <1>1 DEF HasDeps
<1>4. HasDeps(OptimizeFor(l, Cluster))
  BY <1>3 DEF HasDeps, OptimizeFor, EachGroup
<1> QED BY <1>2, <1>4 DEF HasDeps, NormalizeTasks, EachTask, EachGroup

\* DepsOK is inductive.
LEMMA DepsOKStep ==
  ASSUME JobOK, DepsOK, [Next]_pipelineVars
  PROVE  DepsOK'
<1> USE DEF End, parseVars, podVars
<1>1. CASE Parse
  <2>1. CASE FileIsRefused(file)
    BY <1>1, <2>1 DEF Parse, DepsOK, Rendering
  <2>2. CASE ~FileIsRefused(file)
    <3> DEFINE j == ParseJob(file)
    <3>1. job' = SetDefaults(j, Cluster)
      BY <1>1, <2>2 DEF Parse
    <3>2. "deps" \in DOMAIN j
          /\ j.deps = [i \in DOMAIN file.deps |-> [file.deps[i] EXCEPT !.private = ParseFrontends(@)]]
      BY DEF ParseJob
    <3>3. IsList(file.deps)
      BY FileAssumption DEF FileAssumption, JobOK
    <3> HIDE DEF j
    <3>4. HasDeps(j)
      <4> DEFINE d == j.deps
      <4>1. d = [i \in DOMAIN file.deps |-> d[i]]
        BY <3>2
      <4> HIDE DEF d
      <4>2. IsList(d)
        BY <4>1, <3>3, ListOfAll
      <4> QED BY <3>2, <4>2 DEF d, HasDeps
    <3>5. HasDeps(job')
      BY <3>1, <3>4 DEF HasDeps, SetDefaults, EachTask, EachGroup
    <3> QED BY <3>5 DEF DepsOK
  <2> QED BY <2>1, <2>2
<1>2. CASE \E k \in pending : ReplaceVariable(k)
  <2>1. PICK k \in pending : ReplaceVariable(k)
    BY <1>2
  <2>2. HasDeps(job)
    BY <2>1 DEF ReplaceVariable, DepsOK
  <2>3. CASE stage' = "panic"
    BY <2>3 DEF DepsOK, Rendering
  <2>4. CASE stage' # "panic"
    <3>1. \E gs : job' = [job EXCEPT !.groups = gs]
      <4> DEFINE g == job.groups[todo[1][1]]
                 t == TaskAt(job, todo[1])
                 r == ReplaceUse(Cluster, job, g, t, t.env[k])
                 u == [t EXCEPT !.env[k] = r.value,
                                !.links = IF r.links = <<>> THEN @ ELSE AddLink(@, Head(r.links))]
      <4>0. job' = [job EXCEPT !.groups[todo[1][1]].tasks[todo[1][2]] = u]
        BY <2>1, <2>4 DEF ReplaceVariable
      <4> HIDE DEF u
      <4>1. \E a, b, x : job' = [job EXCEPT !.groups[a].tasks[b] = x]
        BY <4>0
      <4> QED BY <4>1
    <3> QED BY <3>1, <2>2 DEF HasDeps, DepsOK
  <2> QED BY <2>3, <2>4
<1>3. CASE EndReplaceTask
  <2>2. HasDeps(job)
    BY <1>3 DEF EndReplaceTask, DepsOK
  <2>3. CASE stage' = "refused"
    BY <2>3 DEF DepsOK, Rendering
  <2>4. CASE stage' # "refused"
    <3> DEFINE g == job.groups[todo[1][1]]
               t == ReplaceTask(job.groups[todo[1][1]].tasks[todo[1][2]], job, g)
    <3>1. \E gs : job' = [job EXCEPT !.groups = gs]
      <4>1. \E a, b, t1 : job' = [job EXCEPT !.groups[a].tasks[b] = t1]
        BY <1>3, <2>4 DEF EndReplaceTask
      <4> QED BY <4>1
    <3> QED BY <3>1, <2>2 DEF HasDeps, DepsOK
  <2> QED BY <2>3, <2>4
<1>4. CASE Validate
  BY <1>4, DepsOKValidate DEF DepsOK
<1>5. CASE RenderUnits
  BY <1>5 DEF RenderUnits, DepsOK, Rendering
<1>6. CASE Done
  BY <1>6 DEF Done, DepsOK, Rendering
<1>7. CASE SkipGroup
  BY <1>7 DEF SkipGroup, DepsOK, Rendering
<1>8. CASE OnePod
  BY <1>8 DEF OnePod, DepsOK, Rendering
<1>9. CASE OwnPods
  BY <1>9 DEF OwnPods, DepsOK, Rendering
<1>10. CASE TiePods
  BY <1>10 DEF TiePods, DepsOK, Rendering
<1>11. CASE EndTies
  BY <1>11 DEF EndTies, DepsOK, Rendering
<1>12. CASE SortTasks
  BY <1>12 DEF SortTasks, DepsOK, Rendering
<1>13. CASE RenderPods
  BY <1>13 DEF RenderPods, DepsOK, Rendering
<1>14. CASE \E p \in Pods : PickPod(p)
  BY <1>14 DEF PickPod, DepsOK, Rendering
<1>15. CASE UNCHANGED pipelineVars
  BY <1>15 DEF pipelineVars, DepsOK, Rendering
<1> QED
  BY <1>1, <1>2, <1>3, <1>4, <1>5, <1>6, <1>7, <1>8, <1>9, <1>10, <1>11, <1>12, <1>13, <1>14,
     <1>15 DEF Next, Steps, Ended

\* A link leads to a task of the job or to a dependency, which is of another job.
LEMMA ResolvedIsThere ==
  ASSUME NEW j, IsJob(j), HasDeps(j), NEW ln
  PROVE  LET r == Resolve(ln, j)
         IN  /\ r.to = "task" => r.group \in ToSet(j.groups) /\ r.task \in ToSet(r.group.tasks)
             /\ r.to = "dependency" => DependencyDNSName(r.dep).ns # j.name
<1> DEFINE p == ParseLink(ln)
           r == Resolve(ln, j)
           inDeps == p.job # j.name /\ Known(j.deps, ln)
           inJob == /\ p.job = j.name /\ Known(j.groups, p.group)
                    /\ Known(Get(j.groups, p.group).tasks, p.task)
<1>1. r = CASE ~p.ok -> [to |-> "nothing"]
            [] p.ok /\ inDeps -> [to |-> "dependency", dep |-> Get(j.deps, ln)]
            [] p.ok /\ inJob -> [to |-> "task", group |-> Get(j.groups, p.group),
                                 task |-> Get(Get(j.groups, p.group).tasks, p.task)]
            [] OTHER -> [to |-> "nothing"]
  BY Zenon DEF Resolve
<1> HIDE DEF r, p
<1>2. CASE p.ok /\ inDeps
  <2>1. r.to = "dependency" /\ r.dep = Get(j.deps, ln)
    BY <1>1, <1>2
  <2>2. Get(j.deps, ln).name = ln
    BY <1>2, IndexFinds DEF HasDeps, Known, Get
  <2>3. DependencyDNSName(r.dep).ns = p.job
    BY <2>1, <2>2 DEF DependencyDNSName, p
  <2> QED BY <1>2, <2>1, <2>3 DEF r
<1>3. CASE p.ok /\ inJob
  <2> DEFINE g == Get(j.groups, p.group)
  <2>1. r.to = "task" /\ r.group = g /\ r.task = Get(g.tasks, p.task)
    BY <1>1, <1>3
  <2>2. IsList(j.groups) /\ \A x \in ToSet(j.groups) : IsList(x.tasks)
    BY DEF IsJob, AreGroups, IsGroup, AreTasks
  <2>3. g \in ToSet(j.groups)
    BY <1>3, <2>2, IndexFinds, ListFacts DEF Known, Get, ToSet
  <2>4. Get(g.tasks, p.task) \in ToSet(g.tasks)
    BY <1>3, <2>2, <2>3, IndexFinds, ListFacts DEF Known, Get, ToSet
  <2> QED BY <2>1, <2>3, <2>4 DEF r
<1>4. CASE ~(p.ok /\ inDeps) /\ ~(p.ok /\ inJob)
  BY <1>1, <1>4 DEF r
<1> QED BY <1>2, <1>3, <1>4

-----------------------------------------------------------------------------
(* The invariant of the whole pipeline.                                      *)

\* Nothing is left to do in the end.
DoneOK == stage = "done" => todo = <<>>

\* All parts of the invariant.
PipelineInv == JobOK /\ PodsOK /\ TodoOK /\ DepsOK /\ OutputOK /\ DoneOK

\* DoneOK is inductive.
LEMMA DoneOKStep ==
  ASSUME DoneOK, [Next]_pipelineVars
  PROVE  DoneOK'
<1> USE DEF DoneOK, End, parseVars, podVars
<1>1. CASE Parse \/ EndReplaceTask \/ Validate
  BY <1>1 DEF Parse, EndReplaceTask, Validate
<1>2. CASE RenderUnits \/ Done \/ SkipGroup
  BY <1>2 DEF RenderUnits, Done, SkipGroup
<1>3. CASE OnePod \/ OwnPods \/ TiePods \/ EndTies \/ SortTasks \/ RenderPods
  BY <1>3 DEF OnePod, OwnPods, TiePods, EndTies, SortTasks, RenderPods
<1>4. CASE \E k \in pending : ReplaceVariable(k)
  BY <1>4 DEF ReplaceVariable
<1>5. CASE \E p \in Pods : PickPod(p)
  BY <1>5 DEF PickPod
<1>6. CASE Ended \/ UNCHANGED pipelineVars
  BY <1>6 DEF Ended, pipelineVars
<1> QED BY <1>1, <1>2, <1>3, <1>4, <1>5, <1>6 DEF Next, Steps

\* What the pipeline keeps from stage to stage: the job keeps the shape of the file and is
\* valid once it is rendered, the pods of the group at hand are made of its ties and sorted
\* up to where sortTasks has come, and the output is made of whole slices or whole pods.
THEOREM PipelineKeeps == Spec => []PipelineInv
<1>1. Init => PipelineInv
  <2>1. Init => DepsOK
    BY DEF Init, DepsOK, Rendering
  <2>2. Init => DoneOK
    BY DEF Init, DoneOK
  <2> QED BY <2>1, <2>2, JobOKInit, PodsOKInit, TodoOKInit, OutputOKInit DEF PipelineInv
<1>2. PipelineInv /\ [Next]_pipelineVars => PipelineInv'
  <2> SUFFICES ASSUME JobOK, PodsOK, TodoOK, DepsOK, OutputOK, DoneOK, [Next]_pipelineVars
               PROVE  PipelineInv'
    BY DEF PipelineInv
  <2>1. JobOK'
    BY JobOKStep
  <2>2. PodsOK' /\ TodoOK' /\ DepsOK' /\ OutputOK' /\ DoneOK'
    BY <2>1, PodsOKStep, TodoOKStep, DepsOKStep, OutputOKStep, DoneOKStep
  <2> QED BY <2>1, <2>2 DEF PipelineInv
<1> QED BY <1>1, <1>2, PTL DEF Spec

-----------------------------------------------------------------------------
(* The units of a slice by their names.                                      *)

\* The kind in the name of the unit in place k, and the part in that of its container.
KindAt(t, k) == IF k = Len(Kinds(t)) + 1 THEN <<"mn">> ELSE Kinds(t)[k]
PartAt(t, k) == IF k = Len(Kinds(t)) + 1 THEN <<>> ELSE Kinds(t)[k]

\* Unit u is named and placed like the unit of task t in place k of its chain.
NamedAs(u, j, g, t, n, c, k) ==
  /\ u.name = UnitName(j, g, t, KindAt(t, k), n, "service")
  /\ u.container = <<ContainerName(j, g, t, n, PartAt(t, k))>>
  /\ u.slice = n
  /\ u.conflicts = DefaultUnit(j, g, t, KindAt(t, k), n, c).conflicts
  /\ u.instance = DefaultUnit(j, g, t, KindAt(t, k), n, c).instance

\* The units of a chain before anything is joined: each has its kind in its name and that of
\* its container, and only the main unit needs and uses others.
LEMMA BaseIs ==
  ASSUME NEW j, NEW g, NEW t, IsTask(t), NEW n, NEW c, NEW k \in DOMAIN Base(j, g, t, n, c)
  PROVE  LET u == Base(j, g, t, n, c)[k]
             last == k = Len(Kinds(t)) + 1
         IN  /\ k \in 1..Len(Kinds(t)) + 1 /\ Len(Kinds(t)) \in Nat
             /\ ~last => k \in DOMAIN Kinds(t)
             /\ NamedAs(u, j, g, t, n, c, k)
             /\ ~last => /\ u.requires = {} /\ u.after = {} /\ u.uses = {} /\ u.reads = {}
                         /\ u.records = <<>>
             /\ last => u = MainUnit(j, g, t, n, SideNames(j, g, t, n), c)
<1> DEFINE b == Base(j, g, t, n, c)
           u == b[k]
<1>1. IsList(Kinds(t)) /\ Len(Kinds(t)) \in Nat /\ DOMAIN Kinds(t) = 1..Len(Kinds(t))
  BY KindsDiffer, ListFacts
<1>2. IsList(b) /\ Len(b) = Len(Kinds(t)) + 1
  BY ChainOf
<1>3. DOMAIN b = 1..Len(b)
  BY <1>2, ListFacts
<1>4. k \in 1..Len(Kinds(t)) + 1
  BY <1>2, <1>3
<1>5. CASE k # Len(Kinds(t)) + 1
  <2>1. k \in DOMAIN Kinds(t) /\ KindAt(t, k) = Kinds(t)[k] /\ PartAt(t, k) = Kinds(t)[k]
    BY <1>1, <1>4, <1>5 DEF KindAt, PartAt
  <2>2. u = Side(j, g, t, Kinds(t)[k], n, c)
    BY <2>1, ChainOf
  <2> HIDE DEF u
  <2> QED BY <1>1, <1>4, <1>5, <2>1, <2>2, SideIs DEF u, NamedAs
<1>6. CASE k = Len(Kinds(t)) + 1
  <2>1. KindAt(t, k) = <<"mn">> /\ PartAt(t, k) = <<>>
    BY <1>6 DEF KindAt, PartAt
  <2>2. u = MainUnit(j, g, t, n, SideNames(j, g, t, n), c)
    BY <1>2, <1>6, ChainOf
  <2> HIDE DEF u
  <2> QED BY <1>1, <1>4, <1>6, <2>1, <2>2, MainIs DEF u, NamedAs
<1> QED BY <1>5, <1>6

\* What is kept of that when the chains are joined.
LEMMA UnitIs ==
  ASSUME NEW j, NEW g, AreTasks(g.tasks), NEW n, NEW c, NEW i, NEW k, NEW u,
         UnitOf(u, j, g, n, c, i, k)
  PROVE  LET t == g.tasks[i]
             b == Base(j, g, t, n, c)[k]
         IN  /\ IsTask(t) /\ t \in ToSet(g.tasks) /\ i \in DOMAIN g.tasks
             /\ k \in DOMAIN Base(j, g, t, n, c)
             /\ NamedAs(u, j, g, t, n, c, k)
             /\ b.requires \subseteq u.requires /\ b.after \subseteq u.after
             /\ u.uses = b.uses /\ u.reads = b.reads /\ u.makes = b.makes /\ u.records = b.records
<1> DEFINE t == g.tasks[i]
           b == Base(j, g, t, n, c)[k]
<1>1. i \in DOMAIN g.tasks /\ k \in DOMAIN Base(j, g, t, n, c) /\ Grown(u, b)
  BY DEF UnitOf
<1>2. IsTask(t) /\ t \in ToSet(g.tasks)
  BY <1>1 DEF AreTasks, ToSet
<1>3. NamedAs(b, j, g, t, n, c, k)
  BY <1>1, <1>2, BaseIs
<1> HIDE DEF b, t
<1>4. {"name", "container", "slice", "conflicts", "instance", "uses", "reads", "makes", "records"}
        \subseteq UnitFields \ {"requires", "after", "machineOf"}
  BY DEF UnitFields
<1>5. /\ u.name = b.name /\ u.container = b.container /\ u.slice = b.slice
      /\ u.conflicts = b.conflicts /\ u.instance = b.instance
      /\ u.uses = b.uses /\ u.reads = b.reads /\ u.makes = b.makes /\ u.records = b.records
      /\ b.requires \subseteq u.requires /\ b.after \subseteq u.after
  BY <1>1, <1>4 DEF Grown
<1> QED BY <1>1, <1>2, <1>3, <1>5 DEF t, b, NamedAs

\* Kinds tell the units of a task apart.
LEMMA KindsTellApart ==
  ASSUME NEW t, IsTask(t), NEW a \in 1..Len(Kinds(t)) + 1, NEW b \in 1..Len(Kinds(t)) + 1,
         KindAt(t, a) = KindAt(t, b) \/ PartAt(t, a) = PartAt(t, b)
  PROVE  a = b
<1>1. Len(Kinds(t)) \in Nat /\ DOMAIN Kinds(t) = 1..Len(Kinds(t))
  BY KindsDiffer, ListFacts
<1>2. \A x \in 1..Len(Kinds(t)) + 1 : x # Len(Kinds(t)) + 1 => x \in DOMAIN Kinds(t)
  BY <1>1
<1>3. \A x \in DOMAIN Kinds(t) : Kinds(t)[x] # <<"mn">> /\ Kinds(t)[x] # <<>>
  BY KindsDiffer
<1>4. \A x, y \in DOMAIN Kinds(t) : Kinds(t)[x] = Kinds(t)[y] => x = y
  BY KindsDiffer
<1> QED BY <1>2, <1>3, <1>4 DEF KindAt, PartAt

\* Equal triples have equal parts.
LEMMA Third == \A a, b, c, d, e, f : <<a, b, c>> = <<d, e, f>> => a = d /\ b = e /\ c = f
OBVIOUS

\* A timer needs, uses and reads nothing.
LEMMA TimerIs ==
  ASSUME NEW j, NEW g, AreTasks(g.tasks), NEW n, NEW i, NEW u, TimerOf(u, j, g, n, i)
  PROVE  /\ i \in DOMAIN g.tasks /\ u.slice = n /\ u.after = {} /\ u.uses = {} /\ u.reads = {}
         /\ u.records = <<>>
         /\ u.name.task = <<j.name, g.name, g.tasks[i].name>>
         /\ u.name.kind = <<"ti">> /\ u.name.type = "timer"
BY DEF TimerOf, UnitName

\* The name of a service is that of its task and of its kind.
LEMMA ServiceIs ==
  ASSUME NEW j, NEW g, AreTasks(g.tasks), NEW n, NEW c, NEW i, NEW k, NEW u,
         UnitOf(u, j, g, n, c, i, k)
  PROVE  /\ i \in DOMAIN g.tasks /\ IsTask(g.tasks[i]) /\ g.tasks[i] \in ToSet(g.tasks)
         /\ k \in 1..Len(Kinds(g.tasks[i])) + 1
         /\ u.slice = n /\ u.name.task = <<j.name, g.name, g.tasks[i].name>>
         /\ u.name.kind = KindAt(g.tasks[i], k) /\ u.name.type = "service"
         /\ u.name.kind # <<"ti">>
<1> DEFINE t == g.tasks[i]
<1>1. /\ IsTask(t) /\ t \in ToSet(g.tasks) /\ i \in DOMAIN g.tasks
      /\ k \in DOMAIN Base(j, g, t, n, c) /\ NamedAs(u, j, g, t, n, c, k)
  BY UnitIs
<1> HIDE DEF t
<1>2. k \in 1..Len(Kinds(t)) + 1 /\ (k # Len(Kinds(t)) + 1 => k \in DOMAIN Kinds(t))
  BY <1>1, BaseIs
<1>3. KindAt(t, k) # <<"ti">>
  <2>1. CASE k = Len(Kinds(t)) + 1
    BY <2>1 DEF KindAt
  <2>2. CASE k # Len(Kinds(t)) + 1
    BY <2>2, <1>1, <1>2, KindsDiffer DEF KindAt
  <2> QED BY <2>1, <2>2
<1> QED BY <1>1, <1>2, <1>3 DEF t, NamedAs, UnitName

\* What has a place among the units of a task is a service or the timer of it.
LEMMA PlacedIs ==
  ASSUME NEW j, NEW g, AreTasks(g.tasks), NEW n, NEW c, NEW i, NEW k, NEW w,
         Placed(w, j, g, n, c, i, k)
  PROVE  /\ i \in DOMAIN g.tasks /\ w.name.task = <<j.name, g.name, g.tasks[i].name>>
         /\ w.name.kind = <<"ti">> => k = TimerPlace(j, g, n, c, i)
         /\ w.name.kind # <<"ti">> => UnitOf(w, j, g, n, c, i, k)
<1>1. CASE UnitOf(w, j, g, n, c, i, k)
  BY <1>1, ServiceIs
<1>2. CASE TimerOf(w, j, g, n, i) /\ k = TimerPlace(j, g, n, c, i)
  BY <1>2, TimerIs
<1> QED BY <1>1, <1>2 DEF Placed

\* Each unit of a slice is a service or the timer of a task of the group.
LEMMA SliceUnit ==
  ASSUME NEW j, NEW g, AreTasks(g.tasks), NEW n, NEW c, NEW u \in ToSet(GroupUnits(j, g, n, c))
  PROVE  \E i \in DOMAIN g.tasks : \/ TimerOf(u, j, g, n, i)
                                   \/ \E k : UnitOf(u, j, g, n, c, i, k)
<1> DEFINE units == GroupUnits(j, g, n, c)
<1>1. PICK a, b : AtPlaces(units, j, g, n, c, a, b)
  BY UnitsOfGroup
<1>2. PICK p \in DOMAIN units : u = units[p]
  BY DEF ToSet
<1> HIDE DEF units
<1>3. Placed(u, j, g, n, c, a[p], b[p])
  BY <1>1, <1>2 DEF AtPlaces
<1> QED BY <1>3 DEF Placed, TimerOf, UnitOf

\* In a slice no two units have one task and one kind.
LEMMA SamePlace ==
  ASSUME NEW j, NEW g, AreTasks(g.tasks), ~Duplicate(g.tasks), NEW n, NEW c,
         NEW p \in DOMAIN GroupUnits(j, g, n, c), NEW q \in DOMAIN GroupUnits(j, g, n, c),
         NEW u, u = GroupUnits(j, g, n, c)[p], NEW v, v = GroupUnits(j, g, n, c)[q],
         u.name.task = v.name.task, u.name.kind = v.name.kind
  PROVE  p = q
<1> DEFINE units == GroupUnits(j, g, n, c)
<1>1. PICK a, b : AtPlaces(units, j, g, n, c, a, b)
  BY UnitsOfGroup
<1>2. p \in DOMAIN units /\ u = units[p]
  OBVIOUS
<1>3. q \in DOMAIN units /\ v = units[q]
  OBVIOUS
<1> HIDE DEF units
<1>0. PICK i, k, x, l : i = a[p] /\ k = b[p] /\ x = a[q] /\ l = b[q]
  OBVIOUS
<1>4. Placed(u, j, g, n, c, i, k) /\ Placed(v, j, g, n, c, x, l)
  BY <1>0, <1>1, <1>2, <1>3 DEF AtPlaces
<1>5. /\ i \in DOMAIN g.tasks /\ u.name.task = <<j.name, g.name, g.tasks[i].name>>
      /\ x \in DOMAIN g.tasks /\ v.name.task = <<j.name, g.name, g.tasks[x].name>>
  BY <1>4, PlacedIs
<1>6. i = x
  <2>1. <<j.name, g.name, g.tasks[i].name>> = <<j.name, g.name, g.tasks[x].name>>
    BY <1>5
  <2>2. g.tasks[i].name = g.tasks[x].name
    BY <2>1, Third
  <2> QED BY <1>5, <2>2 DEF Duplicate
<1>7. CASE u.name.kind = <<"ti">>
  <2>0. u.name.kind = <<"ti">> /\ v.name.kind = <<"ti">>
    BY <1>7
  <2>1. k = TimerPlace(j, g, n, c, i) /\ l = TimerPlace(j, g, n, c, x)
    BY <1>4, <2>0, PlacedIs
  <2> QED BY <2>1, <1>0, <1>1, <1>2, <1>3, <1>6 DEF AtPlaces
<1>8. CASE u.name.kind # <<"ti">>
  <2>1. UnitOf(u, j, g, n, c, i, k) /\ UnitOf(v, j, g, n, c, i, l)
    BY <1>4, <1>6, <1>8, PlacedIs
  <2>2. /\ IsTask(g.tasks[i]) /\ k \in 1..Len(Kinds(g.tasks[i])) + 1
        /\ l \in 1..Len(Kinds(g.tasks[i])) + 1
        /\ u.name.kind = KindAt(g.tasks[i], k) /\ v.name.kind = KindAt(g.tasks[i], l)
    BY <2>1, ServiceIs
  <2>3. k = l
    BY <2>2, KindsTellApart
  <2> QED BY <2>3, <1>0, <1>1, <1>2, <1>3, <1>6 DEF AtPlaces
<1> QED BY <1>7, <1>8

\* So units of one task and one kind are one unit.
LEMMA SameUnit ==
  ASSUME NEW j, NEW g, AreTasks(g.tasks), ~Duplicate(g.tasks), NEW n, NEW c,
         NEW u \in ToSet(GroupUnits(j, g, n, c)), NEW v \in ToSet(GroupUnits(j, g, n, c)),
         u.name.task = v.name.task, u.name.kind = v.name.kind
  PROVE  u = v
<1> DEFINE units == GroupUnits(j, g, n, c)
<1>1. PICK p \in DOMAIN units : u = units[p]
  BY DEF ToSet
<1>2. PICK q \in DOMAIN units : v = units[q]
  BY DEF ToSet
<1>3. p = q
  BY <1>1, <1>2, SamePlace
<1> QED BY <1>1, <1>2, <1>3

-----------------------------------------------------------------------------
(* The type invariant.                                                       *)

\* The invariant says what PipelineTypeOK says.
LEMMA InvIsType ==
  ASSUME PipelineInv
  PROVE  PipelineTypeOK
<1>1. JobOK /\ PodsOK /\ TodoOK /\ OutputOK
  BY DEF PipelineInv
<1>2. \A p \in ToSet(todo) : stage = "replace" => p \in ToSet(Positions(job))
  <2> SUFFICES ASSUME stage = "replace" PROVE ToSet(todo) \subseteq ToSet(Positions(job))
    OBVIOUS
  <2>1. todo \in Seq(ToSet(Positions(job)))
    BY <1>1 DEF TodoOK
  <2> QED BY <2>1, SeqIsList
<1>3. ASSUME sorting # NoPod
      PROVE  sorting.pod \in Pods /\ sorting.i \in 1..Len(sorting.tasks) + 1
  <2>1. stage = "pods" /\ Group.restart # "all"
    BY <1>1, <1>3 DEF PodsOK
  <2>2. TasksOf(pods, sorting.pod) # {} /\ sorting.i \in 1..Len(sorting.tasks) + 1
    BY <1>1, <1>3, <2>1 DEF PodsOK, SortingOK
  <2> QED BY <2>2 DEF TasksOf, Pods
<1>4. ASSUME NEW u \in ToSet(output), Cluster.kube PROVE u.kind \in Kinds6
  <2>1. PICK g, pod : /\ g \in ToSet(job.groups) /\ PodOf(pod, g)
                        /\ u \in ToSet(Resources(job, g, pod))
    BY <1>1, <1>4 DEF OutputOK, KubeOK
  <2> QED BY <2>1, ResourcesAre DEF PodOf, AreTasks
<1>5. ASSUME NEW u \in ToSet(output), ~Cluster.kube PROVE u.name.type \in {"service", "timer"}
  <2>1. PICK g \in ToSet(job.groups) : \E n \in 1..g.count : u \in ToSet(GroupUnits(job, g, n, Cluster))
    BY <1>1, <1>5 DEF OutputOK, FleetOK
  <2>2. PICK n \in 1..g.count : u \in ToSet(GroupUnits(job, g, n, Cluster))
    BY <2>1
  <2>3. AreTasks(g.tasks)
    BY <1>1 DEF JobOK, IsJob, AreGroups, IsGroup
  <2>4. PICK i \in DOMAIN g.tasks : \/ TimerOf(u, job, g, n, i)
                                    \/ \E k : UnitOf(u, job, g, n, Cluster, i, k)
    BY <2>2, <2>3, SliceUnit
  <2>5. CASE TimerOf(u, job, g, n, i)
    <3>1. u.name.type = "timer"
      BY <2>5 DEF TimerOf, UnitName
    <3> QED BY <3>1
  <2>6. ASSUME NEW k, UnitOf(u, job, g, n, Cluster, i, k) PROVE u.name.type = "service"
    <3>1. NamedAs(u, job, g, g.tasks[i], n, Cluster, k)
      BY <2>3, <2>6, UnitIs
    <3> QED BY <3>1 DEF NamedAs, UnitName
  <2> QED BY <2>4, <2>5, <2>6
<1> QED BY <1>1, <1>2, <1>3, <1>4, <1>5 DEF PipelineTypeOK, PodsOK, TodoOK, Kinds6

\* What the variables hold at each stage, whatever the job file.
THEOREM PipelineTypes == Spec => []PipelineTypeOK
<1>1. PipelineInv => PipelineTypeOK
  BY InvIsType
<1> QED BY <1>1, PipelineKeeps, PTL

-----------------------------------------------------------------------------
(* The units of a rendered job and the groups and slices they are of.        *)

\* What is known of a group of a rendered job.
GroupFacts(g) ==
  /\ IsGroup(g) /\ AreTasks(g.tasks) /\ IsList(g.tasks) /\ GroupIsValid(g) /\ ~Duplicate(g.tasks)
  /\ Get(job.groups, g.name) = g

\* The groups of a rendered job are valid, and found by their names.
LEMMA GroupsAre ==
  ASSUME JobOK, Rendering, NEW g \in ToSet(job.groups)
  PROVE  GroupFacts(g)
<1>1. AreGroups(job.groups) /\ JobIsValid(job)
  BY DEF JobOK, IsJob
<1>2. IsGroup(g) /\ GroupIsValid(g) /\ IsList(job.groups) /\ ~Duplicate(job.groups)
  BY <1>1 DEF AreGroups, JobIsValid
<1>3. Get(job.groups, g.name) = g
  <2>1. PICK i \in DOMAIN job.groups : g = job.groups[i]
    BY DEF ToSet
  <2> QED BY <1>2, <2>1, OneOfAName
<1> QED BY <1>2, <1>3 DEF GroupFacts, IsGroup, AreTasks, GroupIsValid

\* Unit u is one of group g in slice n, which is rendered as a whole.
InSlice(u, g, n) ==
  /\ ~UnitsFail(job, g, Cluster)
  /\ u \in ToSet(GroupUnits(job, g, n, Cluster))
  /\ ToSet(GroupUnits(job, g, n, Cluster)) \subseteq ToSet(output)

\* Each unit is of a group and slice that is rendered as a whole.
LEMMA FleetUnit ==
  ASSUME JobOK, OutputOK, Rendering, ~Cluster.kube, NEW u \in ToSet(output)
  PROVE  \E g \in ToSet(job.groups) : \E n \in 1..g.count :
           /\ InSlice(u, g, n) /\ GroupFacts(g) /\ u.name.task[2] = g.name /\ u.slice = n
           /\ n \in Nat /\ n # 0
<1>0. PICK g \in ToSet(job.groups) : \E n \in 1..g.count : InSlice(u, g, n)
  BY DEF OutputOK, FleetOK, InSlice
<1>1. PICK n \in 1..g.count : InSlice(u, g, n)
  BY <1>0
<1>2. GroupFacts(g)
  BY GroupsAre
<1>3. PICK i \in DOMAIN g.tasks : \/ TimerOf(u, job, g, n, i)
                                  \/ \E k : UnitOf(u, job, g, n, Cluster, i, k)
  BY <1>1, <1>2, SliceUnit DEF InSlice, GroupFacts
<1>4. u.slice = n /\ u.name.task = <<job.name, g.name, g.tasks[i].name>>
  BY <1>2, <1>3, TimerIs, ServiceIs DEF GroupFacts
<1>5. <<job.name, g.name, g.tasks[i].name>>[2] = g.name
  OBVIOUS
<1>6. n \in Nat /\ n # 0
  BY <1>2 DEF GroupFacts, IsGroup
<1> QED BY <1>1, <1>2, <1>4, <1>5, <1>6

\* A service is the unit of a task, and no other task of the group has its name.
LEMMA FleetService ==
  ASSUME NEW g, GroupFacts(g), NEW n, NEW u, InSlice(u, g, n), u.name.type = "service"
  PROVE  \E i \in DOMAIN g.tasks : \E k :
           /\ UnitOf(u, job, g, n, Cluster, i, k)
           /\ \A t \in ToSet(g.tasks) :
                u.name.task = <<job.name, g.name, t.name>> => t = g.tasks[i]
<1>1. PICK i \in DOMAIN g.tasks : \/ TimerOf(u, job, g, n, i)
                                  \/ \E k : UnitOf(u, job, g, n, Cluster, i, k)
  BY SliceUnit DEF InSlice, GroupFacts
<1>2. PICK k : UnitOf(u, job, g, n, Cluster, i, k)
  BY <1>1, TimerIs DEF GroupFacts
<1>3. u.name.task = <<job.name, g.name, g.tasks[i].name>>
  <2>1. AreTasks(g.tasks)
    BY DEF GroupFacts
  <2> QED BY <1>2, <2>1, ServiceIs
<1>4. ASSUME NEW t \in ToSet(g.tasks), u.name.task = <<job.name, g.name, t.name>>
      PROVE  t = g.tasks[i]
  <2>1. <<job.name, g.name, t.name>> = <<job.name, g.name, g.tasks[i].name>>
    BY <1>3, <1>4
  <2>2. t.name = g.tasks[i].name
    BY <2>1, Third
  <2>3. PICK x \in DOMAIN g.tasks : t = g.tasks[x]
    BY DEF ToSet
  <2> QED BY <2>2, <2>3 DEF GroupFacts, Duplicate
<1> QED BY <1>2, <1>4

\* The names a unit waits for are those of all units of the tasks it is to come after.
AllWaits(g, n, c, i) ==
  \A a \in ToSet(g.tasks[i].after) :
    /\ Index(g.tasks, a) \in DOMAIN g.tasks /\ g.tasks[Index(g.tasks, a)].name = a
    /\ \A k \in DOMAIN Base(job, g, Get(g.tasks, a), n, c) :
         Base(job, g, Get(g.tasks, a), n, c)[k].name \in WaitsFor(job, g, n, c, i)

\* It waits for nothing else.
OnlyWaits(g, n, c, i) ==
  \A name \in WaitsFor(job, g, n, c, i) :
    \E a \in ToSet(g.tasks[i].after) : name.task = <<job.name, g.name, a>>

\* Both hold.
LEMMA WaitsForAre ==
  ASSUME NEW g, GroupFacts(g), NEW n, NEW i \in DOMAIN g.tasks, NEW c
  PROVE  AllWaits(g, n, c, i) /\ OnlyWaits(g, n, c, i)
<1> DEFINE mains == [x \in DOMAIN g.tasks |-> MainChain(job, g, g.tasks[x], n, c)]
           chains == {mains[Index(g.tasks, a)] : a \in ToSet(g.tasks[i].after)}
           t == g.tasks[i]
<1>1. WaitsFor(job, g, n, c, i) = {u.name : u \in UNION {ToSet(x) : x \in chains}}
  BY DEF WaitsFor
<1>2. t \in ToSet(g.tasks) /\ IsTask(t) /\ IsList(g.tasks) /\ IsList(t.after) /\ IsList(t.volumesFrom)
  BY DEF ToSet, GroupFacts, AreTasks, IsTask, ListFields
<1> HIDE DEF t
<1>3. ASSUME NEW a \in ToSet(t.after)
      PROVE  Index(g.tasks, a) \in DOMAIN g.tasks /\ g.tasks[Index(g.tasks, a)].name = a
  <2>1. a \in ToSet(t.after \o t.volumesFrom)
    BY <1>2, ListsJoin
  <2>2. Index(g.tasks, a) # 0
    BY <1>2, <2>1 DEF GroupFacts, GroupIsValid, TaskIsValid, Known
  <2> QED BY <1>2, <2>2, IndexFinds, ListFacts
<1>4. ASSUME NEW a \in ToSet(t.after), NEW x, x = Index(g.tasks, a)
      PROVE  /\ IsTask(g.tasks[x]) /\ mains[x] = MainChain(job, g, g.tasks[x], n, c)
             /\ DOMAIN mains[x] = DOMAIN Base(job, g, g.tasks[x], n, c)
             /\ \A k \in DOMAIN mains[x] : mains[x][k].name = Base(job, g, g.tasks[x], n, c)[k].name
  <2>1. x \in DOMAIN g.tasks /\ mains[x] = MainChain(job, g, g.tasks[x], n, c)
    BY <1>3, <1>4
  <2>2. IsTask(g.tasks[x])
    BY <2>1 DEF GroupFacts, AreTasks, ToSet
  <2>3. /\ DOMAIN MainChain(job, g, g.tasks[x], n, c) = DOMAIN Base(job, g, g.tasks[x], n, c)
        /\ \A k \in DOMAIN Base(job, g, g.tasks[x], n, c) :
             Grown(MainChain(job, g, g.tasks[x], n, c)[k], Base(job, g, g.tasks[x], n, c)[k])
    BY <2>2, ChainOf
  <2>4. "name" \in UnitFields \ {"requires", "after", "machineOf"}
    BY DEF UnitFields
  <2> QED BY <2>1, <2>2, <2>3, <2>4 DEF Grown
<1> HIDE DEF mains
<1>5. ASSUME NEW a \in ToSet(t.after), NEW k \in DOMAIN Base(job, g, Get(g.tasks, a), n, c)
      PROVE  Base(job, g, Get(g.tasks, a), n, c)[k].name \in WaitsFor(job, g, n, c, i)
  <2>1. PICK x : x = Index(g.tasks, a)
    OBVIOUS
  <2>2. Get(g.tasks, a) = g.tasks[x]
    BY <2>1 DEF Get
  <2>3. k \in DOMAIN mains[x] /\ mains[x][k].name = Base(job, g, g.tasks[x], n, c)[k].name
    BY <1>4, <2>1, <2>2
  <2>4. mains[x] \in chains /\ mains[x][k] \in ToSet(mains[x])
    BY <2>1, <2>3 DEF ToSet, t
  <2>5. mains[x][k] \in UNION {ToSet(y) : y \in chains}
    BY <2>4
  <2>6. mains[x][k].name \in WaitsFor(job, g, n, c, i)
    BY <1>1, <2>5
  <2> QED BY <2>2, <2>3, <2>6
<1>6. ASSUME NEW name \in WaitsFor(job, g, n, c, i)
      PROVE  \E a \in ToSet(t.after) : name.task = <<job.name, g.name, a>>
  <2>1. PICK a \in ToSet(t.after) : \E v \in ToSet(mains[Index(g.tasks, a)]) : name = v.name
    BY <1>1 DEF t
  <2>2. PICK x : x = Index(g.tasks, a)
    OBVIOUS
  <2>3. PICK k \in DOMAIN mains[x] : name = mains[x][k].name
    BY <2>1, <2>2 DEF ToSet
  <2>4. /\ IsTask(g.tasks[x]) /\ k \in DOMAIN Base(job, g, g.tasks[x], n, c)
        /\ name = Base(job, g, g.tasks[x], n, c)[k].name
    BY <1>4, <2>2, <2>3
  <2>5. name.task = <<job.name, g.name, g.tasks[x].name>>
    <3>1. NamedAs(Base(job, g, g.tasks[x], n, c)[k], job, g, g.tasks[x], n, c, k)
      BY <2>4, BaseIs
    <3> QED BY <2>4, <3>1 DEF NamedAs, UnitName
  <2> QED BY <1>3, <2>2, <2>5
<1> QED BY <1>3, <1>5, <1>6 DEF t, AllWaits, OnlyWaits

-----------------------------------------------------------------------------
(* The order of the units of a slice.                                        *)

\* A unit comes after units of the tasks its task names, and after units of its own task
\* that have an earlier place in the chain.
LEMMA AfterIs ==
  ASSUME NEW g, GroupFacts(g), NEW n, NEW c, NEW i, NEW k, NEW u, UnitOf(u, job, g, n, c, i, k),
         NEW name \in u.after
  PROVE  \/ \E a \in ToSet(Others(g.tasks[i])) : name.task = <<job.name, g.name, a>>
         \/ \E l \in 1..Len(Kinds(g.tasks[i])) + 1 :
              /\ l < k /\ name.task = <<job.name, g.name, g.tasks[i].name>>
              /\ name.kind = KindAt(g.tasks[i], l)
<1>1. PICK t : t = g.tasks[i]
  OBVIOUS
<1>2. /\ i \in DOMAIN g.tasks /\ t \in ToSet(g.tasks) /\ IsTask(t) /\ IsList(t.after)
      /\ IsList(t.volumesFrom) /\ IsList(g.tasks)
  BY <1>1 DEF UnitOf, ToSet, GroupFacts, AreTasks, IsTask, ListFields
<1>3. ToSet(Others(t)) = ToSet(t.after) \cup ToSet(t.volumesFrom)
  BY <1>2, ListsJoin DEF Others
<1>4. \A x \in ToSet(Others(t)) : Get(g.tasks, x).name = x
  <2>1. \A x \in ToSet(Others(t)) : Index(g.tasks, x) # 0
    BY <1>2 DEF GroupFacts, GroupIsValid, TaskIsValid, Known, Others
  <2> QED BY <1>2, <2>1, IndexFinds DEF Get
<1>5. PICK b : b = Base(job, g, t, n, c)
  OBVIOUS
<1>6. k \in DOMAIN b /\ u.after = b[k].after \cup (IF k > 1 THEN {b[k - 1].name} ELSE {})
                                  \cup WaitsFor(job, g, n, c, i)
  BY <1>1, <1>5 DEF UnitOf
<1>7. Len(Kinds(t)) \in Nat /\ DOMAIN Kinds(t) = 1..Len(Kinds(t))
  BY <1>2, KindsDiffer, ListFacts
<1>8. DOMAIN b = 1..Len(Kinds(t)) + 1
  <2>1. IsList(b) /\ Len(b) = Len(Kinds(t)) + 1
    BY <1>2, <1>5, ChainOf
  <2> QED BY <2>1, ListFacts
<1>9. CASE name \in b[k].after
  <2>1. k = Len(Kinds(t)) + 1 /\ b[k] = MainUnit(job, g, t, n, SideNames(job, g, t, n), c)
    BY <1>2, <1>5, <1>6, <1>9, BaseIs
  <2>2. b[k].after = SideNames(job, g, t, n) \cup Mains(job, g, t, n)
    BY <2>1, MainIs
  <2>3. CASE name \in SideNames(job, g, t, n)
    <3>1. PICK l \in DOMAIN Kinds(t) : name = UnitName(job, g, t, Kinds(t)[l], n, "service")
      BY <2>3 DEF SideNames, ToSet
    <3>2. name.task = <<job.name, g.name, t.name>> /\ name.kind = Kinds(t)[l]
      BY <3>1 DEF UnitName
    <3>3. l \in 1..Len(Kinds(t)) + 1 /\ l < k /\ KindAt(t, l) = Kinds(t)[l]
      BY <1>7, <2>1 DEF KindAt
    <3> QED BY <1>1, <3>2, <3>3
  <2>4. CASE name \in Mains(job, g, t, n)
    <3>1. PICK a \in ToSet(t.volumesFrom) :
            name = UnitName(job, g, Get(g.tasks, a), <<"mn">>, n, "service")
      BY <2>4 DEF Mains
    <3>2. name.task = <<job.name, g.name, Get(g.tasks, a).name>>
      BY <3>1 DEF UnitName
    <3> QED BY <1>1, <1>3, <1>4, <3>2
  <2> QED BY <1>9, <2>2, <2>3, <2>4
<1>10. CASE k > 1 /\ name = b[k - 1].name
  <2>1. k - 1 \in DOMAIN b /\ k - 1 \in 1..Len(Kinds(t)) + 1 /\ k - 1 < k
    BY <1>6, <1>7, <1>8, <1>10
  <2>2. NamedAs(b[k - 1], job, g, t, n, c, k - 1)
    BY <2>1, <1>2, <1>5, BaseIs
  <2>3. name.task = <<job.name, g.name, t.name>> /\ name.kind = KindAt(t, k - 1)
    BY <1>10, <2>2 DEF NamedAs, UnitName
  <2> QED BY <1>1, <2>1, <2>3
<1>11. CASE name \in WaitsFor(job, g, n, c, i)
  <2>1. PICK a \in ToSet(t.after) : name.task = <<job.name, g.name, a>>
    <3>1. \E a \in ToSet(g.tasks[i].after) : name.task = <<job.name, g.name, a>>
      BY <1>2, <1>11, WaitsForAre DEF OnlyWaits
    <3> QED BY <1>1, <3>1
  <2> QED BY <1>1, <1>3, <2>1
<1> QED BY <1>6, <1>9, <1>10, <1>11

\* Units in a circle would be of tasks in a circle.
LEMMA CirclesAreOfTasks ==
  ASSUME JobOK, OutputOK, Rendering, ~Cluster.kube, NEW g \in ToSet(job.groups),
         ~HasCycle(g, Others),
         NEW S \in SUBSET {u \in ToSet(output) : u.name.task[2] = g.name}, S # {}
  PROVE  \E u \in S : \A v \in S : v.name \notin u.after
<1>0. GroupFacts(g)
  BY GroupsAre
<1>1. ASSUME NEW u \in S PROVE \E n : InSlice(u, g, n)
  <2>1. u \in ToSet(output) /\ u.name.task[2] = g.name
    OBVIOUS
  <2>2. PICK h \in ToSet(job.groups) : \E n \in 1..h.count :
          InSlice(u, h, n) /\ GroupFacts(h) /\ u.name.task[2] = h.name
    BY <2>1, FleetUnit
  <2>3. h = g
    BY <1>0, <2>1, <2>2 DEF GroupFacts
  <2> QED BY <2>2, <2>3
<1>2. ASSUME NEW u \in S, NEW n, InSlice(u, g, n)
      PROVE  \E i \in DOMAIN g.tasks : \/ TimerOf(u, job, g, n, i)
                                       \/ \E k : UnitOf(u, job, g, n, Cluster, i, k)
  BY <1>0, <1>2, SliceUnit DEF InSlice, GroupFacts
<1>3. CASE \E u \in S : \E n, i : TimerOf(u, job, g, n, i)
  <2>1. PICK u \in S : \E n, i : TimerOf(u, job, g, n, i)
    BY <1>3
  <2>2. u.after = {}
    BY <2>1 DEF TimerOf
  <2> QED BY <2>2
<1>4. CASE \A u \in S : \A n, i : ~TimerOf(u, job, g, n, i)
  <2>1. ASSUME NEW u \in S
        PROVE  \E n, i, k : /\ UnitOf(u, job, g, n, Cluster, i, k) /\ i \in DOMAIN g.tasks
                            /\ u.name.task = <<job.name, g.name, g.tasks[i].name>>
                            /\ IsTask(g.tasks[i]) /\ k \in 1..Len(Kinds(g.tasks[i])) + 1
                            /\ u.name.kind = KindAt(g.tasks[i], k)
    <3>1. PICK n : InSlice(u, g, n)
      BY <1>1
    <3>2. PICK i, k : UnitOf(u, job, g, n, Cluster, i, k)
      BY <1>2, <1>4, <3>1
    <3>3. AreTasks(g.tasks)
      BY <1>0 DEF GroupFacts
    <3>4. /\ i \in DOMAIN g.tasks /\ IsTask(g.tasks[i])
          /\ u.name.task = <<job.name, g.name, g.tasks[i].name>>
          /\ k \in 1..Len(Kinds(g.tasks[i])) + 1 /\ u.name.kind = KindAt(g.tasks[i], k)
      BY <3>2, <3>3, ServiceIs
    <3> QED BY <3>2, <3>4
  <2> DEFINE T == {n \in Names(g.tasks) : \E u \in S : u.name.task = <<job.name, g.name, n>>}
  <2>2. \A i \in DOMAIN g.tasks : g.tasks[i].name \in Names(g.tasks)
    BY DEF Names, ToSet
  <2>3. T # {} /\ T \in SUBSET Names(g.tasks)
    BY <2>1, <2>2
  <2>4. PICK m \in T : T \cap ToSet(Others(Get(g.tasks, m))) = {}
    BY <2>3 DEF HasCycle
  <2>5. PICK x : x = Index(g.tasks, m)
    OBVIOUS
  <2>6. x \in DOMAIN g.tasks /\ Get(g.tasks, m) = g.tasks[x] /\ g.tasks[x].name = m
    BY <2>5, <2>4, <1>0, Named DEF Get, GroupFacts
  <2>7. \A i \in DOMAIN g.tasks : g.tasks[i].name = m => i = x
    BY <2>6, <1>0 DEF GroupFacts, Duplicate
  <2> DEFINE K == {k \in Nat : \E u \in S : \E n : UnitOf(u, job, g, n, Cluster, x, k)}
  <2>8. K # {}
    <3>1. PICK u \in S : u.name.task = <<job.name, g.name, m>>
      BY <2>4
    <3>2. PICK n, i, k : /\ UnitOf(u, job, g, n, Cluster, i, k) /\ i \in DOMAIN g.tasks
                         /\ u.name.task = <<job.name, g.name, g.tasks[i].name>>
                         /\ k \in 1..Len(Kinds(g.tasks[i])) + 1
      BY <2>1
    <3>3. <<job.name, g.name, m>> = <<job.name, g.name, g.tasks[i].name>>
      BY <3>1, <3>2
    <3>4. i = x
      BY <2>7, <3>2, <3>3, Third
    <3>5. k \in Nat
      BY <3>2
    <3> QED BY <3>2, <3>4, <3>5
  <2>9. PICK k \in K : \A l \in K : k <= l
    BY <2>8, Least
  <2>10. PICK u \in S : \E n : UnitOf(u, job, g, n, Cluster, x, k)
    BY <2>9
  <2>11. ASSUME NEW v \in S, v.name \in u.after PROVE FALSE
    <3>1. PICK n, i, l : /\ UnitOf(v, job, g, n, Cluster, i, l) /\ i \in DOMAIN g.tasks
                         /\ v.name.task = <<job.name, g.name, g.tasks[i].name>>
                         /\ IsTask(g.tasks[i]) /\ l \in 1..Len(Kinds(g.tasks[i])) + 1
                         /\ v.name.kind = KindAt(g.tasks[i], l)
      BY <2>1
    <3>2. CASE \E a \in ToSet(Others(g.tasks[x])) : v.name.task = <<job.name, g.name, a>>
      <4>1. PICK a \in ToSet(Others(g.tasks[x])) : v.name.task = <<job.name, g.name, a>>
        BY <3>2
      <4>2. <<job.name, g.name, a>> = <<job.name, g.name, g.tasks[i].name>>
        BY <3>1, <4>1
      <4>3. a = g.tasks[i].name
        BY <4>2, Third
      <4>4. a \in T
        BY <2>2, <3>1, <4>1, <4>3
      <4> QED BY <2>4, <2>6, <4>1, <4>4
    <3>3. CASE \E p \in 1..Len(Kinds(g.tasks[x])) + 1 :
                 /\ p < k /\ v.name.task = <<job.name, g.name, g.tasks[x].name>>
                 /\ v.name.kind = KindAt(g.tasks[x], p)
      <4>1. PICK p \in 1..Len(Kinds(g.tasks[x])) + 1 :
                 /\ p < k /\ v.name.task = <<job.name, g.name, g.tasks[x].name>>
                 /\ v.name.kind = KindAt(g.tasks[x], p)
        BY <3>3
      <4>2. <<job.name, g.name, g.tasks[x].name>> = <<job.name, g.name, g.tasks[i].name>>
        BY <3>1, <4>1
      <4>3. i = x
        BY <2>6, <2>7, <3>1, <4>2, Third
      <4>4. l = p
        BY <3>1, <4>1, <4>3, KindsTellApart
      <4>5. l \in K
        BY <3>1, <4>3
      <4> QED BY <2>9, <4>1, <4>4, <4>5
    <3>4. PICK q : UnitOf(u, job, g, q, Cluster, x, k)
      BY <2>10
    <3> QED BY <1>0, <2>11, <3>2, <3>3, <3>4, AfterIs
  <2> QED BY <2>11
<1> QED BY <1>3, <1>4

\* The service u of a task is a unit of the slice that it says.
LEMMA ServiceOf ==
  ASSUME JobOK, OutputOK, Rendering, ~Cluster.kube, NEW g \in ToSet(job.groups),
         NEW t \in ToSet(g.tasks), NEW u \in ToSet(output), u.name.type = "service",
         u.name.task = <<job.name, g.name, t.name>>
  PROVE  \E i \in DOMAIN g.tasks : \E k :
           /\ t = g.tasks[i] /\ InSlice(u, g, u.slice) /\ u.slice \in 1..g.count
           /\ UnitOf(u, job, g, u.slice, Cluster, i, k)
<1>1. GroupFacts(g)
  BY GroupsAre
<1>2. PICK h \in ToSet(job.groups) : \E n \in 1..h.count :
          InSlice(u, h, n) /\ GroupFacts(h) /\ u.name.task[2] = h.name /\ u.slice = n
  BY FleetUnit
<1>3. <<job.name, g.name, t.name>>[2] = g.name
  OBVIOUS
<1>4. h = g
  <2>1. h.name = g.name
    BY <1>2, <1>3
  <2> QED BY <1>1, <1>2, <2>1 DEF GroupFacts
<1>5. InSlice(u, g, u.slice) /\ u.slice \in 1..g.count
  BY <1>2, <1>4
<1>6. PICK i \in DOMAIN g.tasks : \E k :
           /\ UnitOf(u, job, g, u.slice, Cluster, i, k)
           /\ \A x \in ToSet(g.tasks) :
                u.name.task = <<job.name, g.name, x.name>> => x = g.tasks[i]
  BY <1>1, <1>5, FleetService
<1> QED BY <1>5, <1>6

\* A service starts after those of the tasks its task is to come after, in its slice.
LEMMA AfterTasks ==
  ASSUME JobOK, OutputOK, Rendering, ~Cluster.kube, NEW g \in ToSet(job.groups),
         NEW t \in ToSet(g.tasks), NEW m \in ToSet(t.after),
         NEW u \in ToSet(output), u.name.type = "service",
         u.name.task = <<job.name, g.name, t.name>>,
         NEW v \in ToSet(output), v.name.type = "service",
         v.name.task = <<job.name, g.name, Get(g.tasks, m).name>>, u.slice = v.slice
  PROVE  v.name \in u.after
<1>0. GroupFacts(g)
  BY GroupsAre
<1>1. PICK n : n = u.slice
  OBVIOUS
<1>2. PICK i \in DOMAIN g.tasks : t = g.tasks[i] /\ \E k : UnitOf(u, job, g, n, Cluster, i, k)
  BY <1>1, ServiceOf
<1>3. AllWaits(g, n, Cluster, i) /\ WaitsFor(job, g, n, Cluster, i) \subseteq u.after
  BY <1>0, <1>2, WaitsForAre DEF UnitOf
<1>4. PICK o : o = Get(g.tasks, m)
  OBVIOUS
<1>5. o \in ToSet(g.tasks)
  BY <1>2, <1>3, <1>4 DEF AllWaits, Get, ToSet
<1>6. v.name.task = <<job.name, g.name, o.name>>
  BY <1>4
<1>7. PICK l \in DOMAIN g.tasks : o = g.tasks[l] /\ \E k : UnitOf(v, job, g, n, Cluster, l, k)
  BY <1>1, <1>5, <1>6, ServiceOf
<1>8. PICK k : UnitOf(v, job, g, n, Cluster, l, k)
  BY <1>7
<1>9. k \in DOMAIN Base(job, g, o, n, Cluster) /\ Grown(v, Base(job, g, o, n, Cluster)[k])
  BY <1>7, <1>8 DEF UnitOf
<1>10. "name" \in UnitFields \ {"requires", "after", "machineOf"}
  BY DEF UnitFields
<1>11. v.name = Base(job, g, o, n, Cluster)[k].name
  BY <1>9, <1>10 DEF Grown
<1>12. Base(job, g, o, n, Cluster)[k].name \in WaitsFor(job, g, n, Cluster, i)
  BY <1>2, <1>3, <1>4, <1>9 DEF AllWaits
<1> QED BY <1>3, <1>11, <1>12

\* The invariant implies AfterIsKept.
LEMMA InvIsAfter ==
  ASSUME PipelineInv
  PROVE  AfterIsKept
<1>1. JobOK /\ PodsOK /\ OutputOK
  BY DEF PipelineInv
<1>2. ASSUME stage = "pods", Group.restart # "all", NEW p \in DOMAIN sorted,
             NEW i \in DOMAIN sorted[p], NEW k \in DOMAIN sorted[p], i < k
      PROVE  sorted[p][k].name \notin ToSet(sorted[p][i].after)
  <2>1. SortedOK(Group, pods, sorted)
    BY <1>1, <1>2 DEF PodsOK
  <2>2. sorted[p] \in Seq(ToSet(Group.tasks)) /\ KeptUpTo(sorted[p], Len(sorted[p]))
    BY <2>1 DEF SortedOK, Holds
  <2>3. i <= Len(sorted[p])
    BY <2>2
  <2> QED BY <1>2, <2>2, <2>3 DEF KeptUpTo
<1>3. ASSUME stage = "done", ~Cluster.kube
      PROVE  LET units == ToSet(output)
                 Before(u) == {v \in units : v.name \in u.after}
                 Of(g, t, n) == {u \in units : u.name.task = <<job.name, g.name, t.name>>
                                                /\ u.name.type = "service" /\ u.slice = n}
             IN  \A g \in ToSet(job.groups) :
                   /\ \A t \in ToSet(g.tasks) : \A n \in 1..g.count : \A m \in ToSet(t.after) :
                        \A u \in Of(g, t, n) : Of(g, Get(g.tasks, m), n) \subseteq Before(u)
                   /\ ~HasCycle(g, Others) =>
                        \A S \in SUBSET {u \in units : u.name.task[2] = g.name} :
                          S # {} => \E u \in S : S \cap Before(u) = {}
  <2> DEFINE units == ToSet(output)
             Before(u) == {v \in units : v.name \in u.after}
             Of(g, t, n) == {u \in units : u.name.task = <<job.name, g.name, t.name>>
                                            /\ u.name.type = "service" /\ u.slice = n}
  <2>1. Rendering
    BY <1>3 DEF Rendering
  <2>2. ASSUME NEW g \in ToSet(job.groups), NEW t \in ToSet(g.tasks), NEW n, NEW m \in ToSet(t.after),
               NEW u \in Of(g, t, n), NEW v \in Of(g, Get(g.tasks, m), n)
        PROVE  v \in Before(u)
    BY <1>1, <1>3, <2>1, AfterTasks
  <2>3. ASSUME NEW g \in ToSet(job.groups), ~HasCycle(g, Others),
               NEW S \in SUBSET {u \in units : u.name.task[2] = g.name}, S # {}
        PROVE  \E u \in S : S \cap Before(u) = {}
    <3>1. \E u \in S : \A v \in S : v.name \notin u.after
      BY <1>1, <1>3, <2>1, <2>3, CirclesAreOfTasks
    <3> QED BY <3>1
  <2>4. ASSUME NEW g \in ToSet(job.groups)
        PROVE  /\ \A t \in ToSet(g.tasks) : \A n \in 1..g.count : \A m \in ToSet(t.after) :
                    \A u \in Of(g, t, n) : Of(g, Get(g.tasks, m), n) \subseteq Before(u)
               /\ ~HasCycle(g, Others) =>
                    \A S \in SUBSET {u \in units : u.name.task[2] = g.name} :
                      S # {} => \E u \in S : S \cap Before(u) = {}
    <3>1. ASSUME NEW t \in ToSet(g.tasks), NEW n \in 1..g.count, NEW m \in ToSet(t.after),
                 NEW u \in Of(g, t, n)
          PROVE  Of(g, Get(g.tasks, m), n) \subseteq Before(u)
      BY <2>2
    <3>2. ASSUME ~HasCycle(g, Others), NEW S \in SUBSET {u \in units : u.name.task[2] = g.name}, S # {}
          PROVE  \E u \in S : S \cap Before(u) = {}
      BY <2>3, <3>2
    <3> QED BY <3>1, <3>2
  <2> QED BY <2>4
<1> QED BY <1>2, <1>3 DEF AfterIsKept

\* The order that after asks for holds for every job: in the sorted pods of kubernetes, and
\* between the units of fleet, which wait in a circle only if the tasks name one.
THEOREM AfterKept == Spec => []AfterIsKept
<1>1. PipelineInv => AfterIsKept
  BY InvIsAfter
<1> QED BY <1>1, PipelineKeeps, PTL

-----------------------------------------------------------------------------
(* Units that exclude each other.                                            *)

\* The taskgroup constraints of a group, the units they name, and all that a unit excludes.
Own(j, g) == {c \in ToSet(MergedConstraints(j, g)) : Head(c.name) = "taskgroup"}
OthersOf(j, g) ==
  UNION {{UnitName(j, Get(j.groups, c.value), u, <<"mn">>, AnySlice, "service") :
            u \in ToSet(Get(j.groups, c.value).tasks)} : c \in Own(j, g)}

Excluded(j, g, t, kind, c) ==
  (IF c.instances > 1 /\ ~g.global THEN {UnitName(j, g, t, kind, AnySlice, "service")} ELSE {})
    \cup OthersOf(j, g)

\* What setupInstanceConstraints and setupConstraints make of the conflicts of a unit.
LEMMA ConflictsAre ==
  ASSUME NEW j, NEW g, NEW t, NEW kind, NEW n, NEW c
  PROVE  LET d == DefaultUnit(j, g, t, kind, n, c)
         IN  /\ d.conflicts = Excluded(j, g, t, kind, c)
             /\ d.instance = IF c.instances > 1 /\ g.global /\ g.count > 1 THEN <<n>> ELSE <<>>
<1> DEFINE ids == SetToSeq({x.value : x \in {y \in ToSet(MergedConstraints(j, g)) :
                                                Head(y.name) = "node.id"}})
           data == {<<Tail(x.name), x.value>> :
                      x \in {y \in ToSet(MergedConstraints(j, g)) : Head(y.name) = "meta"}}
           con == Excluded(j, g, t, kind, c)
           inst == IF c.instances > 1 /\ g.global /\ g.count > 1 THEN <<n>> ELSE <<>>
           b == BaseUnit(UnitName(j, g, t, kind, n, "service"), n)
<1>1. DefaultUnit(j, g, t, kind, n, c) =
        [b EXCEPT !.global = g.global, !.conflicts = con, !.machineID = ids, !.instance = inst,
                  !.metadata = data]
  BY Zenon DEF DefaultUnit, OthersOf, Own, Excluded
<1>2. DOMAIN b = UnitFields
  BY DEF BaseUnit, UnitFields
<1> HIDE DEF b, con, ids, inst, data
<1>3. "conflicts" \in DOMAIN b /\ "instance" \in DOMAIN b
  BY <1>2 DEF UnitFields
<1>4. DefaultUnit(j, g, t, kind, n, c).conflicts = con /\ DefaultUnit(j, g, t, kind, n, c).instance = inst
  BY <1>1, <1>3
<1> QED BY <1>4 DEF con, inst

\* Unit u is the service of task i of group g in slice n, in place k.
Serving(u, g, n, i, k) ==
  /\ g \in ToSet(job.groups) /\ GroupFacts(g) /\ InSlice(u, g, n)
  /\ n \in 1..g.count /\ n \in Nat /\ n # 0 /\ g.count \in Int
  /\ i \in DOMAIN g.tasks /\ IsTask(g.tasks[i]) /\ k \in 1..Len(Kinds(g.tasks[i])) + 1
  /\ NamedAs(u, job, g, g.tasks[i], n, Cluster, k)

\* A service that is rendered is the unit of a task.
LEMMA ServicesServe ==
  ASSUME JobOK, OutputOK, Rendering, ~Cluster.kube, NEW u \in ToSet(output),
         u.name.type = "service"
  PROVE  \E g, n, i, k : Serving(u, g, n, i, k) /\ u.name.task[2] = g.name /\ u.slice = n
<1>1. PICK g \in ToSet(job.groups) : \E n \in 1..g.count :
        /\ InSlice(u, g, n) /\ GroupFacts(g) /\ u.name.task[2] = g.name /\ u.slice = n
        /\ n \in Nat /\ n # 0
  BY FleetUnit
<1>2. PICK n \in 1..g.count :
        /\ InSlice(u, g, n) /\ GroupFacts(g) /\ u.name.task[2] = g.name /\ u.slice = n
        /\ n \in Nat /\ n # 0
  BY <1>1
<1>3. PICK i, k : UnitOf(u, job, g, n, Cluster, i, k)
  BY <1>2, FleetService
<1>4. AreTasks(g.tasks) /\ g.count \in Int
  BY <1>2 DEF GroupFacts, IsGroup
<1>5. i \in DOMAIN g.tasks /\ IsTask(g.tasks[i]) /\ k \in 1..Len(Kinds(g.tasks[i])) + 1
  BY <1>3, <1>4, ServiceIs
<1>6. NamedAs(u, job, g, g.tasks[i], n, Cluster, k)
  BY <1>3, <1>4, UnitIs
<1>7. Serving(u, g, n, i, k)
  BY <1>1, <1>2, <1>4, <1>5, <1>6 DEF Serving
<1> QED BY <1>2, <1>7

\* What it has from that.
Looks(u, g, n, i, k) ==
  /\ u.name = UnitName(job, g, g.tasks[i], KindAt(g.tasks[i], k), n, "service")
  /\ u.name.task = <<job.name, g.name, g.tasks[i].name>>
  /\ u.name.kind = KindAt(g.tasks[i], k)
  /\ u.name.at = IF g.global /\ g.count = 1 THEN 0 ELSE n
  /\ u.container = <<ContainerName(job, g, g.tasks[i], n, PartAt(g.tasks[i], k))>>
  /\ u.conflicts = Excluded(job, g, g.tasks[i], KindAt(g.tasks[i], k), Cluster)
  /\ u.instance = IF Cluster.instances > 1 /\ g.global /\ g.count > 1 THEN <<n>> ELSE <<>>

\* The name, container and conflicts of such a service.
LEMMA ServingIs ==
  ASSUME NEW u, NEW g, NEW n, NEW i, NEW k, Serving(u, g, n, i, k)
  PROVE  Looks(u, g, n, i, k)
<1> DEFINE d == DefaultUnit(job, g, g.tasks[i], KindAt(g.tasks[i], k), n, Cluster)
<1>1. /\ u.name = UnitName(job, g, g.tasks[i], KindAt(g.tasks[i], k), n, "service")
      /\ u.container = <<ContainerName(job, g, g.tasks[i], n, PartAt(g.tasks[i], k))>>
      /\ u.conflicts = d.conflicts /\ u.instance = d.instance
  BY DEF Serving, NamedAs
<1>2. /\ u.name.task = <<job.name, g.name, g.tasks[i].name>>
      /\ u.name.kind = KindAt(g.tasks[i], k)
      /\ u.name.at = IF g.global /\ g.count = 1 THEN 0 ELSE n
  BY <1>1 DEF UnitName
<1>3. d.conflicts = Excluded(job, g, g.tasks[i], KindAt(g.tasks[i], k), Cluster)
  <2>1. \A t, kind : DefaultUnit(job, g, t, kind, n, Cluster).conflicts = Excluded(job, g, t, kind, Cluster)
    BY ConflictsAre
  <2> QED BY <2>1
<1>4. d.instance = IF Cluster.instances > 1 /\ g.global /\ g.count > 1 THEN <<n>> ELSE <<>>
  BY ConflictsAre
<1> HIDE DEF d
<1> QED BY <1>1, <1>2, <1>3, <1>4 DEF Looks

\* Services of one task name are of one task.
LEMMA SameTask ==
  ASSUME NEW u, NEW g, NEW n, NEW i, NEW k, Serving(u, g, n, i, k),
         NEW v, NEW h, NEW m, NEW x, NEW l, Serving(v, h, m, x, l),
         u.name.task = v.name.task
  PROVE  g = h /\ i = x
<1>0. Looks(u, g, n, i, k) /\ Looks(v, h, m, x, l)
  BY ServingIs
<1>1. <<job.name, g.name, g.tasks[i].name>> = <<job.name, h.name, h.tasks[x].name>>
  <2>1. u.name.task = <<job.name, g.name, g.tasks[i].name>>
    BY <1>0 DEF Looks
  <2>2. v.name.task = <<job.name, h.name, h.tasks[x].name>>
    BY <1>0 DEF Looks
  <2> QED BY <2>1, <2>2
<1>2. g.name = h.name /\ g.tasks[i].name = h.tasks[x].name
  BY <1>1, Third
<1>3. g = h
  BY <1>2 DEF Serving, GroupFacts
<1> QED BY <1>2, <1>3 DEF Serving, GroupFacts, Duplicate

\* Two units of one task and kind are of different slices, and there is more than one.
LEMMA SlicesDiffer ==
  ASSUME NEW u, NEW g, NEW n, NEW i, NEW k, Serving(u, g, n, i, k),
         NEW v, NEW m, Serving(v, g, m, i, k), u # v
  PROVE  n # m /\ g.count > 1
<1>0. Looks(u, g, n, i, k) /\ Looks(v, g, m, i, k)
  BY ServingIs
<1>1. u.name.task = v.name.task /\ u.name.kind = v.name.kind
  <2>1. u.name.task = <<job.name, g.name, g.tasks[i].name>> /\ u.name.kind = KindAt(g.tasks[i], k)
    BY <1>0 DEF Looks
  <2>2. v.name.task = <<job.name, g.name, g.tasks[i].name>> /\ v.name.kind = KindAt(g.tasks[i], k)
    BY <1>0 DEF Looks
  <2> QED BY <2>1, <2>2
<1>2. n # m
  <2> SUFFICES ASSUME n = m PROVE FALSE
    OBVIOUS
  <2>1. /\ u \in ToSet(GroupUnits(job, g, n, Cluster)) /\ v \in ToSet(GroupUnits(job, g, n, Cluster))
        /\ AreTasks(g.tasks) /\ ~Duplicate(g.tasks)
    BY DEF Serving, InSlice, GroupFacts
  <2> QED BY <1>1, <2>1, SameUnit
<1>3. n \in 1..g.count /\ m \in 1..g.count /\ g.count \in Int
  BY DEF Serving
<1> QED BY <1>2, <1>3

\* Two units of one task and kind exclude each other on a cluster of several machines.
LEMMA InstancesApart ==
  ASSUME NEW u, NEW g, NEW n, NEW i, NEW k, Serving(u, g, n, i, k),
         NEW v, NEW m, Serving(v, g, m, i, k), u # v, Cluster.instances > 1
  PROVE  Apart(u, v)
<1>0. Looks(u, g, n, i, k) /\ Looks(v, g, m, i, k)
  BY ServingIs
<1>1. n # m /\ g.count > 1
  BY SlicesDiffer
<1>2. CASE g.global
  <2>1. u.instance = <<n>>
    BY <1>1, <1>2, <1>0 DEF Looks
  <2>2. v.instance = <<m>>
    BY <1>1, <1>2, <1>0 DEF Looks
  <2>3. <<n>> # <<m>> /\ <<n>> # <<>> /\ <<m>> # <<>>
    BY <1>1
  <2> QED BY <2>1, <2>2, <2>3 DEF Apart
<1>3. CASE ~g.global
  <2> DEFINE t == g.tasks[i]
             p == UnitName(job, g, t, KindAt(t, k), AnySlice, "service")
  <2>1. p \in u.conflicts
    BY <1>3, <1>0 DEF Looks, Excluded
  <2>2. v.name = UnitName(job, g, t, KindAt(t, k), m, "service")
    BY <1>0 DEF Looks
  <2>3. m # 0
    BY DEF Serving
  <2>4. Matches(p, v.name)
    <3>1. \A kind, task : UnitName(job, g, task, kind, m, "service").at = m
      BY <1>3 DEF UnitName
    <3>2. \A kind, task : [UnitName(job, g, task, kind, AnySlice, "service") EXCEPT !.at = m]
                            = UnitName(job, g, task, kind, m, "service")
      BY <1>3 DEF UnitName
    <3>3. \A kind, task : UnitName(job, g, task, kind, AnySlice, "service").at = AnySlice
      BY <1>3 DEF UnitName
    <3> QED BY <2>2, <2>3, <3>1, <3>2, <3>3 DEF Matches
  <2> QED BY <2>1, <2>4 DEF Apart
<1> QED BY <1>2, <1>3

\* Containers of one name would be on different machines.
LEMMA ContainersApart ==
  ASSUME OutputOK, Rendering, ~Cluster.kube, Cluster.instances \in Nat,
         NEW u, NEW g, NEW n, NEW i, NEW k, Serving(u, g, n, i, k),
         NEW v, NEW h, NEW m, NEW x, NEW l, Serving(v, h, m, x, l),
         u # v, u.container = v.container
  PROVE  Apart(u, v)
<1>0. Looks(u, g, n, i, k) /\ Looks(v, h, m, x, l)
  BY ServingIs
<1>1. PICK t, s, a, b : t = g.tasks[i] /\ s = h.tasks[x] /\ a = PartAt(t, k) /\ b = PartAt(s, l)
  OBVIOUS
<1>2. u.container = <<ContainerName(job, g, t, n, a)>> /\ v.container = <<ContainerName(job, h, s, m, b)>>
  BY <1>0, <1>1 DEF Looks
<1>3. ContainerName(job, g, t, n, a) = ContainerName(job, h, s, m, b)
  <2>1. <<ContainerName(job, g, t, n, a)>> = <<ContainerName(job, h, s, m, b)>>
    BY <1>2
  <2>2. \A y, z : <<y>> = <<z>> => y = z
    OBVIOUS
  <2> QED BY <2>1, <2>2
<1>4. /\ <<job.name, g.name, t.name>> = <<job.name, h.name, s.name>> /\ a = b
      /\ (IF g.global THEN 0 ELSE n) = IF h.global THEN 0 ELSE m
  BY <1>3 DEF ContainerName
<1>5. u.name.task = v.name.task
  BY <1>0, <1>1, <1>4 DEF Looks
<1>6. g = h /\ i = x
  BY <1>5, SameTask
<1>7. k = l
  BY <1>1, <1>4, <1>6, KindsTellApart DEF Serving
<1>8. Serving(v, g, m, i, k)
  BY <1>6, <1>7
<1>9. n # m /\ g.count > 1
  BY <1>8, SlicesDiffer
<1>10. g.global
  BY <1>4, <1>6, <1>9
<1>11. g.count <= Cluster.instances /\ g.count \in Int
  BY <1>10 DEF OutputOK, Serving
<1>12. Cluster.instances > 1
  BY <1>9, <1>11
<1> QED BY <1>8, <1>12, InstancesApart

\* No unit of a slice is kept away by another, unless the group is to keep away from itself.
LEMMA ConflictsMiss ==
  ASSUME IsList(job.groups),
         NEW u, NEW g, NEW n, NEW i, NEW k, Serving(u, g, n, i, k),
         NEW v, NEW x, NEW l, Serving(v, g, n, x, l),
         u # v, \A c \in Own(job, g) : c.value # g.name, NEW p \in u.conflicts
  PROVE  ~Matches(p, v.name)
<1> SUFFICES ASSUME Matches(p, v.name) PROVE FALSE
  OBVIOUS
<1>0. Looks(u, g, n, i, k) /\ Looks(v, g, n, x, l)
  BY ServingIs
<1>1. PICK t, kind : t = g.tasks[i] /\ kind = KindAt(t, k)
  OBVIOUS
<1>2. p \in Excluded(job, g, t, kind, Cluster)
  BY <1>0, <1>1 DEF Looks
<1>3. \A j1, g1, t1, kind1 :
        LET q == UnitName(j1, g1, t1, kind1, AnySlice, "service")
        IN  Matches(q, v.name) => /\ v.name.task = <<j1.name, g1.name, t1.name>>
                                  /\ v.name.kind = kind1
  <2> SUFFICES ASSUME NEW j1, NEW g1, NEW t1, NEW kind1,
                      Matches(UnitName(j1, g1, t1, kind1, AnySlice, "service"), v.name)
               PROVE  v.name.task = <<j1.name, g1.name, t1.name>> /\ v.name.kind = kind1
    OBVIOUS
  <2> DEFINE q == UnitName(j1, g1, t1, kind1, AnySlice, "service")
  <2>1. [q EXCEPT !.at = v.name.at] = v.name
    BY DEF Matches
  <2>2. [q EXCEPT !.at = v.name.at].task = <<j1.name, g1.name, t1.name>>
        /\ [q EXCEPT !.at = v.name.at].kind = kind1
    BY DEF UnitName
  <2> HIDE DEF q
  <2> QED BY <2>1, <2>2
<1>4. CASE p = UnitName(job, g, t, kind, AnySlice, "service")
  <2>1. v.name.task = <<job.name, g.name, t.name>> /\ v.name.kind = kind
    BY <1>3, <1>4
  <2>2. u.name.task = v.name.task /\ u.name.kind = v.name.kind
    BY <2>1, <1>0, <1>1 DEF Looks
  <2>3. /\ u \in ToSet(GroupUnits(job, g, n, Cluster)) /\ v \in ToSet(GroupUnits(job, g, n, Cluster))
        /\ AreTasks(g.tasks) /\ ~Duplicate(g.tasks)
    BY DEF Serving, InSlice, GroupFacts
  <2> QED BY <2>2, <2>3, SameUnit
<1>5. CASE p \in OthersOf(job, g)
  <2>1. PICK c \in Own(job, g) : \E y \in ToSet(Get(job.groups, c.value).tasks) :
          p = UnitName(job, Get(job.groups, c.value), y, <<"mn">>, AnySlice, "service")
    BY <1>5 DEF OthersOf
  <2>2. PICK h : h = Get(job.groups, c.value)
    OBVIOUS
  <2>3. PICK y : p = UnitName(job, h, y, <<"mn">>, AnySlice, "service")
    BY <2>1, <2>2
  <2>4. v.name.task = <<job.name, h.name, y.name>>
    BY <1>3, <2>3
  <2>5. v.name.task = <<job.name, g.name, g.tasks[x].name>>
    BY <1>0 DEF Looks
  <2>6. <<job.name, h.name, y.name>> = <<job.name, g.name, g.tasks[x].name>>
    BY <2>4, <2>5
  <2>7. h.name = g.name
    BY <2>6, Third
  <2>8. h.name = c.value
    <3>1. Known(job.groups, c.value)
      BY DEF Serving, InSlice, UnitsFail, ConstraintsFail, Own
    <3> QED BY <2>2, <3>1, IndexFinds DEF Get, Known
  <2> QED BY <2>7, <2>8
<1> QED BY <1>2, <1>4, <1>5 DEF Excluded

\* A group keeps away from the group that a constraint names.
LEMMA KeptAway ==
  ASSUME NEW u, NEW g, NEW n, NEW i, NEW k, Serving(u, g, n, i, k),
         NEW v, NEW h, NEW m, NEW x, NEW l, Serving(v, h, m, x, l),
         NEW c \in Own(job, g), c.value = h.name, v.name.kind = <<"mn">>
  PROVE  Apart(u, v)
<1>0. Looks(u, g, n, i, k) /\ Looks(v, h, m, x, l)
  BY ServingIs
<1>1. Get(job.groups, c.value) = h /\ h.tasks[x] \in ToSet(h.tasks)
  BY DEF Serving, GroupFacts, ToSet
<1>2. PICK s : s = h.tasks[x]
  OBVIOUS
<1>3. UnitName(job, h, s, <<"mn">>, AnySlice, "service") \in OthersOf(job, g)
  BY <1>1, <1>2 DEF OthersOf
<1>4. UnitName(job, h, s, <<"mn">>, AnySlice, "service") \in u.conflicts
  BY <1>0, <1>3 DEF Looks, Excluded
<1>5. v.name = UnitName(job, h, s, <<"mn">>, m, "service")
  BY <1>0, <1>2 DEF Looks
<1>6. m # 0
  BY DEF Serving
<1>7. Matches(UnitName(job, h, s, <<"mn">>, AnySlice, "service"), v.name)
  <2>1. CASE h.global /\ h.count = 1
    <3>1. UnitName(job, h, s, <<"mn">>, AnySlice, "service") = v.name
      BY <1>5, <2>1 DEF UnitName
    <3>2. [v.name EXCEPT !.at = v.name.at] = v.name
      BY <1>5 DEF UnitName
    <3> QED BY <3>1, <3>2 DEF Matches
  <2>2. CASE ~(h.global /\ h.count = 1)
    <3>1. v.name.at = m /\ UnitName(job, h, s, <<"mn">>, AnySlice, "service").at = AnySlice
      BY <1>5, <2>2 DEF UnitName
    <3>2. [UnitName(job, h, s, <<"mn">>, AnySlice, "service") EXCEPT !.at = m] = v.name
      BY <1>5, <2>2 DEF UnitName
    <3> QED BY <1>6, <3>1, <3>2 DEF Matches
  <2> QED BY <2>1, <2>2
<1> QED BY <1>4, <1>7 DEF Apart

\* The services of one slice never exclude each other.
LEMMA SliceTogether ==
  ASSUME IsList(job.groups), NEW g, NEW n,
         NEW u, NEW i, NEW k, Serving(u, g, n, i, k),
         NEW v, NEW x, NEW l, Serving(v, g, n, x, l),
         u # v, \A c \in Own(job, g) : c.value # g.name
  PROVE  ~Apart(u, v)
<1>1. \A p \in u.conflicts : ~Matches(p, v.name)
  BY ConflictsMiss
<1>2. \A p \in v.conflicts : ~Matches(p, u.name)
  BY ConflictsMiss
<1>3. Looks(u, g, n, i, k) /\ Looks(v, g, n, x, l)
  BY ServingIs
<1>4. u.instance = v.instance
  BY <1>3 DEF Looks
<1> QED BY <1>1, <1>2, <1>4 DEF Apart

\* What PlacedApart says of two services of groups g and h.
PairPlaced(u, v, g) ==
  LET same == u.name.task[2] = v.name.task[2]
  IN  /\ u.container = v.container => Apart(u, v)
      /\ same /\ u.slice = v.slice /\ ~(\E c \in Own(job, g) : c.value = g.name) => ~Apart(u, v)
      /\ same /\ u.slice = v.slice /\ ~g.global =>
           \E first \in (u.machineOf \cup {u.name}) \cap (v.machineOf \cup {v.name}) :
             \E w \in ToSet(output) : w.name = first
      /\ u.name.task = v.name.task /\ u.name.kind = v.name.kind /\ Cluster.instances > 1
         => Apart(u, v)
      /\ \A c \in Own(job, g) : c.value = v.name.task[2] /\ v.name.kind = <<"mn">> => Apart(u, v)

\* Two services are placed as PlacedApart asks.
LEMMA PairsAre ==
  ASSUME JobOK, OutputOK, Rendering, ~Cluster.kube, Cluster.instances \in Nat,
         NEW u, NEW g, NEW n, NEW i, NEW k, Serving(u, g, n, i, k),
         u.name.task[2] = g.name, u.slice = n,
         NEW v, NEW h, NEW m, NEW x, NEW l, Serving(v, h, m, x, l),
         v.name.task[2] = h.name, v.slice = m, u # v
  PROVE  PairPlaced(u, v, g)
<1>1. Looks(u, g, n, i, k) /\ Looks(v, h, m, x, l)
  BY ServingIs
<1>2. ASSUME u.name.task[2] = v.name.task[2] PROVE g = h
  BY <1>2 DEF Serving, GroupFacts
<1>3. ASSUME u.container = v.container PROVE Apart(u, v)
  BY <1>3, ContainersApart
<1>4. ASSUME u.name.task[2] = v.name.task[2], u.slice = v.slice,
             ~(\E c \in Own(job, g) : c.value = g.name)
      PROVE  ~Apart(u, v)
  <2>1. Serving(v, g, n, x, l)
    BY <1>2, <1>4
  <2>2. IsList(job.groups)
    BY DEF JobOK, IsJob, AreGroups
  <2> QED BY <1>4, <2>1, <2>2, SliceTogether
<1>5. ASSUME u.name.task[2] = v.name.task[2], u.slice = v.slice, ~g.global
      PROVE  \E first \in (u.machineOf \cup {u.name}) \cap (v.machineOf \cup {v.name}) :
               \E w \in ToSet(output) : w.name = first
  <2>1. Serving(v, g, n, x, l)
    BY <1>2, <1>5
  <2>2. /\ u \in ToSet(GroupUnits(job, g, n, Cluster)) /\ v \in ToSet(GroupUnits(job, g, n, Cluster))
        /\ ToSet(GroupUnits(job, g, n, Cluster)) \subseteq ToSet(output) /\ AreTasks(g.tasks)
    BY <2>1 DEF Serving, InSlice, GroupFacts
  <2>3. \E w \in ToSet(GroupUnits(job, g, n, Cluster)) :
          w.name \in (u.machineOf \cup {u.name}) \cap (v.machineOf \cup {v.name})
    BY <1>5, <2>2, UnitsOfGroup
  <2> QED BY <2>2, <2>3
<1>6. ASSUME u.name.task = v.name.task, u.name.kind = v.name.kind, Cluster.instances > 1
      PROVE  Apart(u, v)
  <2>1. g = h /\ i = x
    BY <1>6, SameTask
  <2>2. KindAt(g.tasks[i], k) = KindAt(g.tasks[i], l)
    BY <1>1, <1>6, <2>1 DEF Looks
  <2>3. k = l
    BY <2>1, <2>2, KindsTellApart DEF Serving
  <2>4. Serving(v, g, m, i, k)
    BY <2>1, <2>3
  <2> QED BY <1>6, <2>4, InstancesApart
<1>7. ASSUME NEW c \in Own(job, g), c.value = v.name.task[2], v.name.kind = <<"mn">>
      PROVE  Apart(u, v)
  BY <1>7, KeptAway
<1> QED BY <1>3, <1>4, <1>5, <1>6, <1>7 DEF PairPlaced

\* The invariant implies PlacedApart.
LEMMA InvIsApart ==
  ASSUME PipelineInv
  PROVE  PlacedApart
<1>0. JobOK /\ OutputOK /\ Cluster.instances \in Nat
  <2>1. JobOK /\ OutputOK
    BY DEF PipelineInv
  <2>2. file \in File
    BY <2>1 DEF JobOK
  <2> QED BY <2>1, <2>2, FileAssumption DEF FileAssumption, Cluster
<1> SUFFICES ASSUME stage = "done", ~Cluster.kube,
                    NEW u \in ToSet(output), u.name.type = "service",
                    NEW v \in ToSet(output), v.name.type = "service", u # v
             PROVE  PairPlaced(u, v, Get(job.groups, u.name.task[2]))
  BY DEF PlacedApart, PairPlaced, Own
<1>1. Rendering
  BY DEF Rendering
<1>2. PICK g, n, i, k : Serving(u, g, n, i, k) /\ u.name.task[2] = g.name /\ u.slice = n
  BY <1>0, <1>1, ServicesServe
<1>3. PICK h, m, x, l : Serving(v, h, m, x, l) /\ v.name.task[2] = h.name /\ v.slice = m
  BY <1>0, <1>1, ServicesServe
<1>4. Get(job.groups, u.name.task[2]) = g
  BY <1>2 DEF Serving, GroupFacts
<1>5. PairPlaced(u, v, g)
  BY <1>0, <1>1, <1>2, <1>3, PairsAre
<1> QED BY <1>4, <1>5

\* Where fleet puts the units holds for every job file and cluster of machines: containers of
\* one name and instances of a task are kept apart, groups keep away from the groups they
\* name, and the units of a slice are led to one machine and never exclude each other.
THEOREM PlacedAsAsked == Spec => []PlacedApart
<1>1. PipelineInv => PlacedApart
  BY InvIsApart
<1> QED BY <1>1, PipelineKeeps, PTL

-----------------------------------------------------------------------------
(* What a container refers to.                                               *)

\* What is to be served has a service once every group is rendered.
LEMMA ServiceRendered ==
  ASSUME JobOK, OutputOK, DoneOK, stage = "done", Cluster.kube, file.selected = {},
         NEW g \in ToSet(job.groups), NEW t \in ToSet(g.tasks), t.type = "proxy" \/ HasService(t)
  PROVE  ServiceName(g, t) \in {s.name : s \in OfKind("service")}
<1>1. todo = <<>> /\ AllRendered(job, todo, output)
  BY DEF OutputOK, DoneOK, Rendering
<1>2. PICK i \in DOMAIN job.groups : g = job.groups[i]
  BY DEF ToSet
<1>3. GroupRendered(job, g, output)
  BY <1>1, <1>2 DEF AllRendered
<1>4. PICK pod : /\ PodOf(pod, g) /\ t \in ToSet(pod.tasks)
                 /\ ToSet(Resources(job, g, pod)) \subseteq ToSet(output)
  BY <1>3 DEF GroupRendered
<1>5. \E u \in ToSet(Resources(job, g, pod)) : u.kind = "service" /\ u.name = ServiceName(g, t)
  BY <1>4, ResourcesAre DEF PodOf, AreTasks
<1> QED BY <1>4, <1>5 DEF OfKind

\* The rules of an ingress lead to the backends of its ports.
LEMMA RulesAre ==
  ASSUME NEW j, NEW g, NEW t, IsTask(t), NEW r \in ToSet(Ingress(j, g, t).rules)
  PROVE  \E port : r.backend = IngressBackend(j, g, t, port)
<1> DEFINE a == [i \in DOMAIN t.public |->
                   [host |-> [public |-> t.public[i].domain],
                    backend |-> IngressBackend(j, g, t, t.public[i].port)]]
           b == [i \in DOMAIN t.private |->
                   [host |-> TaskDNSName(j, g, t),
                    backend |-> IngressBackend(j, g, t, t.private[i].port)]]
<1>1. Ingress(j, g, t).rules = a \o b
  BY DEF Ingress
<1>2. IsList(a) /\ IsList(b)
  <2>1. IsList(t.public) /\ IsList(t.private)
    BY FieldsOfTask
  <2>2. a = [i \in DOMAIN t.public |-> a[i]] /\ b = [i \in DOMAIN t.private |-> b[i]]
    OBVIOUS
  <2> HIDE DEF a, b
  <2> QED BY <2>1, <2>2, ListOfAll
<1>3. (\A i \in DOMAIN a : \E port : a[i].backend = IngressBackend(j, g, t, port))
      /\ \A i \in DOMAIN b : \E port : b[i].backend = IngressBackend(j, g, t, port)
  OBVIOUS
<1> HIDE DEF a, b
<1>4. r \in ToSet(a) \cup ToSet(b)
  BY <1>1, <1>2, ListsJoin
<1> QED BY <1>3, <1>4 DEF ToSet

\* Which is the task of the ingress, what it is a proxy of, or something of another job.
LEMMA BackendIs ==
  ASSUME NEW j, NEW g, NEW t, NEW port
  PROVE  LET b == IngressBackend(j, g, t, port)
             r == Resolve(t.target, j)
         IN  \/ b.svc = ServiceName(g, t)
             \/ r.to = "task" /\ b.svc = ServiceName(r.group, r.task)
             \/ r.to = "dependency" /\ b.ns = DependencyDNSName(r.dep).ns
<1> DEFINE b == IngressBackend(j, g, t, port)
           r == Resolve(t.target, j)
<1>1. CASE t.type = "proxy" /\ t.rewrite = <<>> /\ r.to = "task"
  <2>1. \E p : b = [svc |-> TaskDNSName(j, r.group, r.task).svc,
                    ns |-> TaskDNSName(j, r.group, r.task).ns, port |-> p]
    BY <1>1 DEF IngressBackend
  <2> HIDE DEF b, r
  <2> QED BY <1>1, <2>1 DEF TaskDNSName, b, r
<1>2. CASE t.type = "proxy" /\ t.rewrite = <<>> /\ r.to = "dependency"
  <2>1. \E p : b = [svc |-> DependencyDNSName(r.dep).svc, ns |-> DependencyDNSName(r.dep).ns, port |-> p]
    BY <1>2 DEF IngressBackend
  <2> HIDE DEF b, r
  <2> QED BY <1>2, <2>1 DEF b, r
<1>3. CASE ~(t.type = "proxy" /\ t.rewrite = <<>> /\ r.to \in {"task", "dependency"})
  <2>1. b = [svc |-> TaskDNSName(j, g, t).svc, ns |-> TaskDNSName(j, g, t).ns, port |-> port]
    BY <1>3 DEF IngressBackend
  <2> HIDE DEF b, r
  <2> QED BY <2>1 DEF TaskDNSName, b, r
<1> QED BY <1>1, <1>2, <1>3

\* The tasks of the groups are in AllTasks.
LEMMA TaskListed ==
  ASSUME NEW g \in ToSet(job.groups), NEW t \in ToSet(g.tasks)
  PROVE  [group |-> g, task |-> t] \in AllTasks
<1> DEFINE of(h) == {[group |-> h, task |-> x] : x \in ToSet(h.tasks)}
<1>1. [group |-> g, task |-> t] \in of(g)
  OBVIOUS
<1>2. AllTasks = UNION {of(h) : h \in ToSet(job.groups)}
  BY DEF AllTasks
<1> HIDE DEF of
<1> QED BY <1>1, <1>2

\* A resource is of a pod whose resources are all rendered.
LEMMA KubeResource ==
  ASSUME JobOK, OutputOK, Cluster.kube, NEW u \in ToSet(output)
  PROVE  \E g \in ToSet(job.groups) : \E pod :
           /\ PodOf(pod, g) /\ IsList(pod.tasks) /\ u \in ToSet(Resources(job, g, pod))
           /\ ToSet(Resources(job, g, pod)) \subseteq ToSet(output)
BY DEF OutputOK, KubeOK, PodOf, AreTasks

\* The containers of a controller mount what the pod has, and their secrets are rendered.
LEMMA SpecsAreProvided ==
  ASSUME JobOK, OutputOK, Cluster.kube, NEW c \in ToSet(output),
         c.kind \in {"deployment", "daemonset", "job"},
         NEW k \in ToSet(c.spec.init \o c.spec.containers)
  PROVE  /\ k.mounts \subseteq c.spec.volumes
         /\ k.secret # <<>> => k.secret \in {s.name : s \in OfKind("secret")}
<1>1. PICK g, pod :
        /\ g \in ToSet(job.groups) /\ PodOf(pod, g) /\ IsList(pod.tasks)
        /\ c \in ToSet(Resources(job, g, pod))
        /\ ToSet(Resources(job, g, pod)) \subseteq ToSet(output)
  BY KubeResource
<1>2. c.spec = PodSpec(job, g, pod.tasks)
  BY <1>1, ResourcesAre
<1>3. Provided(k, job, g, pod.tasks)
  BY <1>1, <1>2, SpecProvides DEF PodOf
<1>4. ASSUME k.secret # <<>> PROVE k.secret \in {s.name : s \in OfKind("secret")}
  <2>1. PICK t \in ToSet(pod.tasks) : t.secrets # <<>> /\ k.secret = SecretName(g, t)
    BY <1>3, <1>4 DEF Provided
  <2>2. \E u \in ToSet(Resources(job, g, pod)) : u.kind = "secret" /\ u.name = SecretName(g, t)
    BY <1>1, <2>1, ResourcesAre
  <2> QED BY <1>1, <2>1, <2>2 DEF OfKind
<1> QED BY <1>2, <1>3, <1>4 DEF Provided

\* The service behind an ingress is rendered.
LEMMA IngressesLead ==
  ASSUME JobOK, DepsOK, OutputOK, DoneOK, stage = "done", Cluster.kube, file.selected = {},
         FrontendsServe, NEW i \in OfKind("ingress"), NEW r \in ToSet(i.rules),
         r.backend.ns = job.name
  PROVE  r.backend.svc \in {s.name : s \in OfKind("service")}
<1>1. PICK g, pod :
        /\ g \in ToSet(job.groups) /\ PodOf(pod, g) /\ IsList(pod.tasks)
        /\ i \in ToSet(Resources(job, g, pod))
        /\ ToSet(Resources(job, g, pod)) \subseteq ToSet(output)
  BY KubeResource DEF OfKind
<1>2. PICK t \in ToSet(pod.tasks) : HasFrontends(t) /\ i = Ingress(job, g, t)
  BY <1>1, ResourcesAre DEF OfKind
<1>3. g \in ToSet(job.groups) /\ t \in ToSet(g.tasks) /\ IsTask(t)
  BY <1>1 DEF PodOf, AreTasks
<1>4. PICK port : r.backend = IngressBackend(job, g, t, port)
  BY <1>2, <1>3, RulesAre
<1>5. PICK q : q = Resolve(t.target, job)
  OBVIOUS
<1>6. \/ r.backend.svc = ServiceName(g, t)
      \/ q.to = "task" /\ r.backend.svc = ServiceName(q.group, q.task)
      \/ q.to = "dependency" /\ r.backend.ns = DependencyDNSName(q.dep).ns
  BY <1>4, <1>5, BackendIs
<1>7. IsJob(job) /\ HasDeps(job)
  BY DEF JobOK, DepsOK, Rendering
<1>8. /\ q.to = "task" => q.group \in ToSet(job.groups) /\ q.task \in ToSet(q.group.tasks)
      /\ q.to = "dependency" => DependencyDNSName(q.dep).ns # job.name
  BY <1>5, <1>7, ResolvedIsThere
<1>9. \A h \in ToSet(job.groups) : \A s \in ToSet(h.tasks) : [group |-> h, task |-> s] \in AllTasks
  BY TaskListed
<1>10. CASE r.backend.svc = ServiceName(g, t)
  <2> DEFINE f == [group |-> g, task |-> t]
  <2>1. f \in AllTasks /\ f.task = t
    BY <1>3, <1>9
  <2>2. Serves(f)
    <3> HIDE DEF f
    <3> QED BY <1>2, <2>1 DEF FrontendsServe
  <2>3. t.type = "proxy" \/ HasService(t)
    BY <2>1, <2>2 DEF Serves
  <2> QED BY <1>3, <1>10, <2>3, ServiceRendered
<1>11. CASE q.to = "task" /\ r.backend.svc = ServiceName(q.group, q.task)
  <2> DEFINE f == [group |-> g, task |-> t]
             to == [group |-> q.group, task |-> q.task]
  <2>1. f \in AllTasks /\ f.task = t
    BY <1>3, <1>9
  <2>2. to \in AllTasks /\ to.group = q.group /\ to.task = q.task
    BY <1>8, <1>9, <1>11
  <2> HIDE DEF f, to
  <2>3. to \in Linked(t.target)
    BY <1>5, <1>11, <2>2 DEF Linked
  <2>4. Serves(to)
    BY <1>2, <2>1, <2>3 DEF FrontendsServe
  <2>5. q.task.type = "proxy" \/ HasService(q.task)
    BY <2>2, <2>4 DEF Serves
  <2> QED BY <1>8, <1>11, <2>5, ServiceRendered
<1>12. CASE q.to = "dependency" /\ r.backend.ns = DependencyDNSName(q.dep).ns
  BY <1>8, <1>12
<1> QED BY <1>6, <1>10, <1>11, <1>12

\* The unit of task x in place l is rendered with the others of its slice.
LEMMA UnitRendered ==
  ASSUME NEW g, GroupFacts(g), NEW n, NEW u, InSlice(u, g, n),
         NEW x \in DOMAIN g.tasks, NEW l \in 1..Len(Kinds(g.tasks[x])) + 1
  PROVE  \E v \in ToSet(output) : UnitOf(v, job, g, n, Cluster, x, l)
<1>1. AreTasks(g.tasks) /\ IsTask(g.tasks[x])
  BY DEF GroupFacts, AreTasks, ToSet
<1>2. l \in DOMAIN Base(job, g, g.tasks[x], n, Cluster)
  <2>1. PICK t : t = g.tasks[x]
    OBVIOUS
  <2>2. /\ IsList(Base(job, g, t, n, Cluster))
        /\ Len(Base(job, g, t, n, Cluster)) = Len(Kinds(t)) + 1
    BY <1>1, <2>1, ChainOf
  <2>3. DOMAIN Base(job, g, t, n, Cluster) = 1..Len(Kinds(t)) + 1
    BY <2>2, ListFacts
  <2> QED BY <2>1, <2>3
<1>3. \E v \in ToSet(GroupUnits(job, g, n, Cluster)) : UnitOf(v, job, g, n, Cluster, x, l)
  BY <1>1, <1>2, UnitsOfGroup
<1> QED BY <1>3 DEF InSlice

\* A unit that needs another and starts after it.
Waits(u, v) == v.name \in u.requires /\ v.name \in u.after

\* What a unit of a chain keeps when the chains are joined.
KeptFrom(u, b) ==
  /\ b.requires \subseteq u.requires /\ b.after \subseteq u.after
  /\ u.uses = b.uses /\ u.reads = b.reads /\ u.makes = b.makes

\* What has grown keeps that.
LEMMA GrownKeeps ==
  ASSUME NEW u, NEW b, Grown(u, b)
  PROVE  KeptFrom(u, b)
<1>1. {"uses", "reads", "makes"} \subseteq UnitFields \ {"requires", "after", "machineOf"}
  BY DEF UnitFields
<1> QED BY <1>1 DEF Grown, KeptFrom

\* Unit u is the main unit of task i of group g in slice n.
IsMain(u, g, n, i) ==
  i \in DOMAIN g.tasks /\ UnitOf(u, job, g, n, Cluster, i, Len(Kinds(g.tasks[i])) + 1)

\* Unit u looks like the main unit of task t.
MainLooks(u, g, n, t) ==
  /\ u.name = UnitName(job, g, t, <<"mn">>, n, "service")
  /\ u.name.task = <<job.name, g.name, t.name>>
  /\ u.container = <<ContainerName(job, g, t, n, <<>>)>>
  /\ SideNames(job, g, t, n) \cup Mains(job, g, t, n) \subseteq u.requires
  /\ SideNames(job, g, t, n) \cup Mains(job, g, t, n) \subseteq u.after
  /\ u.uses = UsedBy(job, g, t, n) /\ u.reads = Read(t) /\ u.makes = Made(t)

\* Main units look like that: joining the chains only adds to what they wait for.
LEMMA MainWaits ==
  ASSUME NEW g, GroupFacts(g), NEW n, NEW u, NEW i, IsMain(u, g, n, i)
  PROVE  MainLooks(u, g, n, g.tasks[i])
<1> DEFINE t == g.tasks[i]
           k == Len(Kinds(t)) + 1
           b == Base(job, g, t, n, Cluster)[k]
           main == MainUnit(job, g, t, n, SideNames(job, g, t, n), Cluster)
<1>1. AreTasks(g.tasks) /\ UnitOf(u, job, g, n, Cluster, i, k)
  BY DEF GroupFacts, IsMain
<1>2. /\ IsTask(t) /\ k \in DOMAIN Base(job, g, t, n, Cluster)
      /\ NamedAs(u, job, g, t, n, Cluster, k)
  BY <1>1, UnitIs
<1>9. KeptFrom(u, b)
  BY <1>1, GrownKeeps DEF UnitOf
<1>3. b = main
  <2>1. PICK s, m : s = t /\ m = k
    OBVIOUS
  <2>2. Base(job, g, s, n, Cluster)[m] = MainUnit(job, g, s, n, SideNames(job, g, s, n), Cluster)
    <3>1. IsTask(s) /\ m \in DOMAIN Base(job, g, s, n, Cluster) /\ m = Len(Kinds(s)) + 1
      BY <1>2, <2>1
    <3> QED BY <3>1, BaseIs
  <2> QED BY <2>1, <2>2
<1>4. /\ main.requires = SideNames(job, g, t, n) \cup Mains(job, g, t, n)
      /\ main.after = SideNames(job, g, t, n) \cup Mains(job, g, t, n)
      /\ main.uses = UsedBy(job, g, t, n) /\ main.reads = Read(t) /\ main.makes = Made(t)
  BY MainIs
<1>5. KindAt(t, k) = <<"mn">> /\ PartAt(t, k) = <<>>
  BY DEF KindAt, PartAt
<1> HIDE DEF b, main, k, t
<1>6. u.name = UnitName(job, g, t, <<"mn">>, n, "service")
      /\ u.container = <<ContainerName(job, g, t, n, <<>>)>>
  BY <1>2, <1>5 DEF NamedAs
<1>7. u.name.task = <<job.name, g.name, t.name>>
  BY <1>6 DEF UnitName
<1>8. MainLooks(u, g, n, t)
  BY <1>3, <1>4, <1>6, <1>7, <1>9 DEF MainLooks, KeptFrom
<1> QED BY <1>8 DEF t

\* Unit w waits for a unit that runs the container of the part.
HasSide(w, g, n, t, part) ==
  \E v \in ToSet(output) : Waits(w, v) /\ v.container = <<ContainerName(job, g, t, n, part)>>

\* The container of a kind of a task is run by a sidekick that its main unit waits for.
LEMMA SideServes ==
  ASSUME NEW g, GroupFacts(g), NEW n, NEW u, InSlice(u, g, n), NEW i,
         NEW w, IsMain(w, g, n, i), NEW kind \in ToSet(Kinds(g.tasks[i]))
  PROVE  HasSide(w, g, n, g.tasks[i], kind)
<1> DEFINE t == g.tasks[i]
<1>1. i \in DOMAIN g.tasks /\ AreTasks(g.tasks) /\ IsTask(t)
  BY DEF IsMain, GroupFacts, AreTasks, ToSet
<1>2. IsList(Kinds(t)) /\ Len(Kinds(t)) \in Nat /\ DOMAIN Kinds(t) = 1..Len(Kinds(t))
  BY <1>1, KindsDiffer, ListFacts
<1>3. PICK l \in DOMAIN Kinds(t) : kind = Kinds(t)[l]
  BY DEF ToSet
<1>4. l \in 1..Len(Kinds(t)) + 1 /\ l # Len(Kinds(t)) + 1
  BY <1>2, <1>3
<1>5. PICK v \in ToSet(output) : UnitOf(v, job, g, n, Cluster, i, l)
  BY <1>1, <1>4, UnitRendered
<1>6. NamedAs(v, job, g, t, n, Cluster, l)
  BY <1>1, <1>5, UnitIs
<1>7. MainLooks(w, g, n, t)
  BY MainWaits
<1> HIDE DEF t
<1>8. KindAt(t, l) = kind /\ PartAt(t, l) = kind
  BY <1>3, <1>4 DEF KindAt, PartAt
<1>9. v.name = UnitName(job, g, t, kind, n, "service")
      /\ v.container = <<ContainerName(job, g, t, n, kind)>>
  BY <1>6, <1>8 DEF NamedAs
<1>10. v.name \in SideNames(job, g, t, n)
  BY <1>9 DEF SideNames, t
<1>11. HasSide(w, g, n, t, kind)
  BY <1>7, <1>9, <1>10 DEF MainLooks, Waits, HasSide
<1> QED BY <1>11 DEF t

\* The containers of volumes and of tcp links are of the kinds of the task.
LEMMA PartsAreKinds ==
  ASSUME NEW t, IsTask(t)
  PROVE  /\ \A i \in ToSet(VolumeNumbers(t)) : Numbered("vl", i) \in ToSet(Kinds(t))
         /\ \A i \in DOMAIN TcpLinks(t) : Numbered("pr", i) \in ToSet(Kinds(t))
<1> DEFINE a == [i \in DOMAIN TcpLinks(t) |-> Numbered("pr", i)]
           b == [k \in DOMAIN VolumeNumbers(t) |-> Numbered("vl", VolumeNumbers(t)[k])]
<1>1. a = [i \in DOMAIN TcpLinks(t) |-> a[i]] /\ b = [k \in DOMAIN VolumeNumbers(t) |-> b[k]]
  OBVIOUS
<1>2. \A i \in DOMAIN TcpLinks(t) : Numbered("pr", i) \in ToSet(a)
  BY DEF ToSet
<1>3. \A i \in ToSet(VolumeNumbers(t)) : Numbered("vl", i) \in ToSet(b)
  <2> SUFFICES ASSUME NEW i \in ToSet(VolumeNumbers(t)) PROVE Numbered("vl", i) \in ToSet(b)
    OBVIOUS
  <2>1. PICK k \in DOMAIN VolumeNumbers(t) : i = VolumeNumbers(t)[k]
    BY DEF ToSet
  <2>2. k \in DOMAIN b /\ b[k] = Numbered("vl", i)
    BY <2>1
  <2> HIDE DEF b
  <2> QED BY <2>2 DEF ToSet
<1>4. Kinds(t) = a \o b
  BY DEF Kinds
<1> HIDE DEF a, b
<1>5. IsList(a) /\ IsList(b)
  BY <1>1, TcpLinksAreLinks, VolumeNumbersRise, ListOfAll
<1>6. ToSet(Kinds(t)) = ToSet(a) \cup ToSet(b)
  BY <1>4, <1>5, ListsJoin
<1> QED BY <1>2, <1>3, <1>6

\* What u needs and waits for, directly or through one other.
Supplied(u, c) ==
  \E v \in ToSet(output) :
    /\ c \in ToSet(v.container)
    /\ \/ Waits(u, v)
       \/ \E w \in ToSet(output) : Waits(u, w) /\ Waits(w, v)

\* Each container that a main unit uses is supplied.
LEMMA UsesAreSupplied ==
  ASSUME NEW g, GroupFacts(g), NEW n, NEW u, InSlice(u, g, n), NEW i, IsMain(u, g, n, i),
         NEW c \in u.uses
  PROVE  Supplied(u, c)
<1>0. PICK t : t = g.tasks[i]
  OBVIOUS
<1>1. AreTasks(g.tasks) /\ t \in ToSet(g.tasks) /\ IsTask(t)
  BY <1>0 DEF IsMain, GroupFacts, AreTasks, ToSet
<1>2. MainLooks(u, g, n, t)
  BY <1>0, MainWaits
<1>3. \A x : <<x>> # <<>> /\ x \in ToSet(<<x>>)
  BY SmallLists
<1>4. ASSUME NEW kind \in ToSet(Kinds(t)), c = ContainerName(job, g, t, n, kind)
      PROVE  Supplied(u, c)
  <2>1. HasSide(u, g, n, t, kind)
    BY <1>0, SideServes
  <2> QED BY <1>3, <1>4, <2>1 DEF HasSide, Supplied
<1>5. CASE c \in VolumeContainers(job, g, t, n)
  <2>1. PICK m \in ToSet(VolumeNumbers(t)) : c = ContainerName(job, g, t, n, Numbered("vl", m))
    BY <1>5 DEF VolumeContainers
  <2>2. Numbered("vl", m) \in ToSet(Kinds(t))
    BY <1>1, PartsAreKinds
  <2> QED BY <1>4, <2>1, <2>2
<1>6. CASE c \in {ContainerName(job, g, t, n, Numbered("pr", m)) : m \in DOMAIN TcpLinks(t)}
  <2>1. PICK m \in DOMAIN TcpLinks(t) : c = ContainerName(job, g, t, n, Numbered("pr", m))
    BY <1>6
  <2>2. Numbered("pr", m) \in ToSet(Kinds(t))
    BY <1>1, PartsAreKinds
  <2> QED BY <1>4, <2>1, <2>2
<1>7. ASSUME NEW name \in ToSet(t.volumesFrom), NEW o, o = Get(g.tasks, name),
             c \in VolumeContainers(job, g, o, n) \cup {ContainerName(job, g, o, n, <<>>)}
      PROVE  Supplied(u, c)
  <2>1. PICK x : x = Index(g.tasks, name)
    OBVIOUS
  <2>2. x \in DOMAIN g.tasks /\ o = g.tasks[x]
    <3>1. IsList(t.after) /\ IsList(t.volumesFrom) /\ IsList(g.tasks)
      BY <1>1, FieldsOfTask DEF AreTasks
    <3>2. name \in ToSet(t.after \o t.volumesFrom)
      BY <3>1, ListsJoin
    <3>3. x # 0
      BY <1>1, <2>1, <3>2 DEF GroupFacts, GroupIsValid, TaskIsValid, Known
    <3> QED BY <1>7, <2>1, <3>1, <3>3, IndexFinds, ListFacts DEF Get
  <2>3. IsTask(o) /\ Len(Kinds(o)) \in Nat
    BY <1>1, <2>2, KindsDiffer, ListFacts DEF AreTasks, ToSet
  <2>4. PICK w \in ToSet(output) : IsMain(w, g, n, x)
    <3>1. Len(Kinds(g.tasks[x])) + 1 \in 1..Len(Kinds(g.tasks[x])) + 1
      BY <2>2, <2>3
    <3> QED BY <2>2, <3>1, UnitRendered DEF IsMain
  <2>5. MainLooks(w, g, n, o)
    BY <2>2, <2>4, MainWaits
  <2>6. Waits(u, w)
    <3>1. w.name \in Mains(job, g, t, n)
      BY <1>7, <2>5 DEF Mains, MainLooks
    <3> QED BY <1>2, <3>1 DEF Waits, MainLooks
  <2>7. CASE c = ContainerName(job, g, o, n, <<>>)
    BY <1>3, <2>5, <2>6, <2>7 DEF Supplied, MainLooks
  <2>8. CASE c \in VolumeContainers(job, g, o, n)
    <3>1. PICK m \in ToSet(VolumeNumbers(o)) : c = ContainerName(job, g, o, n, Numbered("vl", m))
      BY <2>8 DEF VolumeContainers
    <3>2. PICK kind \in ToSet(Kinds(o)) : c = ContainerName(job, g, o, n, kind)
      BY <2>3, <3>1, PartsAreKinds
    <3>3. HasSide(w, g, n, o, kind)
      BY <2>2, <2>4, SideServes
    <3> QED BY <1>3, <2>6, <3>2, <3>3 DEF HasSide, Supplied
  <2> QED BY <1>7, <2>7, <2>8
<1>8. c \in UsedBy(job, g, t, n)
  BY <1>2 DEF MainLooks
<1> QED BY <1>5, <1>6, <1>7, <1>8 DEF UsedBy

\* A secret with a file or a variable, not both, is read from what is made.
LEMMA ReadIsMade ==
  ASSUME NEW t, ~\E s \in ToSet(t.secrets) : s.file # "" /\ s.env # ""
  PROVE  Read(t) \subseteq Made(t)
BY DEF Read, Made

\* Units by name, and what a set of units needs and starts after, with itself.
UnitsNamed(names) == {v \in ToSet(output) : v.name \in names}
Needs(S) == S \cup UNION {UnitsNamed(x.requires) : x \in S}
Earlier(S) == S \cup UNION {UnitsNamed(x.after) : x \in S}

\* One step of need and of order.
LEMMA NeedsNext ==
  ASSUME NEW S, NEW w \in S, NEW v \in ToSet(output), Waits(w, v)
  PROVE  v \in Needs(S) /\ v \in Earlier(S)
<1>1. v \in UnitsNamed(w.requires) /\ v \in UnitsNamed(w.after)
  BY DEF Waits, UnitsNamed
<1> QED BY <1>1 DEF Needs, Earlier

\* What is supplied is reached in two such steps.
LEMMA SuppliedIsNeeded ==
  ASSUME NEW u \in ToSet(output), NEW c, Supplied(u, c)
  PROVE  c \in UNION {ToSet(v.container) : v \in Needs(Needs({u})) \cap Earlier(Earlier({u}))}
<1>1. PICK v \in ToSet(output) :
        /\ c \in ToSet(v.container)
        /\ Waits(u, v) \/ \E w \in ToSet(output) : Waits(u, w) /\ Waits(w, v)
  BY DEF Supplied
<1>2. \A S : S \subseteq Needs(S) /\ S \subseteq Earlier(S)
  BY DEF Needs, Earlier
<1>3. v \in Needs(Needs({u})) \cap Earlier(Earlier({u}))
  <2>1. CASE Waits(u, v)
    BY <1>2, <2>1, NeedsNext
  <2>2. CASE \E w \in ToSet(output) : Waits(u, w) /\ Waits(w, v)
    <3>1. PICK w \in ToSet(output) : Waits(u, w) /\ Waits(w, v)
      BY <2>2
    <3>2. w \in Needs({u}) /\ w \in Earlier({u})
      BY <3>1, NeedsNext
    <3>3. v \in Needs(Needs({u})) /\ v \in Earlier(Earlier({u}))
      BY <3>1, <3>2, NeedsNext
    <3> QED BY <3>3
  <2> QED BY <1>1, <2>1, <2>2
<1> QED BY <1>1, <1>3

\* What a unit uses and reads is there.
LEMMA FleetRefers ==
  ASSUME JobOK, OutputOK, Rendering, ~Cluster.kube, NEW u \in ToSet(output)
  PROVE  /\ u.uses \subseteq UNION {ToSet(v.container) :
                                      v \in Needs(Needs({u})) \cap Earlier(Earlier({u}))}
         /\ u.reads \subseteq u.makes
            \/ \E f \in AllTasks : /\ u.name.task = <<job.name, f.group.name, f.task.name>>
                                  /\ \E s \in ToSet(f.task.secrets) : s.file # "" /\ s.env # ""
<1>1. PICK g \in ToSet(job.groups) : \E n \in 1..g.count : InSlice(u, g, n) /\ GroupFacts(g)
  BY FleetUnit
<1>2. PICK n \in 1..g.count : InSlice(u, g, n) /\ GroupFacts(g)
  BY <1>1
<1>3. PICK i \in DOMAIN g.tasks : \/ TimerOf(u, job, g, n, i)
                                  \/ \E k : UnitOf(u, job, g, n, Cluster, i, k)
  BY <1>2, SliceUnit DEF InSlice, GroupFacts
<1>4. CASE TimerOf(u, job, g, n, i)
  <2>1. u.uses = {} /\ u.reads = {}
    BY <1>2, <1>4, TimerIs DEF GroupFacts
  <2> QED BY <2>1
<1>5. CASE \E k : UnitOf(u, job, g, n, Cluster, i, k)
  <2> DEFINE t == g.tasks[i]
  <2>1. PICK k : UnitOf(u, job, g, n, Cluster, i, k)
    BY <1>5
  <2> DEFINE b == Base(job, g, t, n, Cluster)[k]
  <2>2. AreTasks(g.tasks)
    BY <1>2 DEF GroupFacts
  <2>3. IsTask(t) /\ t \in ToSet(g.tasks) /\ k \in DOMAIN Base(job, g, t, n, Cluster)
    BY <2>1, <2>2, UnitIs
  <2>6. u.uses = b.uses /\ u.reads = b.reads
    BY <2>1, GrownKeeps DEF UnitOf, KeptFrom
  <2>4. CASE k # Len(Kinds(t)) + 1
    <3>1. b.uses = {} /\ b.reads = {}
      BY <2>3, <2>4, BaseIs
    <3> QED BY <2>6, <3>1
  <2>5. CASE k = Len(Kinds(t)) + 1
    <3>0. IsMain(u, g, n, i)
      BY <2>1, <2>5 DEF IsMain
    <3>1. \A c \in u.uses : Supplied(u, c)
      BY <1>2, <3>0, UsesAreSupplied
    <3>2. \A c \in u.uses :
            c \in UNION {ToSet(v.container) : v \in Needs(Needs({u})) \cap Earlier(Earlier({u}))}
      BY <3>1, SuppliedIsNeeded
    <3>3. MainLooks(u, g, n, t)
      BY <1>2, <3>0, MainWaits
    <3> HIDE DEF t
    <3>4. CASE ~\E s \in ToSet(t.secrets) : s.file # "" /\ s.env # ""
      BY <3>2, <3>3, <3>4, ReadIsMade DEF MainLooks
    <3>5. CASE \E s \in ToSet(t.secrets) : s.file # "" /\ s.env # ""
      <4>1. PICK f : f = [group |-> g, task |-> t]
        OBVIOUS
      <4>2. f \in AllTasks /\ f.group = g /\ f.task = t
        BY <2>3, <4>1, TaskListed
      <4> QED BY <3>2, <3>3, <3>5, <4>2 DEF MainLooks
    <3> QED BY <3>4, <3>5
  <2> QED BY <2>4, <2>5
<1> QED BY <1>3, <1>4, <1>5

\* The invariant implies ReferencesAreThere.
LEMMA InvIsThere ==
  ASSUME PipelineInv
  PROVE  ReferencesAreThere
<1>0. JobOK /\ DepsOK /\ OutputOK /\ DoneOK
  BY DEF PipelineInv
<1> SUFFICES ASSUME stage = "done" PROVE ReferencesAreThere
  BY DEF ReferencesAreThere
<1>1. Rendering
  BY DEF Rendering
<1>2. CASE Cluster.kube
  <2>1. ASSUME NEW c \in OfKind("deployment") \cup OfKind("daemonset") \cup OfKind("job"),
               NEW k \in ToSet(c.spec.init \o c.spec.containers)
        PROVE  /\ k.mounts \subseteq c.spec.volumes
               /\ k.secret # <<>> => k.secret \in {s.name : s \in OfKind("secret")}
    <3>1. c \in ToSet(output) /\ c.kind \in {"deployment", "daemonset", "job"}
      BY DEF OfKind
    <3> QED BY <1>0, <1>2, <3>1, SpecsAreProvided
  <2>2. ASSUME NEW i \in OfKind("ingress"), NEW r \in ToSet(i.rules),
               r.backend.ns = job.name, file.selected = {}, FrontendsServe
        PROVE  r.backend.svc \in {s.name : s \in OfKind("service")}
    BY <1>0, <1>2, <2>2, IngressesLead
  <2> QED BY <1>2, <2>1, <2>2 DEF ReferencesAreThere
<1>3. CASE ~Cluster.kube
  <2>1. \A u \in ToSet(output) :
          /\ u.uses \subseteq UNION {ToSet(v.container) :
                                       v \in Needs(Needs({u})) \cap Earlier(Earlier({u}))}
          /\ u.reads \subseteq u.makes
             \/ \E f \in AllTasks : /\ u.name.task = <<job.name, f.group.name, f.task.name>>
                                   /\ \E s \in ToSet(f.task.secrets) : s.file # "" /\ s.env # ""
    BY <1>0, <1>1, <1>3, FleetRefers
  <2> QED BY <1>3, <2>1 DEF ReferencesAreThere, Needs, Earlier, UnitsNamed
<1> QED BY <1>2, <1>3

\* What a rendered container refers to is rendered with it, for every job file: volumes,
\* secrets and the services behind ingresses on kubernetes, and on fleet the units of the
\* containers it uses, which its unit needs and starts after.
THEOREM ReferencesKept == Spec => []ReferencesAreThere
<1>1. PipelineInv => ReferencesAreThere
  BY InvIsThere
<1> QED BY <1>1, PipelineKeeps, PTL

-----------------------------------------------------------------------------
(* Lists whose elements K tells apart.                                       *)

Distinct(s, K) == \A i, k \in DOMAIN s : K[s[i]] = K[s[k]] => i = k

\* Two lists that are distinct and have nothing in common.
LEMMA DistinctJoin ==
  ASSUME NEW s, IsList(s), NEW t, IsList(t), NEW K, Distinct(s, K), Distinct(t, K),
         \A x \in ToSet(s), y \in ToSet(t) : K[x] # K[y]
  PROVE  Distinct(s \o t, K)
<1> DEFINE st == s \o t
<1>1. /\ DOMAIN st = 1..(Len(s) + Len(t)) /\ Len(s) \in Nat /\ Len(t) \in Nat
      /\ \A i \in DOMAIN st : /\ st[i] = IF i <= Len(s) THEN s[i] ELSE t[i - Len(s)]
                              /\ IF i <= Len(s) THEN i \in DOMAIN s ELSE i - Len(s) \in DOMAIN t
  BY ConcatLists
<1> HIDE DEF st
<1> SUFFICES ASSUME NEW i \in DOMAIN st, NEW k \in DOMAIN st, K[st[i]] = K[st[k]] PROVE i = k
  BY DEF Distinct, st
<1>2. CASE i <= Len(s) /\ k <= Len(s)
  <2>1. i \in DOMAIN s /\ k \in DOMAIN s /\ st[i] = s[i] /\ st[k] = s[k]
    BY <1>1, <1>2
  <2> QED BY <2>1 DEF Distinct
<1>3. CASE ~(i <= Len(s)) /\ ~(k <= Len(s))
  <2>1. /\ i - Len(s) \in DOMAIN t /\ k - Len(s) \in DOMAIN t
        /\ st[i] = t[i - Len(s)] /\ st[k] = t[k - Len(s)]
    BY <1>1, <1>3
  <2>2. i - Len(s) = k - Len(s)
    BY <2>1 DEF Distinct
  <2> QED BY <2>2, <1>1
<1>4. ASSUME NEW a \in DOMAIN st, NEW b \in DOMAIN st, a <= Len(s), ~(b <= Len(s))
      PROVE  K[st[a]] # K[st[b]]
  <2>1. st[a] \in ToSet(s) /\ st[b] \in ToSet(t)
    BY <1>1, <1>4 DEF ToSet
  <2> QED BY <2>1
<1> QED BY <1>2, <1>3, <1>4

\* FlattenSeq of such lists.
LEMMA DistinctFlatten ==
  ASSUME NEW ss, IsList(ss), NEW K, \A i \in DOMAIN ss : IsList(ss[i]) /\ Distinct(ss[i], K),
         \A i, k \in DOMAIN ss : i # k => \A x \in ToSet(ss[i]), y \in ToSet(ss[k]) : K[x] # K[y]
  PROVE  Distinct(FlattenSeq(ss), K)
<1>1. PICK a, b :
        /\ \A p \in DOMAIN FlattenSeq(ss) :
             /\ a[p] \in DOMAIN ss /\ b[p] \in DOMAIN ss[a[p]]
             /\ FlattenSeq(ss)[p] = ss[a[p]][b[p]]
        /\ \A p, q \in DOMAIN FlattenSeq(ss) : a[p] = a[q] /\ b[p] = b[q] => p = q
  BY FlattenPlaces
<1> DEFINE f == FlattenSeq(ss)
<1> SUFFICES ASSUME NEW p \in DOMAIN f, NEW q \in DOMAIN f, K[f[p]] = K[f[q]] PROVE p = q
  BY DEF Distinct
<1>2. /\ a[p] \in DOMAIN ss /\ b[p] \in DOMAIN ss[a[p]] /\ f[p] = ss[a[p]][b[p]]
      /\ a[q] \in DOMAIN ss /\ b[q] \in DOMAIN ss[a[q]] /\ f[q] = ss[a[q]][b[q]]
      /\ a[p] = a[q] /\ b[p] = b[q] => p = q
  BY <1>1
<1> HIDE DEF f
<1>3. f[p] \in ToSet(ss[a[p]]) /\ f[q] \in ToSet(ss[a[q]])
  BY <1>2 DEF ToSet
<1>4. a[p] = a[q]
  BY <1>2, <1>3
<1>5. b[p] = b[q]
  BY <1>2, <1>4 DEF Distinct
<1> QED BY <1>2, <1>4, <1>5

\* The lists of no and of one element.
LEMMA DistinctSmall == \A K : Distinct(<<>>, K) /\ \A x : Distinct(<<x>>, K)
<1>1. DOMAIN <<>> = {} /\ \A x : DOMAIN <<x>> = {1}
  OBVIOUS
<1> QED BY <1>1 DEF Distinct

\* What is told apart by one key is by another that tells as much.
LEMMA DistinctBy ==
  ASSUME NEW s, NEW K, NEW L, Distinct(s, K),
         \A x, y \in ToSet(s) : L[x] = L[y] => K[x] = K[y]
  PROVE  Distinct(s, L)
BY DEF Distinct, ToSet

\* A list made of each element of a list.
LEMMA DistinctOfEach ==
  ASSUME NEW s, IsList(s), NEW ss, ss = [i \in DOMAIN s |-> ss[i]], NEW K,
         \A i \in DOMAIN s : IsList(ss[i]) /\ Distinct(ss[i], K),
         \A i, k \in DOMAIN s : i # k => \A x \in ToSet(ss[i]), y \in ToSet(ss[k]) : K[x] # K[y]
  PROVE  Distinct(FlattenSeq(ss), K)
<1>1. IsList(ss) /\ DOMAIN ss = DOMAIN s
  BY ListOfAll
<1> QED BY <1>1, DistinctFlatten
-----------------------------------------------------------------------------
(* The keys of the records of a task, of what is rendered in a slice.        *)

\* Equal quadruples have equal parts.
LEMMA Fourth == \A a, b, c, d, e, f, g, h : <<a, b, c, d>> = <<e, f, g, h>> => a = e /\ b = f /\ c = g /\ d = h
OBVIOUS

\* The records of a task have its key and slice in their keys, which differ.
LEMMA FrontEndKeys ==
  ASSUME NEW t, NEW n, NEW key, NEW service, NEW domains, NEW instanceDomains
  PROVE  LET rs == FrontEndRecords(t, n, key, service, domains, instanceDomains)
         IN  /\ IsList(rs)
             /\ \A r \in ToSet(rs) : \E m, i : r.key = <<key, n, m, i>>
             /\ \A a, b \in DOMAIN rs : rs[a].key = rs[b].key => a = b
<1> DEFINE OfMode(fs, m) == SelectSeq(fs, LAMBDA f : (f.mode = "tcp") = (m = "tcp"))
           Selectors(fs, names) ==
             FlattenSeq([i \in DOMAIN fs |-> [k \in DOMAIN names |-> Selector(fs[i], names[k])]])
           Public(m) == LET fs == OfMode(t.public, m)
                        IN  [i \in DOMAIN fs |-> Selector(fs[i], [public |-> fs[i].domain])]
           Private(m) == OfMode(t.private, m)
           Record(m, instance) ==
             [key |-> <<key, n, m, instance>>,
              service |-> IF instance THEN <<service, n>> ELSE <<service>>,
              rewrite |-> IF t.type = "proxy" THEN t.rewrite ELSE <<>>,
              selectors |->
                IF instance
                THEN Selectors(SelectSeq(Private(m), LAMBDA f : f.register), instanceDomains)
                ELSE Public(m) \o Selectors(Private(m), domains)]
           records == <<Record("http", TRUE), Record("tcp", TRUE), Record("http", FALSE),
                        Record("tcp", FALSE)>>
           ss == [i \in 1..4 |-> IF records[i].selectors = <<>> THEN <<>> ELSE <<records[i]>>]
           rs == FrontEndRecords(t, n, key, service, domains, instanceDomains)
<1>1. rs = FlattenSeq(ss)
  BY Zenon DEF FrontEndRecords
<1>2. \A m, i : Record(m, i).key = <<key, n, m, i>>
  OBVIOUS
<1>3. \A i \in 1..4 : ss[i] = <<>> \/ ss[i] = <<records[i]>>
  OBVIOUS
<1> HIDE DEF Record
<1> DEFINE r == records
<1>4. /\ r[1].key = <<key, n, "http", TRUE>> /\ r[2].key = <<key, n, "tcp", TRUE>>
      /\ r[3].key = <<key, n, "http", FALSE>> /\ r[4].key = <<key, n, "tcp", FALSE>>
  BY <1>2
<1>5. ss = [i \in 1..4 |-> ss[i]] /\ DOMAIN ss = 1..4 /\ 4 \in Nat
  OBVIOUS
<1> HIDE DEF records, r, ss, rs
<1>6. IsList(ss)
  BY <1>5, ListIsSeq
<1>7. \A i \in DOMAIN ss : IsList(ss[i]) /\ \A x \in ToSet(ss[i]) : x = r[i]
  BY <1>3, <1>5, SmallLists DEF r
<1>8. IsList(rs) /\ ToSet(rs) = UNION {ToSet(ss[i]) : i \in DOMAIN ss}
  BY <1>1, <1>6, <1>7, ListsFlatten
<1>9. \A i \in 1..4 : i \in {1, 2, 3, 4}
  OBVIOUS
<1>10. \A x \in ToSet(rs) : \E m, i : x.key = <<key, n, m, i>>
  <2> SUFFICES ASSUME NEW i \in 1..4 PROVE \E m, k : r[i].key = <<key, n, m, k>>
    BY <1>5, <1>7, <1>8
  <2> QED BY <1>4, <1>9, Zenon
<1> DEFINE K == [x \in ToSet(rs) |-> x.key]
<1>11. Distinct(rs, K)
  <2>1. \A i \in DOMAIN ss : Distinct(ss[i], K)
    BY <1>3, <1>5, DistinctSmall
  <2>2. ASSUME NEW i \in 1..4, NEW k \in 1..4, i # k PROVE r[i].key # r[k].key
    <3>1. i \in {1, 2, 3, 4} /\ k \in {1, 2, 3, 4}
      BY <1>9
    <3>2. "http" # "tcp" /\ TRUE # FALSE
      OBVIOUS
    <3>3. /\ r[1].key # r[2].key /\ r[1].key # r[3].key /\ r[1].key # r[4].key
          /\ r[2].key # r[3].key /\ r[2].key # r[4].key /\ r[3].key # r[4].key
      <4>1. \A m, o, x, y : (m # o \/ x # y) => <<key, n, m, x>> # <<key, n, o, y>>
        BY Fourth, Zenon
      <4>2. <<key, n, "http", TRUE>> # <<key, n, "tcp", TRUE>>
        BY <4>1, <3>2, Zenon
      <4>3. <<key, n, "http", TRUE>> # <<key, n, "http", FALSE>>
        BY <4>1, <3>2, Zenon
      <4>4. <<key, n, "http", TRUE>> # <<key, n, "tcp", FALSE>>
        BY <4>1, <3>2, Zenon
      <4>5. <<key, n, "tcp", TRUE>> # <<key, n, "http", FALSE>>
        BY <4>1, <3>2, Zenon
      <4>6. <<key, n, "tcp", TRUE>> # <<key, n, "tcp", FALSE>>
        BY <4>1, <3>2, Zenon
      <4>7. <<key, n, "http", FALSE>> # <<key, n, "tcp", FALSE>>
        BY <4>1, <3>2, Zenon
      <4> QED BY <1>4, <4>2, <4>3, <4>4, <4>5, <4>6, <4>7, Zenon
    <3> QED BY <3>1, <3>3, <2>2
  <2>3. ASSUME NEW i \in DOMAIN ss, NEW k \in DOMAIN ss, i # k, NEW x \in ToSet(ss[i]), NEW y \in ToSet(ss[k])
        PROVE  K[x] # K[y]
    <3>1. x \in ToSet(rs) /\ y \in ToSet(rs) /\ x = r[i] /\ y = r[k]
      BY <1>7, <1>8
    <3>2. x.key # y.key
      BY <3>1, <2>2, <2>3, <1>5
    <3> QED BY <3>1, <3>2
  <2> HIDE DEF K
  <2> QED BY <1>1, <1>6, <1>7, <2>1, <2>3, DistinctFlatten
<1>12. \A a, b \in DOMAIN rs : rs[a].key = rs[b].key => a = b
  <2>1. \A a \in DOMAIN rs : K[rs[a]] = rs[a].key
    BY DEF ToSet
  <2> QED BY <2>1, <1>11 DEF Distinct
<1> QED BY <1>8, <1>10, <1>12 DEF rs

-----------------------------------------------------------------------------
(* Names of several words.                                                   *)

OneWord(w) == IsList(w) /\ Len(w) = 1

\* A name of a part, a word and the rest.
Phrase(p, w, x) == p \o w \o x
PhraseIs(n, p, w, x) ==
  /\ IsList(n) /\ Len(n) = Len(p) + 1 + Len(x) /\ Len(p) \in Nat /\ Len(x) \in Nat
  /\ n[Len(p) + 1] = w[1]
  /\ \A i \in 1..Len(p) : n[i] = p[i]
  /\ \A i \in 1..Len(x) : n[Len(p) + 1 + i] = x[i]

LEMMA Words ==
  ASSUME NEW p, IsList(p), NEW w, OneWord(w), NEW x, IsList(x)
  PROVE  PhraseIs(Phrase(p, w, x), p, w, x)
<1> DEFINE pw == p \o w
           n == Phrase(p, w, x)
<1>0. n = pw \o x
  BY DEF Phrase
<1> HIDE DEF n
<1>1. IsList(w) /\ Len(w) = 1
  BY DEF OneWord
<1>2. /\ IsList(pw) /\ Len(pw) = Len(p) + 1 /\ Len(p) \in Nat
      /\ \A i \in 1..(Len(p) + 1) : pw[i] = IF i <= Len(p) THEN p[i] ELSE w[i - Len(p)]
  BY <1>1, ConcatLists
<1> HIDE DEF pw
<1>3. /\ IsList(n) /\ Len(n) = Len(pw) + Len(x) /\ Len(x) \in Nat
      /\ \A i \in 1..(Len(pw) + Len(x)) : n[i] = IF i <= Len(pw) THEN pw[i] ELSE x[i - Len(pw)]
  BY <1>0, <1>2, ConcatLists
<1>4. n[Len(p) + 1] = w[1]
  <2>1. n[Len(p) + 1] = pw[Len(p) + 1]
    BY <1>2, <1>3
  <2>2. pw[Len(p) + 1] = w[Len(p) + 1 - Len(p)] /\ Len(p) + 1 - Len(p) = 1
    BY <1>2
  <2> QED BY <2>1, <2>2
<1>5. \A i \in 1..Len(p) : n[i] = p[i]
  BY <1>2, <1>3
<1>6. ASSUME NEW i \in 1..Len(x) PROVE n[Len(p) + 1 + i] = x[i]
  <2>1. /\ Len(p) + 1 + i \in 1..(Len(pw) + Len(x)) /\ ~(Len(p) + 1 + i <= Len(pw))
        /\ Len(p) + 1 + i - Len(pw) = i
    BY <1>2, <1>3
  <2> QED BY <2>1, <1>3
<1> QED BY <1>2, <1>3, <1>4, <1>5, <1>6 DEF n, PhraseIs

\* Lists of the same length and elements are equal.
LEMMA SameLists ==
  ASSUME NEW s, IsList(s), NEW t, IsList(t), Len(s) = Len(t), \A i \in 1..Len(s) : s[i] = t[i]
  PROVE  s = t
<1>1. s = [i \in 1..Len(s) |-> s[i]] /\ t = [i \in 1..Len(s) |-> t[i]]
  BY ListFacts
<1>2. [i \in 1..Len(s) |-> s[i]] = [i \in 1..Len(s) |-> t[i]]
  OBVIOUS
<1> QED BY <1>1, <1>2

\* Names that begin with the same part are equal word for word.
LEMMA WordsCancel ==
  ASSUME NEW p, IsList(p), NEW w, OneWord(w), NEW v, OneWord(v), NEW x, IsList(x), NEW y, IsList(y),
         Phrase(p, w, x) = Phrase(p, v, y)
  PROVE  w = v /\ x = y
<1> DEFINE n == Phrase(p, w, x)
<1>1. PhraseIs(n, p, w, x)
  BY Words
<1>2. PhraseIs(n, p, v, y)
  BY Words
<1> HIDE DEF n
<1>5. Len(x) = Len(y)
  BY <1>1, <1>2 DEF PhraseIs
<1>6. w[1] = v[1] /\ \A i \in 1..Len(x) : x[i] = y[i]
  BY <1>1, <1>2, <1>5 DEF PhraseIs
<1>7. \A i \in 1..Len(w) : w[i] = v[i]
  <2>1. Len(w) = 1 /\ \A i \in 1..1 : i = 1
    BY DEF OneWord
  <2> QED BY <2>1, <1>6
<1>8. IsList(w) /\ IsList(v) /\ Len(w) = Len(v)
  BY DEF OneWord
<1> QED BY <1>5, <1>6, <1>7, <1>8, SameLists

\* A name without a rest.
LEMMA NoRest ==
  ASSUME NEW s, IsList(s)
  PROVE  s \o <<>> = s /\ IsList(<<>>) /\ Len(<<>>) = 0
<1>1. IsList(<<>>) /\ Len(<<>>) = 0
  BY SmallLists
<1>2. s \in Seq(ToSet(s))
  BY DEF IsList
<1> QED BY <1>1, <1>2

\* The last element moved to another list.
LEMMA FrontLast ==
  ASSUME NEW s, IsList(s), s # <<>>
  PROVE  Front(s) \o <<Last(s)>> = s
<1>1. s \in Seq(ToSet(s)) /\ Len(s) \in Nat /\ Len(s) # 0
  BY DEF IsList
<1>2. Front(s) = SubSeq(s, 1, Len(s) - 1) /\ Last(s) = s[Len(s)]
  BY <1>1 DEF Front, Last
<1>3. IsList(Front(s)) /\ Last(s) \in ToSet(s)
  BY FrontAndLast
<1>4. Front(s) = [i \in 1..(Len(s) - 1) |-> s[i]]
  BY <1>1, <1>2
<1> DEFINE f == Front(s)
           l == <<Last(s)>>
<1>5. Len(f) = Len(s) - 1 /\ \A i \in 1..(Len(s) - 1) : f[i] = s[i]
  BY <1>1, <1>4
<1>6. IsList(l) /\ Len(l) = 1 /\ l[1] = s[Len(s)]
  BY <1>2, SmallLists
<1> HIDE DEF f, l
<1>7. /\ IsList(f \o l) /\ Len(f \o l) = Len(s)
      /\ \A i \in 1..Len(s) : (f \o l)[i] = IF i <= Len(f) THEN f[i] ELSE l[i - Len(f)]
  <2>1. IsList(f) /\ Len(f) + Len(l) = Len(s)
    BY <1>1, <1>3, <1>5, <1>6 DEF f
  <2> QED BY <2>1, <1>6, ConcatLists
<1>8. ASSUME NEW i \in 1..Len(s) PROVE (f \o l)[i] = s[i]
  <2>1. CASE i <= Len(f)
    BY <2>1, <1>1, <1>5, <1>7
  <2>2. CASE ~(i <= Len(f))
    <3>1. i = Len(s) /\ i - Len(f) = 1
      BY <2>2, <1>1, <1>5
    <3> QED BY <3>1, <2>2, <1>6, <1>7
  <2> QED BY <2>1, <2>2
<1> QED BY <1>7, <1>8, SameLists DEF f, l

-----------------------------------------------------------------------------
(* The containers of a pod by their names.                                   *)

\* Container k is one of task t, with a name that ends with the words x.
ContainerOf(k, j, g, t, x) == IsList(x) /\ k.name = Phrase(j.name \o g.name, t.name, x)

\* The names of containers tell their tasks and what they end with.
LEMMA ContainersTell ==
  ASSUME NEW j, IsList(j.name), NEW g, IsList(g.name), NEW t, OneWord(t.name), NEW u, OneWord(u.name),
         NEW k, NEW x, ContainerOf(k, j, g, t, x), NEW l, NEW y, ContainerOf(l, j, g, u, y),
         k.name = l.name
  PROVE  t.name = u.name /\ x = y
<1> DEFINE p == j.name \o g.name
<1>1. IsList(p)
  BY ListsJoin
<1>2. Phrase(p, t.name, x) = Phrase(p, u.name, y) /\ IsList(x) /\ IsList(y)
  BY DEF ContainerOf
<1> HIDE DEF p
<1> QED BY <1>1, <1>2, WordsCancel

\* The containers l of a task have its name; those that run before it more words.
NamedFor(l, K, j, g, t, type) ==
  /\ IsList(l) /\ Distinct(l, K)
  /\ \A k \in ToSet(l) : /\ K[k] = k.name
                         /\ \E x : /\ ContainerOf(k, j, g, t, x)
                                   /\ type = "init" => (t.type = "service" => x # <<>>)
                                   /\ type # "init" => t.type = "service" /\ x = <<>>
LEMMA TaskContainersNamed ==
  ASSUME NEW j, IsList(j.name), NEW g, IsList(g.name), NEW t, IsTask(t), OneWord(t.name), NEW tasks,
         NEW type, NEW K, \A k \in ToSet(TaskContainers(j, g, t, tasks, type)) : K[k] = k.name
  PROVE  NamedFor(TaskContainers(j, g, t, tasks, type), K, j, g, t, type)
<1> DEFINE l == TaskContainers(j, g, t, tasks, type)
           files == FileSecrets(t)
           main == MainContainer(j, g, t, tasks)
           vm == Container(FullName(j, g, t) \o <<"vm">>, t, {<<"vault-info-env">>}, SecretName(g, t))
           a == IF EnvSecrets(t) = {} THEN <<>> ELSE <<vm>>
           b == [i \in DOMAIN files |-> Container(FullName(j, g, t) \o <<"vmf", i - 1>>, t,
                                          {<<"vault-files">>, <<"vault-info-file">>}, <<>>)]
           sc == SecretContainers(j, g, t)
<1>1. \A name, u, mounts, secret : Container(name, u, mounts, secret).name = name
  BY DEF Container
<1>2. IsList(files) /\ DOMAIN files \subseteq Nat
  <2> DEFINE ss == [i \in DOMAIN t.secrets |-> IF t.secrets[i].env = "" THEN <<t.secrets[i]>> ELSE <<>>]
  <2>1. IsList(ss)
    BY FieldsOfTask, ListOfAll
  <2>2. \A i \in DOMAIN ss : ss[i] = <<>> \/ \E x \in ToSet(t.secrets) : ss[i] = <<x>>
    BY DEF ToSet
  <2> HIDE DEF ss
  <2>3. IsList(FlattenSeq(ss))
    BY <2>1, <2>2, SomeOf
  <2>4. files = FlattenSeq(ss)
    BY DEF FileSecrets, ss
  <2> QED BY <2>3, <2>4, ListFacts
<1>3. /\ IsList(FullName(j, g, t))
      /\ \A x : Phrase(j.name \o g.name, t.name, x) = FullName(j, g, t) \o x
  <2>1. IsList(j.name \o g.name \o t.name)
    BY ListsJoin DEF OneWord
  <2> QED BY <2>1, Zenon DEF FullName, Phrase
<1>4. ContainerOf(main, j, g, t, <<>>)
  <2>1. main.name = FullName(j, g, t)
    BY <1>1 DEF MainContainer
  <2>2. FullName(j, g, t) \o <<>> = FullName(j, g, t) /\ IsList(<<>>)
    BY <1>3, NoRest
  <2>3. Phrase(j.name \o g.name, t.name, <<>>) = FullName(j, g, t) \o <<>>
    BY <1>3
  <2> QED BY <2>1, <2>2, <2>3 DEF ContainerOf
<1>5. ContainerOf(vm, j, g, t, <<"vm">>)
  <2>1. vm.name = Phrase(j.name \o g.name, t.name, <<"vm">>)
    <3>1. vm.name = FullName(j, g, t) \o <<"vm">>
      <4>1. PICK n : n = FullName(j, g, t) \o <<"vm">>
        OBVIOUS
      <4>2. vm = Container(n, t, {<<"vault-info-env">>}, SecretName(g, t))
        BY <4>1
      <4> HIDE DEF vm
      <4>3. vm.name = n
        BY <4>2, <1>1
      <4> QED BY <4>1, <4>3
    <3> HIDE DEF vm
    <3> QED BY <3>1, <1>3
  <2> QED BY <2>1, SmallLists DEF ContainerOf
<1>6. IsList(b) /\ DOMAIN b = DOMAIN files
  <2>1. b = [i \in DOMAIN files |-> b[i]]
    OBVIOUS
  <2> HIDE DEF b
  <2> QED BY <2>1, <1>2, ListOfAll
<1>7. ASSUME NEW i \in DOMAIN b PROVE ContainerOf(b[i], j, g, t, <<"vmf", i - 1>>)
  <2>1. b[i].name = Phrase(j.name \o g.name, t.name, <<"vmf", i - 1>>)
    <3>1. b[i].name = FullName(j, g, t) \o <<"vmf", i - 1>>
      <4>1. PICK n : n = FullName(j, g, t) \o <<"vmf", i - 1>>
        OBVIOUS
      <4>2. b[i] = Container(n, t, {<<"vault-files">>, <<"vault-info-file">>}, <<>>)
        BY <4>1, <1>6
      <4> HIDE DEF b
      <4>3. b[i].name = n
        BY <4>2, <1>1
      <4> QED BY <4>1, <4>3
    <3> HIDE DEF b
    <3> QED BY <3>1, <1>3
  <2>2. <<"vmf", i - 1>> \in Seq({"vmf", i - 1})
    OBVIOUS
  <2> QED BY <2>1, <2>2, SeqIsList DEF ContainerOf
<1>8. sc = a \o b /\ (a = <<>> \/ a = <<vm>>)
  BY DEF SecretContainers
<1>9. \/ l = <<>>
      \/ t.type # "proxy" /\ type = "init" /\ l = sc /\ t.type # "oneshot"
      \/ t.type # "proxy" /\ type = "init" /\ l = sc \o <<main>> /\ t.type = "oneshot"
      \/ t.type = "service" /\ type # "init" /\ l = <<main>>
  <2>1. CASE t.type = "proxy"
    BY <2>1 DEF TaskContainers
  <2>2. CASE t.type # "proxy" /\ type = "init"
    <3>1. l = sc \o IF t.type = "oneshot" THEN <<main>> ELSE <<>>
      BY <2>2 DEF TaskContainers
    <3>2. IsList(sc)
      BY <1>6, <1>8, SmallLists, ListsJoin
    <3> HIDE DEF l, sc, main
    <3> QED BY <2>2, <3>1, <3>2, NoRest
  <2>3. CASE t.type # "proxy" /\ type # "init"
    <3>1. l = IF t.type = "service" THEN <<main>> ELSE <<>>
      BY <2>3 DEF TaskContainers
    <3> HIDE DEF l, main
    <3> QED BY <2>3, <3>1
  <2> QED BY <2>1, <2>2, <2>3
<1> HIDE DEF l, main, vm, a, b, sc, files
<1>0. \A k \in ToSet(l) : K[k] = k.name
  BY DEF l
<1>10. IsList(a) /\ \A k \in ToSet(a) : k = vm
  BY <1>8, SmallLists
<1>11. /\ IsList(sc) /\ ToSet(sc) = ToSet(a) \cup ToSet(b)
       /\ \A k \in ToSet(sc) : \E x : ContainerOf(k, j, g, t, x) /\ x # <<>>
  <2>1. IsList(sc) /\ ToSet(sc) = ToSet(a) \cup ToSet(b)
    BY <1>6, <1>8, <1>10, ListsJoin
  <2>2. ASSUME NEW k \in ToSet(a) PROVE \E x : ContainerOf(k, j, g, t, x) /\ x # <<>>
    <3>1. <<"vm">> # <<>>
      OBVIOUS
    <3> QED BY <3>1, <1>5, <1>10
  <2>3. ASSUME NEW k \in ToSet(b) PROVE \E x : ContainerOf(k, j, g, t, x) /\ x # <<>>
    <3>1. PICK i \in DOMAIN b : k = b[i]
      BY DEF ToSet
    <3>2. <<"vmf", i - 1>> # <<>>
      OBVIOUS
    <3> QED BY <3>1, <3>2, <1>7
  <2> QED BY <2>1, <2>2, <2>3
<1>12. IsList(<<main>>) /\ ToSet(<<main>>) = {main}
  BY SmallLists
<1>13. IsList(sc \o <<main>>) /\ ToSet(sc \o <<main>>) = ToSet(sc) \cup {main}
  BY <1>11, <1>12, ListsJoin
<1>14. ASSUME NEW S, \A k \in S : K[k] = k.name, ToSet(sc) \subseteq S PROVE Distinct(sc, K)
  <2>1. Distinct(a, K)
    BY <1>8, DistinctSmall
  <2>2. Distinct(b, K)
    <3> SUFFICES ASSUME NEW i \in DOMAIN b, NEW k \in DOMAIN b, K[b[i]] = K[b[k]] PROVE i = k
      BY DEF Distinct
    <3>1. b[i] \in S /\ b[k] \in S
      BY <1>11, <1>14 DEF ToSet
    <3>2. b[i].name = b[k].name
      BY <3>1, <1>14
    <3>3. <<"vmf", i - 1>> = <<"vmf", k - 1>>
      <4>1. PICK x, y : x = <<"vmf", i - 1>> /\ y = <<"vmf", k - 1>>
        OBVIOUS
      <4>2. ContainerOf(b[i], j, g, t, x) /\ ContainerOf(b[k], j, g, t, y)
        BY <4>1, <1>7
      <4>3. x = y
        BY <3>2, <4>2, ContainersTell
      <4> QED BY <4>1, <4>3
    <3>4. i \in Nat /\ k \in Nat
      BY <1>2, <1>6
    <3>5. i - 1 = k - 1
      BY <3>3
    <3> QED BY <3>4, <3>5
  <2>3. ASSUME NEW x \in ToSet(a), NEW y \in ToSet(b) PROVE K[x] # K[y]
    <3>1. PICK i \in DOMAIN b : y = b[i]
      BY DEF ToSet
    <3>2. K[x] = x.name /\ K[y] = y.name
      BY <1>11, <1>14
    <3>3. <<"vm">> # <<"vmf", i - 1>>
      OBVIOUS
    <3>4. ContainerOf(x, j, g, t, <<"vm">>) /\ ContainerOf(y, j, g, t, <<"vmf", i - 1>>)
      BY <3>1, <1>5, <1>7, <1>10
    <3> QED BY <3>2, <3>3, <3>4, ContainersTell
  <2> QED BY <1>6, <1>8, <1>10, <2>1, <2>2, <2>3, DistinctJoin
<1>15. CASE l = <<>>
  <2>1. IsList(l) /\ ToSet(l) = {} /\ Distinct(l, K)
    BY <1>15, SmallLists, DistinctSmall
  <2> QED BY <2>1 DEF l, NamedFor
<1>16. CASE type = "init" /\ l = sc
  <2>1. Distinct(l, K)
    BY <1>14, <1>16 DEF l
  <2> QED BY <2>1, <1>0, <1>11, <1>16 DEF l, NamedFor
<1>17. CASE type = "init" /\ l = sc \o <<main>> /\ t.type = "oneshot"
  <2>2. Distinct(sc, K) /\ Distinct(<<main>>, K)
    BY <1>0, <1>13, <1>14, <1>17, DistinctSmall
  <2>3. ASSUME NEW x \in ToSet(sc), NEW y \in ToSet(<<main>>) PROVE K[x] # K[y]
    <3>1. PICK e : ContainerOf(x, j, g, t, e) /\ e # <<>>
      BY <1>11
    <3>2. y = main /\ K[x] = x.name /\ K[y] = main.name
      BY <1>0, <1>12, <1>13, <1>17
    <3> QED BY <3>1, <3>2, <1>4, ContainersTell
  <2>4. Distinct(l, K)
    BY <2>2, <2>3, <1>11, <1>12, <1>17, DistinctJoin
  <2>5. ASSUME NEW k \in ToSet(l) PROVE \E x : ContainerOf(k, j, g, t, x)
    BY <1>4, <1>11, <1>13, <1>17
  <2>6. IsList(l) /\ "oneshot" # "service"
    BY <1>13, <1>17
  <2> QED BY <2>4, <2>5, <2>6, <1>0, <1>17 DEF l, NamedFor
<1>18. CASE t.type = "service" /\ type # "init" /\ l = <<main>>
  <2>1. IsList(l) /\ ToSet(l) = {main} /\ Distinct(l, K)
    BY <1>12, <1>18, DistinctSmall
  <2> QED BY <2>1, <1>0, <1>4, <1>18 DEF l, NamedFor
<1> QED BY <1>9, <1>15, <1>16, <1>17, <1>18

\* The tasks of a pod have names of one word, and each its own.
NamedByWord(tasks) ==
  AreTasks(tasks) /\ ~Duplicate(tasks) /\ \A t \in ToSet(tasks) : OneWord(t.name)

\* No two containers of a pod have one name.
LEMMA ContainersDistinct ==
  ASSUME NEW j, IsList(j.name), NEW g, IsList(g.name), NEW tasks, NamedByWord(tasks)
  PROVE  LET spec == PodSpec(j, g, tasks) IN ~Duplicate(spec.init \o spec.containers)
<1> DEFINE spec == PodSpec(j, g, tasks)
           ss(type) == [i \in DOMAIN tasks |-> TaskContainers(j, g, tasks[i], tasks, type)]
           init == FlattenSeq(ss("init"))
           main == FlattenSeq(ss("main"))
           lone == main = <<>> /\ init # <<>>
           K == [k \in ToSet(init) \cup ToSet(main) |-> k.name]
<1>0. IsList(tasks) /\ \A i \in DOMAIN tasks : IsTask(tasks[i]) /\ OneWord(tasks[i].name)
  BY DEF NamedByWord, AreTasks, ToSet
<1>1. ASSUME NEW type \in {"init", "main"}
      PROVE  LET l == ss(type)
             IN  /\ IsList(FlattenSeq(l))
                 /\ \A u : u \in ToSet(FlattenSeq(l)) <=> \E i \in DOMAIN tasks : u \in ToSet(l[i])
  <2> DEFINE l == ss(type)
  <2>1. \A i \in DOMAIN tasks : IsList(TaskContainers(j, g, tasks[i], tasks, type))
    BY <1>0, ContainersProvided DEF ToSet
  <2>2. l = [i \in DOMAIN tasks |-> l[i]] /\ \A i \in DOMAIN tasks : IsList(l[i])
    BY <2>1
  <2> HIDE DEF l
  <2>3. /\ IsList(FlattenSeq(l))
        /\ \A u : u \in ToSet(FlattenSeq(l)) <=> \E i \in DOMAIN tasks : u \in ToSet(l[i])
    BY <1>0, <2>2, OfEach
  <2> QED BY <2>3 DEF l
<1>2. ASSUME NEW type \in {"init", "main"}, NEW i \in DOMAIN tasks
      PROVE  NamedFor(TaskContainers(j, g, tasks[i], tasks, type), K, j, g, tasks[i], type)
  <2> DEFINE l == TaskContainers(j, g, tasks[i], tasks, type)
  <2>1. ToSet(l) \subseteq ToSet(init) \cup ToSet(main)
    <3>1. ToSet(ss(type)[i]) \subseteq ToSet(FlattenSeq(ss(type)))
      BY <1>1
    <3>2. FlattenSeq(ss(type)) = init \/ FlattenSeq(ss(type)) = main
      OBVIOUS
    <3>3. ss(type)[i] = l
      OBVIOUS
    <3> HIDE DEF ss, init, main, l
    <3> QED BY <3>1, <3>2, <3>3
  <2> HIDE DEF init, main
  <2>2. \A k \in ToSet(l) : K[k] = k.name
    BY <2>1
  <2> HIDE DEF K
  <2>3. IsTask(tasks[i]) /\ OneWord(tasks[i].name)
    BY <1>0
  <2> QED BY <2>2, <2>3, TaskContainersNamed
<1>3. \A i, k \in DOMAIN tasks : tasks[i].name = tasks[k].name => i = k
  BY DEF NamedByWord, Duplicate
<1>4. ASSUME NEW type \in {"init", "main"} PROVE Distinct(FlattenSeq(ss(type)), K)
  <2> DEFINE l == ss(type)
  <2>1. ASSUME NEW i \in DOMAIN tasks, NEW k \in DOMAIN tasks, i # k, NEW x \in ToSet(l[i]),
               NEW y \in ToSet(l[k])
        PROVE  K[x] # K[y]
    <3>1. /\ x \in ToSet(TaskContainers(j, g, tasks[i], tasks, type))
          /\ y \in ToSet(TaskContainers(j, g, tasks[k], tasks, type))
      OBVIOUS
    <3> HIDE DEF l, K
    <3>2. PICK a : K[x] = x.name /\ ContainerOf(x, j, g, tasks[i], a)
      BY <3>1, <1>2 DEF NamedFor
    <3>3. PICK b : K[y] = y.name /\ ContainerOf(y, j, g, tasks[k], b)
      BY <3>1, <1>2 DEF NamedFor
    <3>4. x.name = y.name => tasks[i].name = tasks[k].name
      BY <3>2, <3>3, <1>0, ContainersTell
    <3> QED BY <2>1, <3>2, <3>3, <3>4, <1>3
  <2>2. l = [i \in DOMAIN tasks |-> l[i]]
    OBVIOUS
  <2>3. \A i \in DOMAIN tasks : IsList(l[i]) /\ Distinct(l[i], K)
    <3> HIDE DEF K
    <3> QED BY <1>2 DEF NamedFor
  <2> HIDE DEF l, K
  <2>4. Distinct(FlattenSeq(l), K)
    BY <1>0, <2>1, <2>2, <2>3, DistinctOfEach
  <2> QED BY <2>4 DEF l
<1>5. ASSUME NEW x \in ToSet(init), NEW y \in ToSet(main) PROVE K[x] # K[y]
  <2>1. PICK i \in DOMAIN tasks : x \in ToSet(TaskContainers(j, g, tasks[i], tasks, "init"))
    BY <1>1
  <2>2. PICK k \in DOMAIN tasks : y \in ToSet(TaskContainers(j, g, tasks[k], tasks, "main"))
    BY <1>1
  <2> HIDE DEF init, main, K
  <2>3. PICK a : /\ K[x] = x.name /\ ContainerOf(x, j, g, tasks[i], a)
                 /\ tasks[i].type = "service" => a # <<>>
    BY <2>1, <1>2 DEF NamedFor
  <2>4. PICK b : /\ K[y] = y.name /\ ContainerOf(y, j, g, tasks[k], b)
                 /\ tasks[k].type = "service" /\ b = <<>>
    BY <2>2, <1>2 DEF NamedFor
  <2>5. x.name = y.name => tasks[i].name = tasks[k].name /\ a = b
    BY <2>3, <2>4, <1>0, ContainersTell
  <2> QED BY <2>3, <2>4, <2>5, <1>3
<1>6. /\ spec.init = IF lone THEN Front(init) ELSE init
      /\ spec.containers = IF lone THEN <<Last(init)>> ELSE main
  BY DEF PodSpec
<1>7. IsList(init) /\ IsList(main)
  BY <1>1
<1>8. Distinct(init, K) /\ Distinct(main, K)
  BY <1>4
<1>9. \A x \in ToSet(init) \cup ToSet(main) : K[x] = x.name
  OBVIOUS
<1> HIDE DEF spec, init, main, K
<1>10. spec.init \o spec.containers = init \o main
  <2>1. CASE lone
    BY <2>1, <1>6, <1>7, FrontLast, NoRest
  <2>2. CASE ~lone
    BY <2>2, <1>6
  <2> QED BY <2>1, <2>2
<1> DEFINE all == init \o main
<1>11. Distinct(all, K) /\ ToSet(all) = ToSet(init) \cup ToSet(main)
  BY <1>5, <1>7, <1>8, DistinctJoin, ListsJoin
<1> HIDE DEF all
<1>12. ~Duplicate(all)
  BY <1>9, <1>11 DEF Duplicate, Distinct, ToSet
<1> QED BY <1>10, <1>12 DEF spec, all

-----------------------------------------------------------------------------
(* The resources of a pod by their kinds and names.                          *)

\* Lists are joined in any order.
LEMMA ConcatAssoc ==
  ASSUME NEW s, IsList(s), NEW t, IsList(t), NEW u, IsList(u)
  PROVE  (s \o t) \o u = s \o (t \o u)
<1>1. PICK S : S = ToSet(s) \cup ToSet(t) \cup ToSet(u)
  OBVIOUS
<1>2. s \in Seq(S) /\ t \in Seq(S) /\ u \in Seq(S)
  BY <1>1, SeqMonotonic DEF IsList
<1> QED BY <1>2

\* Resource u has the name of task t of group g.
ResourceOf(u, g, t) == \E x : IsList(x) /\ u.name = Phrase(g.name, t.name, x)

\* The names of resources tell their tasks.
LEMMA ResourcesTell ==
  ASSUME NEW g, OneWord(g.name), NEW t, OneWord(t.name), NEW v, OneWord(v.name),
         NEW x, ResourceOf(x, g, t), NEW y, ResourceOf(y, g, v), x.name = y.name
  PROVE  t.name = v.name
<1>1. PICK a : IsList(a) /\ x.name = Phrase(g.name, t.name, a)
  BY DEF ResourceOf
<1>2. PICK b : IsList(b) /\ y.name = Phrase(g.name, v.name, b)
  BY DEF ResourceOf
<1>3. IsList(g.name)
  BY DEF OneWord
<1>4. Phrase(g.name, t.name, a) = Phrase(g.name, v.name, b)
  BY <1>1, <1>2
<1>5. IsList(a) /\ IsList(b)
  BY <1>1, <1>2
<1> QED BY <1>3, <1>4, <1>5, WordsCancel

\* Equal pairs have equal parts.
LEMMA Both == \A a, b, c, d : <<a, b>> = <<c, d>> => a = c /\ b = d
OBVIOUS

\* Resources made of each task of a pod are distinct when those of one task are.
LEMMA OfTasksDistinct ==
  ASSUME NEW g, OneWord(g.name), NEW tasks, NamedByWord(tasks), NEW K,
         NEW ss, ss = [i \in DOMAIN tasks |-> ss[i]],
         \A i \in DOMAIN tasks :
           /\ IsList(ss[i]) /\ Distinct(ss[i], K)
           /\ \A u \in ToSet(ss[i]) : K[u] = <<u.kind, u.name>> /\ ResourceOf(u, g, tasks[i])
  PROVE  Distinct(FlattenSeq(ss), K)
<1>0. IsList(tasks) /\ \A i \in DOMAIN tasks : OneWord(tasks[i].name)
  BY DEF NamedByWord, AreTasks, ToSet
<1>1. ASSUME NEW i \in DOMAIN tasks, NEW k \in DOMAIN tasks, i # k, NEW x \in ToSet(ss[i]),
             NEW y \in ToSet(ss[k])
      PROVE  K[x] # K[y]
  <2>1. /\ K[x] = <<x.kind, x.name>> /\ ResourceOf(x, g, tasks[i])
        /\ K[y] = <<y.kind, y.name>> /\ ResourceOf(y, g, tasks[k])
    OBVIOUS
  <2>2. tasks[i].name # tasks[k].name
    BY <1>1 DEF NamedByWord, Duplicate
  <2>3. x.name # y.name
    BY <2>1, <2>2, <1>0, ResourcesTell
  <2> QED BY <2>1, <2>3, Both
<1> QED BY <1>0, <1>1, DistinctOfEach

\* The services of a task have its name.
LEMMA ServicesNamed ==
  ASSUME NEW j, NEW g, OneWord(g.name), NEW t, OneWord(t.name), NEW pod,
         NEW K, \A u \in ToSet(Services(j, g, t, pod)) : K[u] = <<u.kind, u.name>>
  PROVE  /\ Distinct(Services(j, g, t, pod), K)
         /\ \A u \in ToSet(Services(j, g, t, pod)) : ResourceOf(u, g, t)
<1>0. /\ IsList(ServiceName(g, t)) /\ ServiceName(g, t) = Phrase(g.name, t.name, <<"srv">>)
      /\ IsList(g.name \o t.name) /\ IsList(<<"srv">>) /\ IsList(<<"host">>)
  <2>1. IsList(g.name \o t.name) /\ IsList(<<"srv">>) /\ IsList(<<"host">>)
    BY SmallLists, ListsJoin DEF OneWord
  <2>2. IsList(g.name \o t.name \o <<"srv">>)
    BY <2>1, ListsJoin
  <2> QED BY <2>1, <2>2 DEF ServiceName, Phrase
<1>1. \A u : u.name = ServiceName(g, t) => ResourceOf(u, g, t)
  BY <1>0 DEF ResourceOf
<1>2. CASE t.type = "proxy"
  <2>1. Services(j, g, t, pod) = <<ProxyService(j, g, t)>>
    BY <1>2 DEF Services, HasService
  <2>2. ProxyService(j, g, t).name = ServiceName(g, t)
    BY DEF ProxyService, Service
  <2> QED BY <2>1, <2>2, <1>1, SmallLists, DistinctSmall
<1>3. CASE t.type # "proxy" /\ HasService(t)
  <2> DEFINE a == Service(ServiceName(g, t), pod.name, <<>>, ToSet(CollectPorts(t)), {})
             mapped == SelectSeq(t.ports, LAMBDA p : p.ip = "0.0.0.0")
             NodePort(p) == IF p.host = 0 THEN p.container ELSE p.host
             longer == ServiceName(g, t) \o <<"host">>
             b == Service(longer, pod.name, <<>>,
                    {p.container : p \in ToSet(mapped)}, {NodePort(p) : p \in ToSet(mapped)})
             more == IF t.network = "host" \/ mapped = <<>> THEN <<>> ELSE <<b>>
  <2>1. Services(j, g, t, pod) = <<a>> \o more
    BY <1>3 DEF Services, PodServices
  <2>2. a.name = ServiceName(g, t) /\ b.name = longer
    <3> HIDE DEF longer
    <3> QED BY DEF Service
  <2>3. more = <<>> \/ more = <<b>>
    OBVIOUS
  <2>4. longer = Phrase(g.name, t.name, <<"srv">> \o <<"host">>) /\ IsList(<<"srv">> \o <<"host">>)
        /\ Len(longer) = Len(ServiceName(g, t)) + 1 /\ Len(ServiceName(g, t)) \in Nat
    <3>1. IsList(<<"srv">> \o <<"host">>)
      BY <1>0, ListsJoin
    <3>2. (g.name \o t.name) \o (<<"srv">> \o <<"host">>) = ((g.name \o t.name) \o <<"srv">>) \o <<"host">>
      <4>1. PICK p, x, y : p = g.name \o t.name /\ x = <<"srv">> /\ y = <<"host">>
        OBVIOUS
      <4>2. IsList(p) /\ IsList(x) /\ IsList(y)
        BY <4>1, <1>0
      <4>3. p \o (x \o y) = (p \o x) \o y
        BY <4>2, ConcatAssoc
      <4> QED BY <4>1, <4>3
    <3>3. longer = Phrase(g.name, t.name, <<"srv">> \o <<"host">>)
      BY <3>2, Zenon DEF Phrase, ServiceName
    <3>4. Len(longer) = Len(ServiceName(g, t)) + Len(<<"host">>) /\ Len(ServiceName(g, t)) \in Nat
      BY <1>0, ConcatLists
    <3> QED BY <3>1, <3>3, <3>4
  <2>5. a.name # b.name
    BY <2>2, <2>4
  <2>6. ResourceOf(a, g, t) /\ ResourceOf(b, g, t)
    <3> HIDE DEF a, b, longer
    <3> QED BY <2>2, <2>4, <1>1 DEF ResourceOf
  <2> HIDE DEF a, b, more
  <2>7. /\ IsList(<<a>>) /\ IsList(more) /\ ToSet(<<a>>) = {a} /\ \A u \in ToSet(more) : u = b
        /\ Distinct(<<a>>, K) /\ Distinct(more, K)
    BY <2>3, SmallLists, DistinctSmall
  <2>8. ToSet(<<a>> \o more) = {a} \cup ToSet(more)
    BY <2>7, ListsJoin
  <2>9. \A x \in ToSet(<<a>>), y \in ToSet(more) : K[x] # K[y]
    BY <2>1, <2>5, <2>7, <2>8, Both
  <2>10. Distinct(<<a>> \o more, K)
    BY <2>7, <2>9, DistinctJoin
  <2> QED BY <2>1, <2>6, <2>7, <2>8, <2>10
<1>4. CASE t.type # "proxy" /\ ~HasService(t)
  <2>1. Services(j, g, t, pod) = <<>>
    BY <1>4 DEF Services
  <2> QED BY <2>1, SmallLists, DistinctSmall
<1> QED BY <1>2, <1>3, <1>4

\* Lists of different kinds.
LEMMA DistinctKinds ==
  ASSUME NEW s, IsList(s), NEW t, IsList(t), NEW K, Distinct(s, K), Distinct(t, K),
         \A u \in ToSet(s) \cup ToSet(t) : K[u] = <<u.kind, u.name>>,
         \A x \in ToSet(s), y \in ToSet(t) : x.kind # y.kind
  PROVE  /\ IsList(s \o t) /\ ToSet(s \o t) = ToSet(s) \cup ToSet(t)
         /\ Distinct(s \o t, K)
<1>1. ASSUME NEW x \in ToSet(s), NEW y \in ToSet(t) PROVE K[x] # K[y]
  <2>1. K[x] = <<x.kind, x.name>> /\ K[y] = <<y.kind, y.name>> /\ x.kind # y.kind
    OBVIOUS
  <2> QED BY <2>1, Both
<1> QED BY <1>1, DistinctJoin, ListsJoin

\* A list of one element at most.
LEMMA AtMostOne ==
  ASSUME NEW l, NEW x, l = <<>> \/ l = <<x>>
  PROVE  IsList(l) /\ (\A K : Distinct(l, K)) /\ \A u \in ToSet(l) : u = x
BY SmallLists, DistinctSmall

\* Resource u is named after a task of the pod, or after the pod.
NamedIn(u, g, pod) == \/ \E t \in ToSet(pod.tasks) : ResourceOf(u, g, t)
                      \/ \E w : u.name = pod.name \o <<w>>

\* The controllers of a pod are of different kinds and named after the pod.
LEMMA ControllersNamed ==
  ASSUME NEW j, NEW g, NEW pod, NEW K,
         \A u \in ToSet(Deployments(j, g, pod) \o DaemonSets(j, g, pod) \o Jobs(j, g, pod)) :
           K[u] = <<u.kind, u.name>>
  PROVE  LET l == Deployments(j, g, pod) \o DaemonSets(j, g, pod) \o Jobs(j, g, pod)
         IN  /\ IsList(l) /\ Distinct(l, K)
             /\ \A u \in ToSet(l) : /\ u.kind \in {"deployment", "daemonset", "job"}
                                    /\ NamedIn(u, g, pod)
<1> DEFINE C(kind, w, m, s) == Controller(kind, pod.name \o <<w>>, j, g, pod, m, s)
           Good(u) == NamedIn(u, g, pod)
<1>1. \A kind, w, m, s : C(kind, w, m, s).kind = kind /\ Good(C(kind, w, m, s))
  <2> HIDE DEF C, Good
  <2> SUFFICES ASSUME NEW kind, NEW w, NEW m, NEW s
               PROVE  C(kind, w, m, s).kind = kind /\ Good(C(kind, w, m, s))
    OBVIOUS
  <2>1. PICK n : n = pod.name \o <<w>>
    OBVIOUS
  <2>2. C(kind, w, m, s) = Controller(kind, n, j, g, pod, m, s)
    BY <2>1 DEF C
  <2>3. C(kind, w, m, s).kind = kind /\ C(kind, w, m, s).name = n
    BY <2>2 DEF Controller
  <2> QED BY <2>1, <2>3 DEF NamedIn, Good
<1> DEFINE a == Deployments(j, g, pod)
           b == DaemonSets(j, g, pod)
           d == Jobs(j, g, pod)
<1>2. \E x : (a = <<>> \/ a = <<x>>) /\ x.kind = "deployment" /\ Good(x)
  <2>1. PICK x : a = (IF g.global \/ ~HasType(pod.tasks, "service") THEN <<>> ELSE <<x>>)
                 /\ \E m, s : x = C("deployment", "depl", m, s)
    BY DEF Deployments
  <2> HIDE DEF a, C, Good
  <2> QED BY <2>1, <1>1
<1>3. \E x : (b = <<>> \/ b = <<x>>) /\ x.kind = "daemonset" /\ Good(x)
  <2>1. PICK x : b = (IF ~g.global \/ ~HasType(pod.tasks, "service") THEN <<>> ELSE <<x>>)
                 /\ \E m, s : x = C("daemonset", "dset", m, s)
    BY DEF DaemonSets
  <2> HIDE DEF b, C, Good
  <2> QED BY <2>1, <1>1
<1>4. \E x : (d = <<>> \/ d = <<x>>) /\ x.kind = "job" /\ Good(x)
  <2>1. PICK x : d = (IF HasType(pod.tasks, "service") \/ ~HasType(pod.tasks, "oneshot")
                      THEN <<>> ELSE <<x>>)
                 /\ \E m, s : x = C("job", "job", m, s)
    BY DEF Jobs
  <2> HIDE DEF d, C, Good
  <2> QED BY <2>1, <1>1
<1>5. \A u \in ToSet(a \o b \o d) : K[u] = <<u.kind, u.name>>
  OBVIOUS
<1> HIDE DEF a, b, d, C, Good
<1>6. IsList(a) /\ Distinct(a, K) /\ \A u \in ToSet(a) : u.kind = "deployment" /\ Good(u)
  BY <1>2, AtMostOne
<1>7. IsList(b) /\ Distinct(b, K) /\ \A u \in ToSet(b) : u.kind = "daemonset" /\ Good(u)
  BY <1>3, AtMostOne
<1>8. IsList(d) /\ Distinct(d, K) /\ \A u \in ToSet(d) : u.kind = "job" /\ Good(u)
  BY <1>4, AtMostOne
<1> DEFINE ab == a \o b
<1>9. IsList(ab) /\ ToSet(ab) = ToSet(a) \cup ToSet(b)
  BY <1>6, <1>7, ListsJoin
<1> HIDE DEF ab
<1>10. IsList(ab \o d) /\ ToSet(ab \o d) = ToSet(ab) \cup ToSet(d)
  BY <1>8, <1>9, ListsJoin
<1>11. \A u \in ToSet(a) \cup ToSet(b) \cup ToSet(d) : K[u] = <<u.kind, u.name>>
  BY <1>5, <1>9, <1>10 DEF ab
<1>12. Distinct(ab, K)
  <2>1. \A x \in ToSet(a), y \in ToSet(b) : x.kind # y.kind
    BY <1>6, <1>7
  <2> QED BY <2>1, <1>6, <1>7, <1>11, DistinctKinds DEF ab
<1>13. \A u \in ToSet(ab) : u.kind \in {"deployment", "daemonset"} /\ Good(u)
  BY <1>6, <1>7, <1>9
<1>14. Distinct(ab \o d, K)
  <2>1. \A x \in ToSet(ab), y \in ToSet(d) : x.kind # y.kind
    BY <1>8, <1>13
  <2> QED BY <2>1, <1>8, <1>9, <1>11, <1>12, DistinctKinds
<1>15. \A u \in ToSet(ab \o d) : u.kind \in {"deployment", "daemonset", "job"} /\ Good(u)
  BY <1>8, <1>10, <1>13
<1> QED BY <1>10, <1>14, <1>15 DEF ab, a, b, d, Good

\* The resources of a pod are distinct, and named after its tasks or after the pod.
LEMMA ResourcesNamed ==
  ASSUME NEW j, NEW g, OneWord(g.name), NEW pod, NamedByWord(pod.tasks), NEW K,
         \A u \in ToSet(Resources(j, g, pod)) : K[u] = <<u.kind, u.name>>
  PROVE  /\ Distinct(Resources(j, g, pod), K)
         /\ \A u \in ToSet(Resources(j, g, pod)) : NamedIn(u, g, pod)
<1> DEFINE s == pod.tasks
           c == Deployments(j, g, pod) \o DaemonSets(j, g, pod) \o Jobs(j, g, pod)
           a == [i \in DOMAIN s |-> Secrets(g, s[i])]
           b == [i \in DOMAIN s |-> Services(j, g, s[i], pod)]
           d == [i \in DOMAIN s |-> IF HasFrontends(s[i]) THEN <<Ingress(j, g, s[i])>> ELSE <<>>]
           fa == FlattenSeq(a)
           fb == FlattenSeq(b)
           fd == FlattenSeq(d)
<1>0. IsList(s) /\ \A i \in DOMAIN s : OneWord(s[i].name) /\ s[i] \in ToSet(s)
  BY DEF NamedByWord, AreTasks, ToSet
<1>1. Resources(j, g, pod) = c \o fa \o fb \o fd
  BY DEF Resources
<1>2. a = [i \in DOMAIN s |-> a[i]] /\ b = [i \in DOMAIN s |-> b[i]] /\ d = [i \in DOMAIN s |-> d[i]]
  OBVIOUS
<1>3. IsList(c)
  BY ControllersAre
<1>4. \A i \in DOMAIN s : IsList(b[i]) /\ \A u \in ToSet(b[i]) : u.kind = "service"
  BY ServicesAre
<1>5. \A i \in DOMAIN s : \E x : /\ (a[i] = <<>> \/ a[i] = <<x>>)
                                 /\ x.kind = "secret" /\ x.name = SecretName(g, s[i])
  <2> SUFFICES ASSUME NEW i \in DOMAIN s
               PROVE  \E x : /\ (a[i] = <<>> \/ a[i] = <<x>>)
                             /\ x.kind = "secret" /\ x.name = SecretName(g, s[i])
    OBVIOUS
  <2> DEFINE x == [kind |-> "secret", name |-> SecretName(g, s[i])]
  <2>1. a[i] = (IF s[i].secrets = <<>> THEN <<>> ELSE <<x>>) /\ x.kind = "secret"
        /\ x.name = SecretName(g, s[i])
    BY DEF Secrets
  <2> HIDE DEF x, a
  <2> QED BY <2>1
<1>6. \A i \in DOMAIN s : \E x : /\ (d[i] = <<>> \/ d[i] = <<x>>)
                                 /\ x.kind = "ingress" /\ x.name = IngressName(g, s[i])
  <2>0. \A i \in DOMAIN s : d[i] = IF HasFrontends(s[i]) THEN <<Ingress(j, g, s[i])>> ELSE <<>>
    OBVIOUS
  <2> HIDE DEF d
  <2> SUFFICES ASSUME NEW i \in DOMAIN s
               PROVE  \E x : /\ (d[i] = <<>> \/ d[i] = <<x>>)
                             /\ x.kind = "ingress" /\ x.name = IngressName(g, s[i])
    OBVIOUS
  <2>1. PICK x : x = Ingress(j, g, s[i])
    OBVIOUS
  <2>2. x.kind = "ingress" /\ x.name = IngressName(g, s[i])
    <3>1. \E n, q, o : n = IngressName(g, s[i])
                      /\ x = [kind |-> "ingress", name |-> n, rules |-> q, records |-> o]
      BY <2>1, Zenon DEF Ingress
    <3> QED BY <3>1
  <2>3. d[i] = IF HasFrontends(s[i]) THEN <<x>> ELSE <<>>
    BY <2>0, <2>1
  <2> QED BY <2>2, <2>3
<1>7. \A i \in DOMAIN s : b[i] = Services(j, g, s[i], pod)
  OBVIOUS
<1> HIDE DEF a, b, c, d, fa, fb, fd, s
<1>8. \A i \in DOMAIN s : /\ IsList(a[i]) /\ Distinct(a[i], K)
                          /\ \A u \in ToSet(a[i]) : u.kind = "secret" /\ u.name = SecretName(g, s[i])
  BY <1>5, AtMostOne
<1>9. \A i \in DOMAIN s : /\ IsList(d[i]) /\ Distinct(d[i], K)
                          /\ \A u \in ToSet(d[i]) : u.kind = "ingress" /\ u.name = IngressName(g, s[i])
  BY <1>6, AtMostOne
<1>10. IsList(fa) /\ \A u : u \in ToSet(fa) <=> \E i \in DOMAIN s : u \in ToSet(a[i])
  BY <1>0, <1>2, <1>8, OfEach DEF fa
<1>11. IsList(fb) /\ \A u : u \in ToSet(fb) <=> \E i \in DOMAIN s : u \in ToSet(b[i])
  BY <1>0, <1>2, <1>4, OfEach DEF fb
<1>12. IsList(fd) /\ \A u : u \in ToSet(fd) <=> \E i \in DOMAIN s : u \in ToSet(d[i])
  BY <1>0, <1>2, <1>9, OfEach DEF fd
<1>13. IsList(c \o fa) /\ ToSet(c \o fa) = ToSet(c) \cup ToSet(fa)
  BY <1>3, <1>10, ListsJoin
<1>14. IsList(c \o fa \o fb) /\ ToSet(c \o fa \o fb) = ToSet(c) \cup ToSet(fa) \cup ToSet(fb)
  BY <1>13, <1>11, ListsJoin
<1>15. /\ IsList(c \o fa \o fb \o fd)
       /\ ToSet(c \o fa \o fb \o fd) = ToSet(c) \cup ToSet(fa) \cup ToSet(fb) \cup ToSet(fd)
  BY <1>14, <1>12, ListsJoin
<1>16. \A u \in ToSet(c) \cup ToSet(fa) \cup ToSet(fb) \cup ToSet(fd) : K[u] = <<u.kind, u.name>>
  BY <1>1, <1>15
<1>17. /\ Distinct(c, K)
       /\ \A u \in ToSet(c) : u.kind \in {"deployment", "daemonset", "job"} /\ NamedIn(u, g, pod)
  <2>1. \A u \in ToSet(c) : K[u] = <<u.kind, u.name>>
    BY <1>16
  <2> QED BY <2>1, ControllersNamed DEF c
<1>18. \A i \in DOMAIN s : \A u :
         u.name = SecretName(g, s[i]) \/ u.name = IngressName(g, s[i]) => ResourceOf(u, g, s[i])
  <2>1. IsList(<<"sec">>) /\ IsList(<<"igr">>)
    BY SmallLists
  <2>2. \A t : /\ SecretName(g, t) = Phrase(g.name, t.name, <<"sec">>)
               /\ IngressName(g, t) = Phrase(g.name, t.name, <<"igr">>)
    BY DEF SecretName, IngressName, Phrase
  <2> QED BY <2>1, <2>2 DEF ResourceOf
<1>19. \A i \in DOMAIN s : \A u \in ToSet(a[i]) : K[u] = <<u.kind, u.name>> /\ ResourceOf(u, g, s[i])
  BY <1>8, <1>10, <1>16, <1>18
<1>20. \A i \in DOMAIN s : \A u \in ToSet(d[i]) : K[u] = <<u.kind, u.name>> /\ ResourceOf(u, g, s[i])
  BY <1>9, <1>12, <1>16, <1>18
<1>21. \A i \in DOMAIN s :
         Distinct(b[i], K) /\ \A u \in ToSet(b[i]) : K[u] = <<u.kind, u.name>> /\ ResourceOf(u, g, s[i])
  <2> SUFFICES ASSUME NEW i \in DOMAIN s
               PROVE  /\ Distinct(b[i], K)
                      /\ \A u \in ToSet(b[i]) : K[u] = <<u.kind, u.name>> /\ ResourceOf(u, g, s[i])
    OBVIOUS
  <2>1. \A u \in ToSet(b[i]) : K[u] = <<u.kind, u.name>>
    BY <1>11, <1>16
  <2>2. b[i] = Services(j, g, s[i], pod)
    BY <1>7
  <2>3. OneWord(s[i].name)
    BY <1>0
  <2> QED BY <2>1, <2>2, <2>3, ServicesNamed
<1>22. NamedByWord(s)
  BY DEF s
<1>23. Distinct(fa, K)
  BY <1>2, <1>8, <1>19, <1>22, OfTasksDistinct DEF fa
<1>24. Distinct(fb, K)
  BY <1>2, <1>4, <1>21, <1>22, OfTasksDistinct DEF fb
<1>25. Distinct(fd, K)
  BY <1>2, <1>9, <1>20, <1>22, OfTasksDistinct DEF fd
<1>26. /\ \A u \in ToSet(fa) : u.kind = "secret" /\ NamedIn(u, g, pod)
       /\ \A u \in ToSet(fb) : u.kind = "service" /\ NamedIn(u, g, pod)
       /\ \A u \in ToSet(fd) : u.kind = "ingress" /\ NamedIn(u, g, pod)
  <2>1. \A i \in DOMAIN s : \A u : ResourceOf(u, g, s[i]) => NamedIn(u, g, pod)
    BY <1>0 DEF NamedIn, s
  <2>2. \A u \in ToSet(fa) : u.kind = "secret" /\ NamedIn(u, g, pod)
    BY <1>8, <1>10, <1>19, <2>1
  <2>3. \A u \in ToSet(fb) : u.kind = "service" /\ NamedIn(u, g, pod)
    BY <1>4, <1>11, <1>21, <2>1
  <2>4. \A u \in ToSet(fd) : u.kind = "ingress" /\ NamedIn(u, g, pod)
    BY <1>9, <1>12, <1>20, <2>1
  <2> QED BY <2>2, <2>3, <2>4
<1> DEFINE ca == c \o fa
           cb == ca \o fb
<1>27. Distinct(ca, K)
  <2>1. \A x \in ToSet(c), y \in ToSet(fa) : x.kind # y.kind
    BY <1>17, <1>26
  <2> QED BY <2>1, <1>3, <1>10, <1>16, <1>17, <1>23, DistinctKinds
<1>28. IsList(ca) /\ ToSet(ca) = ToSet(c) \cup ToSet(fa)
  BY <1>13
<1>29. IsList(cb) /\ ToSet(cb) = ToSet(c) \cup ToSet(fa) \cup ToSet(fb)
  BY <1>14
<1> HIDE DEF ca
<1>30. Distinct(cb, K)
  <2>1. \A x \in ToSet(ca), y \in ToSet(fb) : x.kind # y.kind
    BY <1>17, <1>26, <1>28
  <2> QED BY <2>1, <1>11, <1>16, <1>24, <1>27, <1>28, DistinctKinds
<1> HIDE DEF cb
<1>31. Distinct(cb \o fd, K)
  <2>1. \A x \in ToSet(cb), y \in ToSet(fd) : x.kind # y.kind
    BY <1>17, <1>26, <1>29
  <2> QED BY <2>1, <1>12, <1>16, <1>25, <1>29, <1>30, DistinctKinds
<1>32. Resources(j, g, pod) = cb \o fd
  BY <1>1 DEF ca, cb
<1>33. ToSet(Resources(j, g, pod)) = ToSet(c) \cup ToSet(fa) \cup ToSet(fb) \cup ToSet(fd)
  BY <1>1, <1>15
<1> QED BY <1>17, <1>26, <1>31, <1>32, <1>33

-----------------------------------------------------------------------------
(* The pods of a group by their names.                                       *)

\* A pod is named after the group and one of its tasks.
FromTask(pod, g) == \E t \in ToSet(pod.tasks) : pod.name = g.name \o t.name

\* createPodName takes the name of a task of the pod.
LEMMA PodNameIs ==
  ASSUME NEW g, NEW tasks, ToSet(tasks) # {},
         \A t \in ToSet(tasks) : "index" \in DOMAIN t /\ t.index \in Nat
  PROVE  \E t \in ToSet(tasks) : PodName(g, tasks) = g.name \o t.name
<1> DEFINE T == {t.index : t \in ToSet(tasks)}
           IsFirst(t) == t \in ToSet(tasks) /\ \A u \in ToSet(tasks) : t.index <= u.index
           first == CHOOSE t \in ToSet(tasks) : \A u \in ToSet(tasks) : t.index <= u.index
<1>1. T \in SUBSET Nat /\ T # {}
  OBVIOUS
<1>2. PICK m \in T : \A n \in T : m <= n
  BY <1>1, Least
<1>3. \E t : IsFirst(t)
  BY <1>2
<1>4. first \in ToSet(tasks)
  BY <1>3
<1>5. PodName(g, tasks) = g.name \o first.name
  BY Zenon DEF PodName
<1> QED BY <1>4, <1>5

\* Each pod of the list is a sorted one, and no sorted pod is in the list twice.
LEMMA PodListPlaces ==
  ASSUME IsList(Group.tasks)
  PROVE  \E a : /\ \A x \in DOMAIN PodList :
                     /\ a[x] \in DOMAIN sorted /\ PodList[x].tasks = sorted[a[x]]
                     /\ PodList[x].name = IF Group.restart = "all" THEN Group.name
                                          ELSE PodName(Group, sorted[a[x]])
                /\ \A x, y \in DOMAIN PodList : a[x] = a[y] => x = y
<1> DEFINE Name(p) == IF Group.restart = "all" THEN Group.name ELSE PodName(Group, sorted[p])
           ss == [p \in DOMAIN Group.tasks |->
                    IF Sorted(p) THEN <<[name |-> Name(p), tasks |-> sorted[p]]>> ELSE <<>>]
<1>1. PodList = FlattenSeq(ss)
  BY DEF PodList
<1>2. ASSUME NEW p \in DOMAIN Group.tasks
      PROVE  /\ IsList(ss[p])
             /\ \A k \in DOMAIN ss[p] : /\ k = 1 /\ p \in DOMAIN sorted
                                        /\ ss[p][k].tasks = sorted[p] /\ ss[p][k].name = Name(p)
  <2> DEFINE x == [name |-> Name(p), tasks |-> sorted[p]]
  <2>1. ss[p] = (IF p \in DOMAIN sorted THEN <<x>> ELSE <<>>)
        /\ x.tasks = sorted[p] /\ x.name = Name(p)
    BY DEF Sorted
  <2>2. IsList(<<>>) /\ DOMAIN <<>> = {} /\ IsList(<<x>>) /\ DOMAIN <<x>> = {1} /\ <<x>>[1] = x
    <3> HIDE DEF x
    <3> QED BY SmallLists
  <2> HIDE DEF x, ss, Name
  <2> QED BY <2>1, <2>2
<1>3. ss = [p \in DOMAIN Group.tasks |-> ss[p]]
  OBVIOUS
<1> HIDE DEF ss, Name
<1>4. IsList(ss) /\ DOMAIN ss = DOMAIN Group.tasks
  BY <1>3, ListOfAll
<1>5. PICK a, b :
        /\ \A x \in DOMAIN FlattenSeq(ss) :
             /\ a[x] \in DOMAIN ss /\ b[x] \in DOMAIN ss[a[x]]
             /\ FlattenSeq(ss)[x] = ss[a[x]][b[x]]
        /\ \A x, y \in DOMAIN FlattenSeq(ss) : a[x] = a[y] /\ b[x] = b[y] => x = y
  BY <1>2, <1>4, FlattenPlaces
<1>6. \A x \in DOMAIN PodList : /\ b[x] = 1 /\ a[x] \in DOMAIN sorted
                                /\ PodList[x].tasks = sorted[a[x]] /\ PodList[x].name = Name(a[x])
  BY <1>1, <1>2, <1>4, <1>5
<1>7. \A x, y \in DOMAIN PodList : a[x] = a[y] => x = y
  BY <1>1, <1>5, <1>6
<1> QED BY <1>6, <1>7 DEF Name

\* Groups and tasks have names of one word, as NamesAreUnique asks.
OneWords(j) == \A g \in ToSet(j.groups) : OneWord(g.name) /\ \A t \in ToSet(g.tasks) : OneWord(t.name)

\* A pod of the group, named after it or after a task of its own.
PodNamed(pod, g) == NamedByWord(pod.tasks) /\ (pod.name = g.name \/ FromTask(pod, g))

\* Two pods that are named after their own tasks and have none in common.
PodsApart(p, q, g) ==
  /\ FromTask(p, g) /\ FromTask(q, g)
  /\ \A t \in ToSet(p.tasks), u \in ToSet(q.tasks) : t.name # u.name

\* The pods that are rendered of a group: one with its name, or several with names of tasks.
LEMMA PodListNamed ==
  ASSUME JobOK, PodsOK, stage = "pods", OneWords(job)
  PROVE  /\ IsList(PodList)
         /\ \A x \in DOMAIN PodList : PodNamed(PodList[x], Group)
         /\ \A x, y \in DOMAIN PodList : x # y => PodsApart(PodList[x], PodList[y], Group)
<1> DEFINE g == Group
<1>0. /\ g \in ToSet(job.groups) /\ AreTasks(g.tasks) /\ GroupIsValid(g) /\ IsList(g.tasks)
      /\ ~Duplicate(g.tasks)
  <2>1. Rendering /\ todo # <<>>
    BY DEF Rendering, JobOK
  <2>2. g \in ToSet(job.groups)
    BY <2>1, GroupOK
  <2> HIDE DEF g
  <2>3. GroupFacts(g)
    BY <2>1, <2>2, GroupsAre
  <2> QED BY <2>2, <2>3 DEF GroupFacts
<1>1. IsList(PodList)
  BY <1>0, PodListIs
<1>2. PICK a : /\ \A x \in DOMAIN PodList :
                    /\ a[x] \in DOMAIN sorted /\ PodList[x].tasks = sorted[a[x]]
                    /\ PodList[x].name = IF g.restart = "all" THEN g.name
                                         ELSE PodName(g, sorted[a[x]])
               /\ \A x, y \in DOMAIN PodList : a[x] = a[y] => x = y
  BY <1>0, PodListPlaces
<1>3. \A t \in ToSet(g.tasks) : OneWord(t.name) /\ "index" \in DOMAIN t /\ t.index \in Nat
  BY <1>0 DEF OneWords, JobOK, IsJob, Indexed
<1>4. CASE g.restart = "all"
  <2>1. sorted = <<g.tasks>>
    BY <1>4 DEF PodsOK
  <2>2. DOMAIN sorted = {1} /\ sorted[1] = g.tasks
    BY <2>1
  <2>3. NamedByWord(g.tasks)
    BY <1>0, <1>3 DEF NamedByWord
  <2> HIDE DEF g
  <2>4. \A x \in DOMAIN PodList : PodNamed(PodList[x], g)
    BY <1>2, <1>4, <2>2, <2>3 DEF PodNamed
  <2>5. \A x, y \in DOMAIN PodList : x = y
    BY <1>2, <2>2
  <2> QED BY <1>1, <2>4, <2>5 DEF g
<1>5. CASE g.restart # "all"
  <2>1. SortedOK(g, pods, sorted)
    BY <1>5 DEF PodsOK
  <2> HIDE DEF g
  <2>2. ASSUME NEW p \in DOMAIN sorted
        PROVE  /\ NamedByWord(sorted[p])
               /\ \E t \in ToSet(sorted[p]) : PodName(g, sorted[p]) = g.name \o t.name
               /\ \A t \in ToSet(sorted[p]) : pods.of[t.name] = p
    <3>1. TasksOf(pods, p) # {} /\ Holds(sorted[p], g, TasksOf(pods, p))
      BY <2>1 DEF SortedOK
    <3>2. /\ IsList(sorted[p]) /\ ToSet(sorted[p]) \subseteq ToSet(g.tasks)
          /\ ~Duplicate(sorted[p]) /\ Names(sorted[p]) = TasksOf(pods, p)
      BY <3>1, SeqIsList DEF Holds
    <3>3. NamedByWord(sorted[p])
      BY <3>2, <1>0, <1>3 DEF NamedByWord, AreTasks
    <3>4. ToSet(sorted[p]) # {}
      BY <3>1, <3>2 DEF Names
    <3>5. \E t \in ToSet(sorted[p]) : PodName(g, sorted[p]) = g.name \o t.name
      BY <3>2, <3>4, <1>3, PodNameIs
    <3>6. \A t \in ToSet(sorted[p]) : t.name \in TasksOf(pods, p)
      BY <3>2 DEF Names
    <3> QED BY <3>3, <3>5, <3>6 DEF TasksOf
  <2>3. ASSUME NEW x \in DOMAIN PodList
        PROVE  /\ NamedByWord(PodList[x].tasks) /\ FromTask(PodList[x], g)
               /\ \A t \in ToSet(PodList[x].tasks) : pods.of[t.name] = a[x]
    <3>1. /\ a[x] \in DOMAIN sorted /\ PodList[x].tasks = sorted[a[x]]
          /\ PodList[x].name = PodName(g, sorted[a[x]])
      BY <1>2, <1>5
    <3> QED BY <3>1, <2>2 DEF FromTask
  <2>4. ASSUME NEW x \in DOMAIN PodList, NEW y \in DOMAIN PodList, x # y
        PROVE  PodsApart(PodList[x], PodList[y], g)
    <3>1. a[x] # a[y]
      BY <1>2, <2>4
    <3> QED BY <3>1, <2>3 DEF PodsApart
  <2> QED BY <1>1, <2>3, <2>4 DEF PodNamed, g
<1> QED BY <1>4, <1>5

-----------------------------------------------------------------------------
(* The resources of a group by their kinds and names.                        *)

\* The first word of the name of a resource is the name of its group.
LEMMA NamedByGroup ==
  ASSUME NEW g, OneWord(g.name), NEW pod, PodNamed(pod, g), NEW u, NamedIn(u, g, pod)
  PROVE  u.name[1] = g.name[1] /\ (FromTask(pod, g) => \E t \in ToSet(pod.tasks) : ResourceOf(u, g, t))
<1>0. IsList(g.name) /\ Len(g.name) = 1 /\ \A t \in ToSet(pod.tasks) : OneWord(t.name)
  BY DEF OneWord, PodNamed, NamedByWord
<1>1. ASSUME NEW t \in ToSet(pod.tasks), ResourceOf(u, g, t) PROVE u.name[1] = g.name[1]
  <2>1. PICK x : IsList(x) /\ u.name = Phrase(g.name, t.name, x)
    BY <1>1 DEF ResourceOf
  <2>2. OneWord(t.name)
    BY <1>0
  <2>3. PhraseIs(u.name, g.name, t.name, x)
    BY <1>0, <2>1, <2>2, Words
  <2>4. 1 \in 1..Len(g.name)
    BY <1>0
  <2> QED BY <2>3, <2>4 DEF PhraseIs
<1>2. CASE \E t \in ToSet(pod.tasks) : ResourceOf(u, g, t)
  BY <1>1, <1>2
<1>3. ASSUME NEW w, u.name = pod.name \o <<w>>
      PROVE  u.name[1] = g.name[1] /\ (FromTask(pod, g) => \E t \in ToSet(pod.tasks) : ResourceOf(u, g, t))
  <2>0. PICK e : e = <<w>>
    OBVIOUS
  <2>1. IsList(e) /\ u.name = pod.name \o e
    BY <1>3, <2>0, SmallLists
  <2>2. CASE FromTask(pod, g)
    <3>1. PICK t \in ToSet(pod.tasks) : pod.name = g.name \o t.name
      BY <2>2 DEF FromTask
    <3>2. u.name = Phrase(g.name, t.name, e)
      BY <2>1, <3>1 DEF Phrase
    <3>3. ResourceOf(u, g, t)
      BY <2>1, <3>2 DEF ResourceOf
    <3> QED BY <3>3, <1>1
  <2>3. CASE ~FromTask(pod, g)
    <3>1. u.name = g.name \o e
      BY <2>1, <2>3 DEF PodNamed
    <3>2. Len(e) \in Nat /\ 1 \in 1..(Len(g.name) + Len(e)) /\ 1 <= Len(g.name)
      BY <1>0, <2>1, ListFacts
    <3>3. (g.name \o e)[1] = g.name[1]
      BY <1>0, <2>1, <3>2, ConcatLists
    <3> QED BY <3>1, <3>3, <2>3
  <2> QED BY <2>2, <2>3
<1> QED BY <1>2, <1>3 DEF NamedIn

\* The pods of a group, their resources, what each is known by, and how their names begin.
GroupPods(ps, g) ==
  /\ IsList(ps) /\ OneWord(g.name)
  /\ \A x \in DOMAIN ps : PodNamed(ps[x], g)
  /\ \A x, y \in DOMAIN ps : x # y => PodsApart(ps[x], ps[y], g)
AreResources(ss, j, g, ps) ==
  ss = [x \in DOMAIN ps |-> ss[x]] /\ \A x \in DOMAIN ps : ss[x] = Resources(j, g, ps[x])
ByKind(ss, ps, K) == \A x \in DOMAIN ps : \A u \in ToSet(ss[x]) : K[u] = <<u.kind, u.name>>
NamedAfter(ss, ps, g) == \A x \in DOMAIN ps : \A u \in ToSet(ss[x]) : u.name[1] = g.name[1]

\* The resources of the pods of a group differ, and their names begin with that of the group.
LEMMA GroupResources ==
  ASSUME NEW j, NEW g, NEW ps, GroupPods(ps, g), NEW ss, AreResources(ss, j, g, ps), NEW K, ByKind(ss, ps, K)
  PROVE  Distinct(FlattenSeq(ss), K) /\ NamedAfter(ss, ps, g)
<1>0. /\ IsList(ps) /\ OneWord(g.name)
      /\ \A x \in DOMAIN ps : PodNamed(ps[x], g)
      /\ \A x, y \in DOMAIN ps : x # y => PodsApart(ps[x], ps[y], g)
      /\ ss = [x \in DOMAIN ps |-> ss[x]] /\ \A x \in DOMAIN ps : ss[x] = Resources(j, g, ps[x])
      /\ \A x \in DOMAIN ps : \A u \in ToSet(Resources(j, g, ps[x])) : K[u] = <<u.kind, u.name>>
  BY DEF GroupPods, AreResources, ByKind
<1> OneWord(g.name)
  BY <1>0
<1>1. ASSUME NEW x \in DOMAIN ps
      PROVE  /\ IsList(Resources(j, g, ps[x])) /\ Distinct(Resources(j, g, ps[x]), K)
             /\ \A u \in ToSet(Resources(j, g, ps[x])) : NamedIn(u, g, ps[x])
  <2>0. PICK pod : pod = ps[x]
    OBVIOUS
  <2>1. NamedByWord(pod.tasks) /\ IsList(pod.tasks)
    BY <1>0, <2>0 DEF PodNamed, NamedByWord, AreTasks
  <2>2. \A u \in ToSet(Resources(j, g, pod)) : K[u] = <<u.kind, u.name>>
    BY <1>0, <2>0
  <2>3. /\ IsList(Resources(j, g, pod)) /\ Distinct(Resources(j, g, pod), K)
        /\ \A u \in ToSet(Resources(j, g, pod)) : NamedIn(u, g, pod)
    BY <2>1, <2>2, ResourcesAre, ResourcesNamed
  <2> QED BY <2>0, <2>3
<1>2. ASSUME NEW x \in DOMAIN ps, NEW y \in DOMAIN ps, x # y,
             NEW u \in ToSet(Resources(j, g, ps[x])), NEW v \in ToSet(Resources(j, g, ps[y]))
      PROVE  K[u] # K[v]
  <2>1. PodsApart(ps[x], ps[y], g) /\ PodNamed(ps[x], g) /\ PodNamed(ps[y], g)
    BY <1>0, <1>2
  <2>2. PICK t \in ToSet(ps[x].tasks) : ResourceOf(u, g, t)
    BY <1>0, <1>1, <2>1, NamedByGroup DEF PodsApart
  <2>3. PICK s \in ToSet(ps[y].tasks) : ResourceOf(v, g, s)
    BY <1>0, <1>1, <2>1, NamedByGroup DEF PodsApart
  <2>4. t.name # s.name /\ OneWord(t.name) /\ OneWord(s.name)
    BY <2>1 DEF PodsApart, PodNamed, NamedByWord
  <2>5. u.name # v.name
    BY <2>2, <2>3, <2>4, ResourcesTell
  <2>6. K[u] = <<u.kind, u.name>> /\ K[v] = <<v.kind, v.name>>
    BY <1>0
  <2> QED BY <2>5, <2>6, Both
<1>4. Distinct(FlattenSeq(ss), K)
  <2>1. \A x \in DOMAIN ps : IsList(ss[x]) /\ Distinct(ss[x], K)
    BY <1>0, <1>1
  <2>2. \A x, y \in DOMAIN ps : x # y => \A u \in ToSet(ss[x]), v \in ToSet(ss[y]) : K[u] # K[v]
    BY <1>0, <1>2
  <2> QED BY <1>0, <2>1, <2>2, DistinctOfEach
<1>5. \A x \in DOMAIN ps : \A u \in ToSet(Resources(j, g, ps[x])) : u.name[1] = g.name[1]
  BY <1>0, <1>1, NamedByGroup
<1> QED BY <1>0, <1>4, <1>5 DEF NamedAfter

-----------------------------------------------------------------------------
(* What is rendered differs by name, and from what is still to be rendered.  *)

\* Units of fleet: no two have one name, and none is of a slice that is to come.
FleetDiffers(j, out, td) ==
  /\ \A a, b \in DOMAIN out : out[a].name = out[b].name => a = b
  /\ \A u \in ToSet(out), e \in ToSet(td) :
       ~(u.name.task[2] = j.groups[e.group].name /\ u.slice = e.slice)

\* Resources of kubernetes: no two of a kind have one name, and none is of a group to come.
KubeDiffers(j, out, td) ==
  /\ \A a, b \in DOMAIN out : out[a].kind = out[b].kind /\ out[a].name = out[b].name => a = b
  /\ \A u \in ToSet(out), e \in ToSet(td) : u.name[1] # j.groups[e.group].name[1]

\* Each group and slice is to be rendered once.
TodoDiffers(td) ==
  /\ \A a, b \in DOMAIN td : td[a] = td[b] => a = b
  /\ Cluster.kube => \A e \in ToSet(td) : e.slice = 1

\* The invariant that NamesAreUnique needs.
UniqueOK ==
  Rendering => /\ TodoDiffers(todo)
               /\ ~Cluster.kube => FleetDiffers(job, output, todo)
               /\ Cluster.kube /\ OneWords(job) => KubeDiffers(job, output, todo)

\* Rendered lists each group and slice once.
LEMMA RenderedDiffers ==
  ASSUME NEW j, IsJob(j), Cluster.kube \in BOOLEAN
  PROVE  TodoDiffers(Rendered(j))
<1> DEFINE n == IF Cluster.kube THEN 1 ELSE MaxCount(j)
           ss == [i \in 1..n |-> [k \in DOMAIN j.groups |-> [group |-> k, slice |-> i]]]
<1>1. n \in Nat
  BY MaxCountIsCount
<1>2. IsList(j.groups)
  BY DEF IsJob, AreGroups
<1>3. Rendered(j) = FlattenSeq(ss)
  BY DEF Rendered
<1>4. ASSUME NEW i \in 1..n
      PROVE  /\ IsList(ss[i]) /\ DOMAIN ss[i] = DOMAIN j.groups
             /\ \A k \in DOMAIN ss[i] : ss[i][k].group = k /\ ss[i][k].slice = i
  <2>1. /\ ss[i] = [k \in DOMAIN j.groups |-> ss[i][k]]
        /\ \A k \in DOMAIN ss[i] : ss[i][k].group = k /\ ss[i][k].slice = i
    OBVIOUS
  <2> HIDE DEF ss
  <2> QED BY <2>1, <1>2, ListOfAll
<1>5. IsList(ss) /\ DOMAIN ss = 1..n
  <2> HIDE DEF n
  <2>1. ss = [i \in 1..n |-> ss[i]]
    OBVIOUS
  <2> HIDE DEF ss
  <2> QED BY <1>1, <2>1, ListIsSeq
<1> HIDE DEF ss, n
<1>6. PICK a, b :
        /\ \A p \in DOMAIN FlattenSeq(ss) :
             /\ a[p] \in DOMAIN ss /\ b[p] \in DOMAIN ss[a[p]]
             /\ FlattenSeq(ss)[p] = ss[a[p]][b[p]]
        /\ \A p, q \in DOMAIN FlattenSeq(ss) : a[p] = a[q] /\ b[p] = b[q] => p = q
  BY <1>4, <1>5, FlattenPlaces
<1> DEFINE f == FlattenSeq(ss)
<1>7. \A p \in DOMAIN f : a[p] \in 1..n /\ f[p].group = b[p] /\ f[p].slice = a[p]
  BY <1>4, <1>5, <1>6
<1>8. \A p, q \in DOMAIN f : a[p] = a[q] /\ b[p] = b[q] => p = q
  BY <1>6
<1> HIDE DEF f
<1>9. \A p, q \in DOMAIN f : f[p] = f[q] => p = q
  BY <1>7, <1>8
<1>10. ASSUME Cluster.kube, NEW e \in ToSet(f) PROVE e.slice = 1
  <2>1. PICK p \in DOMAIN f : e = f[p]
    BY DEF ToSet
  <2>2. a[p] \in 1..1
    BY <1>7, <1>10 DEF n
  <2> QED BY <2>1, <2>2, <1>7
<1> QED BY <1>3, <1>9, <1>10 DEF TodoDiffers, f

\* The list without its first entry.
LEMMA TodoRest ==
  ASSUME NEW S, NEW td \in Seq(S), td # <<>>, TodoDiffers(td)
  PROVE  /\ TodoDiffers(Tail(td)) /\ ToSet(Tail(td)) \subseteq ToSet(td)
         /\ \A e \in ToSet(Tail(td)) : e # td[1]
<1>1. /\ Len(td) \in Nat /\ Len(td) # 0 /\ DOMAIN td = 1..Len(td) /\ DOMAIN Tail(td) = 1..(Len(td) - 1)
      /\ \A i \in 1..(Len(td) - 1) : Tail(td)[i] = td[i + 1]
  OBVIOUS
<1> DEFINE r == Tail(td)
<1>2. \A i \in DOMAIN r : i + 1 \in DOMAIN td /\ r[i] = td[i + 1] /\ i \in Nat /\ i # 0
  BY <1>1
<1> HIDE DEF r
<1>3. ToSet(r) \subseteq ToSet(td)
  BY <1>2 DEF ToSet
<1>4. \A i, k \in DOMAIN r : r[i] = r[k] => i = k
  <2> SUFFICES ASSUME NEW i \in DOMAIN r, NEW k \in DOMAIN r, r[i] = r[k] PROVE i = k
    OBVIOUS
  <2>1. i + 1 = k + 1
    BY <1>2 DEF TodoDiffers
  <2> QED BY <2>1, <1>2
<1>5. \A e \in ToSet(r) : e # td[1]
  <2> SUFFICES ASSUME NEW i \in DOMAIN r, r[i] = td[1] PROVE FALSE
    BY DEF ToSet
  <2>1. i + 1 = 1
    BY <1>1, <1>2 DEF TodoDiffers
  <2> QED BY <2>1, <1>2
<1> QED BY <1>3, <1>4, <1>5 DEF TodoDiffers, r

\* Validate keeps UniqueOK: nothing is rendered yet.
LEMMA UniqueOKValidate ==
  ASSUME JobOK, OutputOK, Validate
  PROVE  UniqueOK'
<1>1. CASE ~JobIsValid(job')
  BY <1>1 DEF Validate, UniqueOK, Rendering
<1>2. CASE JobIsValid(job')
  <2>1. stage = "replace" /\ output' = <<>> /\ Cluster' = Cluster /\ todo' = Rendered(job')
    BY <1>2 DEF Validate, OutputOK, Cluster
  <2>2. IsJob(job')
    BY JobOKValidate DEF JobOK
  <2>3. Cluster.kube \in BOOLEAN
    BY FileAssumption DEF FileAssumption, JobOK, Cluster
  <2>4. TodoDiffers(todo')
    BY <2>1, <2>2, <2>3, RenderedDiffers
  <2>5. TodoDiffers(todo)'
    BY <2>1, <2>4 DEF TodoDiffers
  <2>6. ToSet(<<>>) = {} /\ DOMAIN <<>> = {}
    BY SmallLists
  <2>7. FleetDiffers(job', <<>>, todo') /\ KubeDiffers(job', <<>>, todo')
    BY <2>6 DEF FleetDiffers, KubeDiffers
  <2> QED BY <2>1, <2>5, <2>7 DEF UniqueOK
<1> QED BY <1>1, <1>2

\* What is left to do grows shorter, or stays as it is.
LEMMA UniqueOKRest ==
  ASSUME JobOK, UniqueOK, UNCHANGED <<file, job, output>>, Rendering,
         Rendering' => todo' = todo \/ (todo # <<>> /\ todo' = Tail(todo))
  PROVE  UniqueOK'
<1> SUFFICES ASSUME Rendering' PROVE UniqueOK'
  BY DEF UniqueOK
<1>1. TodoDiffers(todo') /\ ToSet(todo') \subseteq ToSet(todo)
  <2>1. TodoDiffers(todo) /\ todo \in Seq(Entries)
    BY DEF UniqueOK, JobOK
  <2>2. CASE todo' = todo
    BY <2>1, <2>2
  <2>3. CASE todo # <<>> /\ todo' = Tail(todo)
    BY <2>1, <2>3, TodoRest
  <2> QED BY <2>2, <2>3
<1>2. Cluster' = Cluster
  BY DEF Cluster
<1>3. TodoDiffers(todo)'
  BY <1>1, <1>2 DEF TodoDiffers
<1>4. ~Cluster.kube => FleetDiffers(job, output, todo')
  BY <1>1 DEF UniqueOK, FleetDiffers
<1>5. Cluster.kube /\ OneWords(job) => KubeDiffers(job, output, todo')
  BY <1>1 DEF UniqueOK, KubeDiffers
<1> QED BY <1>2, <1>3, <1>4, <1>5 DEF UniqueOK

\* The name of a unit tells its slice and its task.
UnitAtSlice(u, j, g, n) ==
  /\ u.slice = n /\ u.name.at = IF g.global /\ g.count = 1 THEN 0 ELSE n
  /\ \E t \in ToSet(g.tasks) : u.name.task = <<j.name, g.name, t.name>>

LEMMA UnitAt ==
  ASSUME NEW j, NEW g, AreTasks(g.tasks), NEW n, NEW c, NEW u \in ToSet(GroupUnits(j, g, n, c))
  PROVE  UnitAtSlice(u, j, g, n)
<1>1. PICK i \in DOMAIN g.tasks : \/ TimerOf(u, j, g, n, i)
                                  \/ \E k : UnitOf(u, j, g, n, c, i, k)
  BY SliceUnit
<1>2. g.tasks[i] \in ToSet(g.tasks)
  BY DEF ToSet
<1>3. CASE TimerOf(u, j, g, n, i)
  <2>1. u.name.at = IF g.global /\ g.count = 1 THEN 0 ELSE n
    BY <1>3 DEF TimerOf, UnitName
  <2>2. u.slice = n /\ u.name.task = <<j.name, g.name, g.tasks[i].name>>
    BY <1>3, TimerIs
  <2> QED BY <2>1, <2>2, <1>2 DEF UnitAtSlice
<1>4. ASSUME NEW k, UnitOf(u, j, g, n, c, i, k)
      PROVE  UnitAtSlice(u, j, g, n)
  <2>1. NamedAs(u, j, g, g.tasks[i], n, c, k)
    BY <1>4, UnitIs
  <2>2. u.name.at = IF g.global /\ g.count = 1 THEN 0 ELSE n
    BY <2>1 DEF NamedAs, UnitName
  <2>3. u.slice = n /\ u.name.task = <<j.name, g.name, g.tasks[i].name>>
    BY <1>4, ServiceIs
  <2> QED BY <2>2, <2>3, <1>2 DEF UnitAtSlice
<1> QED BY <1>1, <1>3, <1>4

\* Units of one name that are rendered are of one group and slice.
LEMMA OneSlice ==
  ASSUME NEW j, NEW g, AreTasks(g.tasks), NEW n \in 1..g.count, NEW c, NEW u \in ToSet(GroupUnits(j, g, n, c)),
         NEW m \in 1..g.count, NEW v \in ToSet(GroupUnits(j, g, m, c)), u.name = v.name
  PROVE  n = m
<1>1. UnitAtSlice(u, j, g, n) /\ UnitAtSlice(v, j, g, m)
  BY UnitAt
<1>2. /\ u.name.at = IF g.global /\ g.count = 1 THEN 0 ELSE n
      /\ v.name.at = IF g.global /\ g.count = 1 THEN 0 ELSE m
  BY <1>1 DEF UnitAtSlice
<1>3. CASE g.count = 1
  BY <1>3
<1>4. CASE g.count # 1
  BY <1>2, <1>4
<1> QED BY <1>3, <1>4

\* The units of the next slice differ from those before, and from those of the other slices.
LEMMA UniqueOKRenderUnits ==
  ASSUME JobOK, OutputOK, UniqueOK, RenderUnits
  PROVE  UniqueOK'
<1>0. /\ stage = "render" /\ ~Cluster.kube /\ todo # <<>> /\ file' = file /\ job' = job
      /\ Cluster' = Cluster /\ Rendering
  BY DEF RenderUnits, End, parseVars, Cluster, Rendering
<1>1. CASE output' = output
  <2>1. Rendering' => todo' = Tail(todo)
    BY DEF RenderUnits, End, Rendering
  <2> QED BY <1>0, <1>1, <2>1, UniqueOKRest
<1>2. CASE output' # output
  <2> DEFINE g == Group
             n == todo[1].slice
             new == GroupUnits(job, Group, n, Cluster)
  <2>1. output' = output \o new /\ todo' = Tail(todo) /\ ~(n > Group.count)
    <3>1. ~(n <= Group.count /\ UnitsFail(job, Group, Cluster))
      BY <1>2 DEF RenderUnits, End
    <3>2. output' = (IF n > Group.count THEN output ELSE output \o new) /\ todo' = Tail(todo)
      BY <3>1 DEF RenderUnits
    <3> HIDE DEF n, new
    <3> QED BY <3>2, <1>2
  <2>2. todo[1] \in Entries /\ todo \in Seq(Entries) /\ todo[1] \in ToSet(todo)
    <3>1. todo \in Seq(Entries)
      BY <1>0 DEF JobOK
    <3> QED BY <3>1, <1>0 DEF ToSet
  <2>3. GroupFacts(g) /\ g \in ToSet(job.groups) /\ g = job.groups[todo[1].group]
    BY <1>0, GroupOK, GroupsAre DEF Group
  <2>4. n \in 1..g.count
    <3>1. n \in Nat \ {0} /\ g.count \in Int
      BY <2>2, <2>3 DEF Entries, GroupFacts, IsGroup
    <3> QED BY <2>1, <3>1
  <2>5. new = GroupUnits(job, g, n, Cluster)
    OBVIOUS
  <2> HIDE DEF new, n, g
  <2>6. AreTasks(g.tasks) /\ ~Duplicate(g.tasks) /\ IsList(new) /\ IsList(output)
    <3>1. AreTasks(g.tasks) /\ ~Duplicate(g.tasks)
      BY <2>3 DEF GroupFacts
    <3> QED BY <3>1, <2>5, UnitsOfGroup DEF OutputOK
  <2>7. FleetDiffers(job, output, todo) /\ TodoDiffers(todo)
    BY <1>0 DEF UniqueOK
  <2>8. ASSUME NEW u \in ToSet(new)
        PROVE  u.name.task[2] = g.name /\ u.slice = n
    <3>1. u \in ToSet(GroupUnits(job, g, n, Cluster)) /\ AreTasks(g.tasks)
      BY <2>5, <2>6
    <3>2. UnitAtSlice(u, job, g, n)
      BY <3>1, UnitAt
    <3>3. PICK t \in ToSet(g.tasks) : u.name.task = <<job.name, g.name, t.name>>
      BY <3>2 DEF UnitAtSlice
    <3>4. <<job.name, g.name, t.name>>[2] = g.name
      OBVIOUS
    <3> QED BY <3>2, <3>3, <3>4 DEF UnitAtSlice
  <2>9. ASSUME NEW u \in ToSet(output), NEW v \in ToSet(new) PROVE u.name # v.name
    <3> SUFFICES ASSUME u.name = v.name PROVE FALSE
      OBVIOUS
    <3>1. PICK h \in ToSet(job.groups) : \E m \in 1..h.count :
            InSlice(u, h, m) /\ GroupFacts(h) /\ u.name.task[2] = h.name /\ u.slice = m
      BY <1>0, FleetUnit
    <3>2. PICK m \in 1..h.count :
            InSlice(u, h, m) /\ GroupFacts(h) /\ u.name.task[2] = h.name /\ u.slice = m
      BY <3>1
    <3>3. h = g
      BY <3>2, <2>3, <2>8 DEF GroupFacts
    <3>4. u \in ToSet(GroupUnits(job, g, m, Cluster)) /\ m \in 1..g.count
      BY <3>2, <3>3 DEF InSlice
    <3>5. m = n
      BY <3>4, <2>4, <2>5, <2>6, OneSlice
    <3> QED BY <3>2, <3>3, <3>5, <2>2, <2>3, <2>7 DEF FleetDiffers, n
  <2> DEFINE K == [u \in ToSet(output) \cup ToSet(new) |-> u.name]
  <2>10. \A u \in ToSet(output) \cup ToSet(new) : K[u] = u.name
    OBVIOUS
  <2> HIDE DEF K
  <2>11. Distinct(output, K)
    <3>1. \A a \in DOMAIN output : output[a] \in ToSet(output)
      BY DEF ToSet
    <3> QED BY <3>1, <2>7, <2>10 DEF FleetDiffers, Distinct
  <2>12. Distinct(new, K)
    <3> SUFFICES ASSUME NEW p \in DOMAIN new, NEW q \in DOMAIN new, K[new[p]] = K[new[q]] PROVE p = q
      BY DEF Distinct
    <3>1. new[p] \in ToSet(new) /\ new[q] \in ToSet(new)
      BY DEF ToSet
    <3>2. new[p].name = new[q].name
      BY <3>1, <2>10
    <3> QED BY <3>2, <2>5, <2>6, SamePlace
  <2>13. /\ IsList(output') /\ ToSet(output') = ToSet(output) \cup ToSet(new)
         /\ Distinct(output', K)
    BY <2>1, <2>6, <2>9, <2>10, <2>11, <2>12, DistinctJoin, ListsJoin
  <2>14. \A a, b \in DOMAIN output' : output'[a].name = output'[b].name => a = b
    <3>1. \A a \in DOMAIN output' : output'[a] \in ToSet(output')
      BY DEF ToSet
    <3> QED BY <3>1, <2>10, <2>13 DEF Distinct
  <2>15. /\ TodoDiffers(Tail(todo)) /\ ToSet(Tail(todo)) \subseteq ToSet(todo)
         /\ \A e \in ToSet(Tail(todo)) : e # todo[1]
    BY <1>0, <2>2, <2>7, TodoRest
  <2>16. ASSUME NEW u \in ToSet(new), NEW e \in ToSet(Tail(todo)),
                u.name.task[2] = job.groups[e.group].name, u.slice = e.slice
         PROVE  FALSE
    <3>1. e \in Entries
      BY <2>2, <2>15, SeqIsList
    <3>2. e.group \in DOMAIN job.groups /\ todo[1].group \in DOMAIN job.groups
      BY <3>1, <2>2 DEF Entries
    <3>3. job.groups[e.group].name = job.groups[todo[1].group].name
      BY <2>3, <2>8, <2>16
    <3>4. ~Duplicate(job.groups)
      BY <1>0 DEF JobOK, JobIsValid
    <3>5. e.group = todo[1].group
      BY <3>2, <3>3, <3>4 DEF Duplicate
    <3>6. e.slice = todo[1].slice
      BY <2>8, <2>16 DEF n
    <3>7. e = todo[1]
      BY <3>1, <3>5, <3>6, <2>2 DEF Entries
    <3> QED BY <3>7, <2>15
  <2>17. FleetDiffers(job, output', Tail(todo))
    BY <2>7, <2>13, <2>14, <2>15, <2>16 DEF FleetDiffers
  <2>18. TodoDiffers(todo)'
    BY <1>0, <2>1, <2>15 DEF TodoDiffers
  <2> QED BY <1>0, <2>1, <2>17, <2>18 DEF UniqueOK
<1> QED BY <1>1, <1>2

\* The resources of the pods of a group differ from those of the groups before and after.
LEMMA UniqueOKRenderPods ==
  ASSUME JobOK, PodsOK, OutputOK, UniqueOK, RenderPods
  PROVE  UniqueOK'
<1>0. /\ stage = "pods" /\ todo # <<>> /\ Cluster.kube /\ UNCHANGED <<file, job>>
      /\ Rendering /\ Cluster' = Cluster /\ stage' \in {"render", "refused"}
  BY DEF RenderPods, End, parseVars, Cluster, JobOK, Rendering
<1>1. CASE stage' = "refused"
  BY <1>1 DEF UniqueOK, Rendering
<1>2. CASE stage' = "render"
  <2> DEFINE g == Group
             ss == [i \in DOMAIN PodList |-> Resources(job, Group, PodList[i])]
             new == FlattenSeq(ss)
  <2>1. output' = output \o new /\ todo' = Tail(todo)
    BY <1>2 DEF RenderPods, End
  <2>2. todo[1] \in Entries /\ todo \in Seq(Entries) /\ todo[1] \in ToSet(todo)
    <3>1. todo \in Seq(Entries)
      BY <1>0 DEF JobOK
    <3> QED BY <3>1, <1>0 DEF ToSet
  <2>3. TodoDiffers(todo)
    BY <1>0 DEF UniqueOK
  <2>4. /\ TodoDiffers(Tail(todo)) /\ ToSet(Tail(todo)) \subseteq ToSet(todo)
        /\ \A e \in ToSet(Tail(todo)) : e # todo[1]
    BY <1>0, <2>2, <2>3, TodoRest
  <2>5. TodoDiffers(todo)'
    BY <1>0, <2>1, <2>4 DEF TodoDiffers
  <2>6. ASSUME OneWords(job) PROVE KubeDiffers(job, output', Tail(todo))
    <3>1. g \in ToSet(job.groups) /\ g = job.groups[todo[1].group] /\ OneWord(g.name)
      BY <1>0, <2>6, GroupOK DEF Group, OneWords
    <3>2. GroupPods(PodList, g)
      BY <1>0, <2>6, <3>1, PodListNamed DEF GroupPods
    <3>3. AreResources(ss, job, g, PodList)
      BY DEF AreResources
    <3> HIDE DEF ss, g, new
    <3>5. \A i \in DOMAIN PodList : IsList(ss[i])
      <4>1. \A i \in DOMAIN PodList : IsList(PodList[i].tasks)
        BY <3>2 DEF GroupPods, PodNamed, NamedByWord, AreTasks
      <4> QED BY <4>1, <3>3, ResourcesAre DEF AreResources
    <3>6. IsList(new) /\ \A u : u \in ToSet(new) <=> \E i \in DOMAIN PodList : u \in ToSet(ss[i])
      BY <3>2, <3>3, <3>5, OfEach DEF new, GroupPods, AreResources
    <3> DEFINE K == [u \in ToSet(output) \cup ToSet(new) |-> <<u.kind, u.name>>]
    <3>7. \A u \in ToSet(output) \cup ToSet(new) : K[u] = <<u.kind, u.name>>
      OBVIOUS
    <3> HIDE DEF K
    <3>8. ByKind(ss, PodList, K)
      BY <3>6, <3>7 DEF ByKind
    <3>9. Distinct(new, K) /\ NamedAfter(ss, PodList, g)
      BY <3>2, <3>3, <3>8, GroupResources DEF new
    <3>10. \A u \in ToSet(new) : u.name[1] = g.name[1]
      BY <3>6, <3>9 DEF NamedAfter
    <3>11. KubeDiffers(job, output, todo)
      BY <1>0, <2>6 DEF UniqueOK
    <3>12. Distinct(output, K)
      <4> SUFFICES ASSUME NEW a \in DOMAIN output, NEW b \in DOMAIN output, K[output[a]] = K[output[b]]
                   PROVE  a = b
        BY DEF Distinct
      <4>1. output[a] \in ToSet(output) /\ output[b] \in ToSet(output)
        BY DEF ToSet
      <4>2. <<output[a].kind, output[a].name>> = <<output[b].kind, output[b].name>>
        BY <4>1, <3>7
      <4>3. output[a].kind = output[b].kind /\ output[a].name = output[b].name
        BY <4>2, Both
      <4> QED BY <4>3, <3>11 DEF KubeDiffers
    <3>13. ASSUME NEW u \in ToSet(output), NEW v \in ToSet(new) PROVE K[u] # K[v]
      <4>1. u.name[1] # v.name[1]
        BY <3>1, <3>10, <3>11, <2>2 DEF KubeDiffers
      <4>2. K[u] = <<u.kind, u.name>> /\ K[v] = <<v.kind, v.name>>
        BY <3>7
      <4> QED BY <4>1, <4>2, Both
    <3>14. IsList(output)
      BY DEF OutputOK
    <3>15. /\ Distinct(output', K) /\ ToSet(output') = ToSet(output) \cup ToSet(new)
      BY <2>1, <3>6, <3>9, <3>12, <3>13, <3>14, DistinctJoin, ListsJoin
    <3>16. ASSUME NEW a \in DOMAIN output', NEW b \in DOMAIN output',
                  output'[a].kind = output'[b].kind, output'[a].name = output'[b].name
           PROVE  a = b
      <4>1. output'[a] \in ToSet(output') /\ output'[b] \in ToSet(output')
        BY DEF ToSet
      <4>2. K[output'[a]] = K[output'[b]]
        BY <4>1, <3>7, <3>15, <3>16
      <4> QED BY <4>2, <3>15 DEF Distinct
    <3>17. ASSUME NEW u \in ToSet(new), NEW e \in ToSet(Tail(todo))
           PROVE  u.name[1] # job.groups[e.group].name[1]
      <4> SUFFICES ASSUME u.name[1] = job.groups[e.group].name[1] PROVE FALSE
        OBVIOUS
      <4>1. e \in Entries
        BY <2>2, <2>4, SeqIsList
      <4>2. e.group \in DOMAIN job.groups /\ todo[1].group \in DOMAIN job.groups
        BY <4>1, <2>2 DEF Entries
      <4>3. job.groups[e.group] \in ToSet(job.groups)
        BY <4>2 DEF ToSet
      <4>4. OneWord(job.groups[e.group].name)
        BY <4>3, <2>6 DEF OneWords
      <4>5. job.groups[e.group].name = g.name
        <5> DEFINE w == job.groups[e.group].name
        <5>1. OneWord(w) /\ OneWord(g.name) /\ w[1] = g.name[1]
          BY <4>4, <3>1, <3>10
        <5> HIDE DEF w
        <5>2. /\ IsList(w) /\ IsList(g.name) /\ Len(w) = Len(g.name) /\ Len(w) = 1
              /\ \A i \in 1..1 : i = 1
          BY <5>1 DEF OneWord
        <5>3. w = g.name
          BY <5>1, <5>2, SameLists
        <5> QED BY <5>3 DEF w
      <4>6. ~Duplicate(job.groups)
        BY <1>0 DEF JobOK, JobIsValid
      <4>7. e.group = todo[1].group
        BY <4>2, <4>5, <4>6, <3>1 DEF Duplicate
      <4>8. e.slice = todo[1].slice
        BY <1>0, <2>2, <2>3, <2>4 DEF TodoDiffers
      <4>9. e = todo[1]
        BY <4>1, <4>7, <4>8, <2>2 DEF Entries
      <4> QED BY <4>9, <2>4
    <3> QED BY <2>4, <3>11, <3>15, <3>16, <3>17 DEF KubeDiffers
  <2> QED BY <1>0, <2>1, <2>5, <2>6 DEF UniqueOK
<1> QED BY <1>0, <1>1, <1>2

\* UniqueOK is inductive, relative to the other parts of the invariant.
LEMMA UniqueOKStep ==
  ASSUME JobOK, PodsOK, OutputOK, UniqueOK, [Next]_pipelineVars
  PROVE  UniqueOK'
<1> USE DEF End, parseVars, podVars
<1>1. CASE Parse \/ EndReplaceTask \/ \E k \in pending : ReplaceVariable(k)
  <2>1. ~Rendering'
    <3>1. Parse \/ EndReplaceTask => stage' \in {"replace", "refused"}
      BY DEF Parse, EndReplaceTask
    <3>2. (\E k \in pending : ReplaceVariable(k)) => stage' \in {"replace", "panic"}
      BY DEF ReplaceVariable
    <3> QED BY <1>1, <3>1, <3>2 DEF Rendering
  <2> QED BY <2>1 DEF UniqueOK
<1>2. CASE Validate
  BY <1>2, UniqueOKValidate
<1>3. CASE RenderUnits
  BY <1>3, UniqueOKRenderUnits
<1>4. CASE RenderPods
  BY <1>4, UniqueOKRenderPods
<1> DEFINE Rest == /\ UNCHANGED <<file, job, output>> /\ Rendering
                   /\ todo' = todo \/ (todo # <<>> /\ todo' = Tail(todo))
<1>5. CASE Rest
  BY <1>5, UniqueOKRest
<1>6. SkipGroup => Rest
  BY DEF SkipGroup, Rendering
<1>7. Done \/ OnePod \/ OwnPods => Rest
  BY DEF Done, OnePod, OwnPods, Rendering
<1>8. TiePods \/ EndTies \/ SortTasks => Rest
  BY DEF TiePods, EndTies, SortTasks, Rendering
<1>9. (\E p \in Pods : PickPod(p)) => Rest
  BY DEF PickPod, Rendering
<1>10. CASE Ended \/ UNCHANGED pipelineVars
  <2>1. UNCHANGED <<file, stage, job, todo, output>>
    BY <1>10 DEF Ended, pipelineVars
  <2> QED BY <2>1 DEF UniqueOK, Cluster, Rendering, TodoDiffers
<1> QED
  BY <1>1, <1>2, <1>3, <1>4, <1>5, <1>6, <1>7, <1>8, <1>9, <1>10 DEF Next, Steps

-----------------------------------------------------------------------------
(* The records of all that is rendered.                                      *)

\* Records rs differ in their keys.
KeysDiffer(rs) == IsList(rs) /\ \A a, b \in DOMAIN rs : rs[a].key = rs[b].key => a = b

\* The list of their keys.
KeysOf(rs) == [k \in DOMAIN rs |-> rs[k].key]

\* The keys of several lists of records differ when those of each do and no two have one.
LEMMA KeysOfAll ==
  ASSUME NEW out, IsList(out), NEW rs, \A i \in DOMAIN out : KeysDiffer(rs[i]),
         \A i, k \in DOMAIN out : i # k => \A x \in ToSet(rs[i]), y \in ToSet(rs[k]) : x.key # y.key,
         NEW ss, ss = [i \in DOMAIN out |-> ss[i]],
         \A i \in DOMAIN out : ss[i] = KeysOf(rs[i])
  PROVE  IsInjective(FlattenSeq(ss))
<1> DEFINE K == [x \in UNION {ToSet(ss[i]) : i \in DOMAIN out} |-> x]
           f == FlattenSeq(ss)
<1>1. \A i \in DOMAIN out : \A x \in ToSet(ss[i]) : K[x] = x
  OBVIOUS
<1> HIDE DEF K
<1>2. ASSUME NEW i \in DOMAIN out
      PROVE  /\ IsList(ss[i]) /\ DOMAIN ss[i] = DOMAIN rs[i]
             /\ \A k \in DOMAIN ss[i] : ss[i][k] = rs[i][k].key
  <2>1. IsList(rs[i])
    BY DEF KeysDiffer
  <2>2. PICK s, r : s = ss[i] /\ r = rs[i]
    OBVIOUS
  <2>3. s = [k \in DOMAIN r |-> r[k].key]
    BY <2>2 DEF KeysOf
  <2>4. s = [k \in DOMAIN r |-> s[k]] /\ DOMAIN s = DOMAIN r /\ \A k \in DOMAIN s : s[k] = r[k].key
    BY <2>3
  <2>5. IsList(s)
    BY <2>1, <2>2, <2>4, ListOfAll
  <2> QED BY <2>2, <2>4, <2>5
<1>3. ASSUME NEW i \in DOMAIN out PROVE Distinct(ss[i], K)
  <2> SUFFICES ASSUME NEW a \in DOMAIN ss[i], NEW b \in DOMAIN ss[i], K[ss[i][a]] = K[ss[i][b]]
               PROVE  a = b
    BY DEF Distinct
  <2>1. ss[i][a] \in ToSet(ss[i]) /\ ss[i][b] \in ToSet(ss[i])
    BY DEF ToSet
  <2>2. rs[i][a].key = rs[i][b].key
    BY <2>1, <1>1, <1>2
  <2> QED BY <2>2, <1>2 DEF KeysDiffer
<1>4. ASSUME NEW i \in DOMAIN out, NEW k \in DOMAIN out, i # k, NEW x \in ToSet(ss[i]), NEW y \in ToSet(ss[k])
      PROVE  K[x] # K[y]
  <2>1. PICK a \in DOMAIN rs[i] : x = rs[i][a].key
    BY <1>2 DEF ToSet
  <2>2. PICK b \in DOMAIN rs[k] : y = rs[k][b].key
    BY <1>2 DEF ToSet
  <2>3. rs[i][a] \in ToSet(rs[i]) /\ rs[k][b] \in ToSet(rs[k])
    BY DEF ToSet
  <2>4. x # y
    BY <2>1, <2>2, <2>3, <1>4
  <2> QED BY <2>4, <1>1
<1>5. Distinct(f, K)
  BY <1>2, <1>3, <1>4, DistinctOfEach
<1>6. \A u : u \in ToSet(f) <=> \E i \in DOMAIN out : u \in ToSet(ss[i])
  BY <1>2, OfEach
<1> HIDE DEF f
<1>7. ASSUME NEW p \in DOMAIN f PROVE K[f[p]] = f[p]
  <2>1. f[p] \in ToSet(f)
    BY DEF ToSet
  <2>2. PICK i \in DOMAIN out : f[p] \in ToSet(ss[i])
    BY <2>1, <1>6
  <2> QED BY <2>2, <1>1
<1> QED BY <1>5, <1>7 DEF Distinct, IsInjective, f

\* The records of a unit: none, or those of a task's main unit, with the task's name in their keys.
MainRecords(u, j, g, t, n) ==
  /\ u.name = UnitName(j, g, t, <<"mn">>, n, "service")
  /\ \A r \in ToSet(u.records) : \E m, i : r.key = <<TaskLink(j, g, t), n, m, i>>
SomeRecords(u, j, g, n) ==
  /\ KeysDiffer(u.records)
  /\ u.records # <<>> => \E t \in ToSet(g.tasks) : MainRecords(u, j, g, t, n)

LEMMA ServiceKeys ==
  ASSUME NEW j, NEW g, AreTasks(g.tasks), NEW n, NEW c, NEW i, NEW k, NEW u,
         UnitOf(u, j, g, n, c, i, k), KeysDiffer(<<>>)
  PROVE  SomeRecords(u, j, g, n)
<1> DEFINE t == g.tasks[i]
<1>0. PICK b : b = Base(j, g, t, n, c)[k]
  OBVIOUS
<1>1. IsTask(t) /\ t \in ToSet(g.tasks) /\ k \in DOMAIN Base(j, g, t, n, c) /\ NamedAs(u, j, g, t, n, c, k)
  BY UnitIs
<1>2. u.records = b.records
  <2>1. Grown(u, b)
    BY <1>0 DEF UnitOf
  <2>2. "records" \in UnitFields \ {"requires", "after", "machineOf"}
    BY DEF UnitFields
  <2> QED BY <2>1, <2>2 DEF Grown
<1> HIDE DEF t
<1>3. CASE k # Len(Kinds(t)) + 1
  <2>1. Base(j, g, t, n, c)[k].records = <<>>
    BY <1>1, <1>3, BaseIs
  <2> QED BY <2>1, <1>0, <1>2 DEF SomeRecords
<1>4. CASE k = Len(Kinds(t)) + 1
  <2>1. b = MainUnit(j, g, t, n, SideNames(j, g, t, n), c)
    BY <1>0, <1>1, <1>4, BaseIs
  <2>2. u.records = UnitRecords(j, g, t, n)
    BY <2>1, <1>2, MainIs
  <2>3. /\ KeysDiffer(u.records)
        /\ \A r \in ToSet(u.records) : \E m, x : r.key = <<TaskLink(j, g, t), n, m, x>>
    BY <2>2, FrontEndKeys DEF UnitRecords, KeysDiffer
  <2>4. u.name = UnitName(j, g, t, <<"mn">>, n, "service")
    BY <1>1, <1>4 DEF NamedAs, KindAt
  <2> QED BY <2>3, <2>4, <1>1 DEF MainRecords, SomeRecords
<1> QED BY <1>3, <1>4

LEMMA UnitKeys ==
  ASSUME JobOK, OutputOK, Rendering, ~Cluster.kube, NEW u \in ToSet(output)
  PROVE  \E g \in ToSet(job.groups) : \E n : SomeRecords(u, job, g, n)
<1>1. PICK g \in ToSet(job.groups) : \E n \in 1..g.count : InSlice(u, g, n) /\ GroupFacts(g)
  BY FleetUnit
<1>2. PICK n \in 1..g.count : InSlice(u, g, n) /\ GroupFacts(g)
  BY <1>1
<1>3. AreTasks(g.tasks) /\ u \in ToSet(GroupUnits(job, g, n, Cluster))
  BY <1>2 DEF GroupFacts, InSlice
<1>4. PICK i \in DOMAIN g.tasks : \/ TimerOf(u, job, g, n, i)
                                  \/ \E k : UnitOf(u, job, g, n, Cluster, i, k)
  BY <1>3, SliceUnit
<1>5. KeysDiffer(<<>>)
  <2>1. DOMAIN <<>> = {}
    OBVIOUS
  <2> QED BY <2>1, SmallLists DEF KeysDiffer
<1>6. CASE TimerOf(u, job, g, n, i)
  <2>1. u.records = <<>>
    BY <1>3, <1>6, TimerIs
  <2> QED BY <2>1, <1>5 DEF SomeRecords
<1>7. ASSUME NEW k, UnitOf(u, job, g, n, Cluster, i, k) PROVE SomeRecords(u, job, g, n)
  BY <1>3, <1>5, <1>7, ServiceKeys
<1> QED BY <1>4, <1>6, <1>7

\* On fleet no two units have one name, and no two records one key.
LEMMA FleetUnique ==
  ASSUME JobOK, OutputOK, UniqueOK, stage = "done", ~Cluster.kube,
         NEW ss, ss = [i \in DOMAIN output |-> ss[i]],
         \A i \in DOMAIN output : ss[i] = KeysOf(output[i].records)
  PROVE  /\ \A a, b \in DOMAIN output : output[a].name = output[b].name => a = b
         /\ IsInjective(FlattenSeq(ss))
<1>0. Rendering /\ IsList(output)
  BY DEF Rendering, OutputOK
<1>1. \A a, b \in DOMAIN output : output[a].name = output[b].name => a = b
  BY <1>0 DEF UniqueOK, FleetDiffers
<1>2. \A i \in DOMAIN output : \E g \in ToSet(job.groups) : \E n : SomeRecords(output[i], job, g, n)
  <2>1. \A i \in DOMAIN output : output[i] \in ToSet(output)
    BY DEF ToSet
  <2> QED BY <2>1, <1>0, UnitKeys
<1>3. \A i \in DOMAIN output : KeysDiffer(output[i].records)
  BY <1>2 DEF SomeRecords
<1>4. ASSUME NEW a \in DOMAIN output, NEW b \in DOMAIN output, a # b,
             NEW x \in ToSet(output[a].records), NEW y \in ToSet(output[b].records), x.key = y.key
      PROVE  FALSE
  <2>1. output[a].records # <<>> /\ output[b].records # <<>>
    BY SmallLists
  <2>2. PICK g \in ToSet(job.groups) : \E n, t : MainRecords(output[a], job, g, t, n)
    BY <1>2, <2>1 DEF SomeRecords
  <2>3. PICK n, t : MainRecords(output[a], job, g, t, n)
    BY <2>2
  <2>4. PICK h \in ToSet(job.groups) : \E m, s : MainRecords(output[b], job, h, s, m)
    BY <1>2, <2>1 DEF SomeRecords
  <2>5. PICK m, s : MainRecords(output[b], job, h, s, m)
    BY <2>4
  <2>6. PICK p, q : x.key = <<TaskLink(job, g, t), n, p, q>>
    BY <2>3 DEF MainRecords
  <2>7. PICK v, w : y.key = <<TaskLink(job, h, s), m, v, w>>
    BY <2>5 DEF MainRecords
  <2>8. TaskLink(job, g, t) = TaskLink(job, h, s) /\ n = m
    <3>1. <<TaskLink(job, g, t), n, p, q>> = <<TaskLink(job, h, s), m, v, w>>
      BY <1>4, <2>6, <2>7
    <3>2. PICK k, l : k = TaskLink(job, g, t) /\ l = TaskLink(job, h, s)
      OBVIOUS
    <3>3. <<k, n, p, q>> = <<l, m, v, w>>
      BY <3>1, <3>2
    <3>4. k = l /\ n = m
      BY <3>3, Fourth
    <3> QED BY <3>2, <3>4
  <2>9. <<job.name, g.name, t.name>> = <<job.name, h.name, s.name>>
    BY <2>8 DEF TaskLink, LinkName
  <2>10. g = h
    <3>1. g.name = h.name
      BY <2>9, Third
    <3> QED BY <3>1, <1>0, GroupsAre DEF GroupFacts
  <2>11. UnitName(job, g, t, <<"mn">>, n, "service") = UnitName(job, h, s, <<"mn">>, m, "service")
    BY <2>8, <2>9, <2>10 DEF UnitName
  <2> QED BY <1>1, <1>4, <2>3, <2>5, <2>11 DEF MainRecords
<1> DEFINE rs == [i \in DOMAIN output |-> output[i].records]
<1>5. \A i \in DOMAIN output : rs[i] = output[i].records
  OBVIOUS
<1> HIDE DEF rs
<1>6. \A i \in DOMAIN output : ss[i] = KeysOf(rs[i])
  BY <1>5
<1>7. IsInjective(FlattenSeq(ss))
  <2>1. PICK out : out = output
    OBVIOUS
  <2>2. /\ IsList(out) /\ ss = [i \in DOMAIN out |-> ss[i]]
        /\ \A i \in DOMAIN out : KeysDiffer(rs[i]) /\ ss[i] = KeysOf(rs[i])
    BY <1>0, <1>3, <1>5, <1>6, <2>1
  <2>3. \A i, k \in DOMAIN out : i # k => \A x \in ToSet(rs[i]), y \in ToSet(rs[k]) : x.key # y.key
    BY <1>4, <1>5, <2>1
  <2> QED BY <2>2, <2>3, KeysOfAll
<1> QED BY <1>1, <1>7

\* The records of an ingress have the name of its service in their keys.
IngressRecords(u, g, t) ==
  /\ OneWord(g.name) /\ OneWord(t.name)
  /\ KeysDiffer(u.records) /\ u.name = IngressName(g, t)
  /\ \A r \in ToSet(u.records) : \E m, i : r.key = <<ServiceName(g, t), 1, m, i>>
LEMMA IngressKeys ==
  ASSUME JobOK, OutputOK, Cluster.kube, OneWords(job), NEW u \in ToSet(output), u.kind = "ingress"
  PROVE  \E g, t : IngressRecords(u, g, t)
<1>1. PICK g, pod :
        /\ g \in ToSet(job.groups) /\ PodOf(pod, g) /\ IsList(pod.tasks) /\ u \in ToSet(Resources(job, g, pod))
  BY KubeResource
<1>2. PICK t \in ToSet(pod.tasks) : u = Ingress(job, g, t)
  BY <1>1, ResourcesAre
<1>3. OneWord(g.name) /\ OneWord(t.name)
  BY <1>1, <1>2 DEF OneWords, PodOf
<1>4. PICK d : u.records = FrontEndRecords(t, 1, ServiceName(g, t), TargetService(job, g, t), d, <<>>)
  BY <1>2 DEF Ingress
<1>5. u.name = IngressName(g, t)
  BY <1>2 DEF Ingress
<1> QED BY <1>3, <1>4, <1>5, FrontEndKeys DEF IngressRecords, KeysDiffer

\* The service of a task tells the task.
LEMMA ServicesTell ==
  ASSUME NEW g, OneWord(g.name), NEW t, OneWord(t.name), NEW h, OneWord(h.name), NEW s, OneWord(s.name),
         ServiceName(g, t) = ServiceName(h, s)
  PROVE  g.name = h.name /\ t.name = s.name
<1>1. PICK x : x = <<"srv">>
  OBVIOUS
<1>2. IsList(x) /\ \A p, q : OneWord(p.name) /\ OneWord(q.name) => IsList(p.name) /\ IsList(q.name)
  BY <1>1, SmallLists DEF OneWord
<1>3. ServiceName(g, t) = Phrase(g.name, t.name, x) /\ ServiceName(h, s) = Phrase(h.name, s.name, x)
  BY <1>1 DEF ServiceName, Phrase
<1>4. PICK n : n = ServiceName(g, t)
  OBVIOUS
<1>5. PhraseIs(n, g.name, t.name, x) /\ PhraseIs(n, h.name, s.name, x)
  BY <1>2, <1>3, <1>4, Words
<1>6. Len(g.name) = 1 /\ Len(h.name) = 1 /\ IsList(g.name) /\ IsList(h.name)
  BY DEF OneWord
<1>7. g.name[1] = h.name[1]
  BY <1>5, <1>6 DEF PhraseIs
<1>8. g.name = h.name
  <2>1. \A i \in 1..Len(g.name) : i = 1
    BY <1>6
  <2> QED BY <2>1, <1>6, <1>7, SameLists
<1>9. Phrase(g.name, t.name, x) = Phrase(g.name, s.name, x)
  BY <1>3, <1>8
<1> QED BY <1>2, <1>6, <1>8, <1>9, WordsCancel

\* On kubernetes no two resources have one name, and no two records of ingresses one key.
LEMMA KubeUnique ==
  ASSUME JobOK, OutputOK, UniqueOK, stage = "done", Cluster.kube, OneWords(job),
         NEW rs, \A i \in DOMAIN output : rs[i] = IF output[i].kind = "ingress" THEN output[i].records ELSE <<>>,
         NEW ss, ss = [i \in DOMAIN output |-> ss[i]], \A i \in DOMAIN output : ss[i] = KeysOf(rs[i])
  PROVE  /\ \A a, b \in DOMAIN output : output[a].kind = output[b].kind /\ output[a].name = output[b].name => a = b
         /\ IsInjective(FlattenSeq(ss))
<1>0. Rendering /\ IsList(output)
  BY DEF Rendering, OutputOK
<1>1. \A a, b \in DOMAIN output : output[a].kind = output[b].kind /\ output[a].name = output[b].name => a = b
  BY <1>0 DEF UniqueOK, KubeDiffers
<1>2. \A i \in DOMAIN output : output[i].kind = "ingress" => \E g, t : IngressRecords(output[i], g, t)
  <2>1. \A i \in DOMAIN output : output[i] \in ToSet(output)
    BY DEF ToSet
  <2> QED BY <2>1, IngressKeys
<1>3. ASSUME NEW i \in DOMAIN output PROVE KeysDiffer(rs[i])
  <2>1. CASE output[i].kind = "ingress"
    BY <2>1, <1>2 DEF IngressRecords
  <2>2. CASE output[i].kind # "ingress"
    <3>1. rs[i] = <<>> /\ DOMAIN <<>> = {}
      BY <2>2
    <3> QED BY <3>1, SmallLists DEF KeysDiffer
  <2> QED BY <2>1, <2>2
<1>4. ASSUME NEW a \in DOMAIN output, NEW b \in DOMAIN output, a # b,
             NEW x \in ToSet(rs[a]), NEW y \in ToSet(rs[b]), x.key = y.key
      PROVE  FALSE
  <2>1. /\ output[a].kind = "ingress" /\ rs[a] = output[a].records
        /\ output[b].kind = "ingress" /\ rs[b] = output[b].records
    BY SmallLists
  <2>2. PICK g, t : IngressRecords(output[a], g, t)
    BY <1>2, <2>1
  <2>3. PICK h, s : IngressRecords(output[b], h, s)
    BY <1>2, <2>1
  <2>4. PICK k, l : k = ServiceName(g, t) /\ l = ServiceName(h, s)
    OBVIOUS
  <2>5. PICK p, q : x.key = <<k, 1, p, q>>
    BY <2>1, <2>2, <2>4 DEF IngressRecords
  <2>6. PICK v, w : y.key = <<l, 1, v, w>>
    BY <2>1, <2>3, <2>4 DEF IngressRecords
  <2>7. k = l
    <3>1. <<k, 1, p, q>> = <<l, 1, v, w>>
      BY <1>4, <2>5, <2>6
    <3> QED BY <3>1, Fourth
  <2>8. g.name = h.name /\ t.name = s.name
    <3>1. OneWord(g.name) /\ OneWord(t.name) /\ OneWord(h.name) /\ OneWord(s.name)
      BY <2>2, <2>3 DEF IngressRecords
    <3>2. ServiceName(g, t) = ServiceName(h, s)
      BY <2>4, <2>7
    <3> QED BY <3>1, <3>2, ServicesTell
  <2>9. IngressName(g, t) = IngressName(h, s)
    BY <2>8 DEF IngressName
  <2> QED BY <1>1, <1>4, <2>1, <2>2, <2>3, <2>9 DEF IngressRecords
<1>5. IsInjective(FlattenSeq(ss))
  <2>1. PICK out : out = output
    OBVIOUS
  <2>2. /\ IsList(out) /\ ss = [i \in DOMAIN out |-> ss[i]]
        /\ \A i \in DOMAIN out : KeysDiffer(rs[i]) /\ ss[i] = KeysOf(rs[i])
    BY <1>0, <1>3, <2>1
  <2>3. \A i, k \in DOMAIN out : i # k => \A x \in ToSet(rs[i]), y \in ToSet(rs[k]) : x.key # y.key
    BY <1>4, <2>1
  <2> QED BY <2>2, <2>3, KeysOfAll
<1> QED BY <1>1, <1>5

\* No two containers of a controller have one name.
LEMMA SpecsUnique ==
  ASSUME JobOK, OutputOK, stage = "done", Cluster.kube, OneWords(job), NEW c \in ToSet(output),
         c.kind \in {"deployment", "daemonset", "job"}
  PROVE  ~Duplicate(c.spec.init \o c.spec.containers)
<1>1. PICK g, pod :
        /\ g \in ToSet(job.groups) /\ PodOf(pod, g) /\ IsList(pod.tasks) /\ c \in ToSet(Resources(job, g, pod))
  BY KubeResource
<1>2. c.spec = PodSpec(job, g, pod.tasks)
  BY <1>1, ResourcesAre
<1>3. IsList(g.name) /\ \A t \in ToSet(g.tasks) : OneWord(t.name)
  BY <1>1 DEF OneWords, OneWord
<1>4. NamedByWord(pod.tasks)
  BY <1>1, <1>3 DEF PodOf, NamedByWord
<1>5. IsList(job.name)
  BY OrderAssumption DEF OrderAssumption, JobOK, Rendering, JobIsValid, IsName
<1>6. PICK spec : spec = PodSpec(job, g, pod.tasks)
  OBVIOUS
<1>7. ~Duplicate(spec.init \o spec.containers)
  BY <1>3, <1>4, <1>5, <1>6, ContainersDistinct
<1> QED BY <1>2, <1>6, <1>7

\* The names of a rendered job are lists, so those of length 1 are of one word.
LEMMA WordsAreOne ==
  ASSUME JobOK, Rendering, \A f \in AllTasks : Len(f.group.name) = 1 /\ Len(f.task.name) = 1
  PROVE  OneWords(job)
<1> SUFFICES ASSUME NEW g \in ToSet(job.groups)
             PROVE  OneWord(g.name) /\ \A t \in ToSet(g.tasks) : OneWord(t.name)
  BY DEF OneWords
<1>0. GroupIsValid(g) /\ IsList(g.tasks)
  BY GroupsAre DEF GroupFacts
<1>1. IsName(g.name) /\ IsList(g.tasks) /\ g.tasks # <<>> /\ \A t \in ToSet(g.tasks) : TaskIsValid(t, g)
  BY <1>0, Zenon DEF GroupIsValid
<1>2. IsList(g.name)
  BY <1>1, OrderAssumption DEF OrderAssumption, IsName
<1>3. ASSUME NEW t \in ToSet(g.tasks) PROVE Len(g.name) = 1 /\ OneWord(t.name)
  <2>1. PICK f : f = [group |-> g, task |-> t]
    OBVIOUS
  <2>2. f \in AllTasks /\ f.group = g /\ f.task = t
    BY <2>1, TaskListed
  <2>3. IsList(t.name)
    <3>1. TaskIsValid(t, g)
      BY <1>1
    <3>2. IsName(t.name)
      BY <3>1, Zenon DEF TaskIsValid
    <3> QED BY <3>2, OrderAssumption DEF OrderAssumption, IsName
  <2> QED BY <2>2, <2>3 DEF OneWord
<1>4. ToSet(g.tasks) # {}
  <2>1. g.tasks # <<>>
    BY <1>1
  <2>2. Len(g.tasks) \in Nat /\ DOMAIN g.tasks = 1..Len(g.tasks) /\ g.tasks = [i \in 1..Len(g.tasks) |-> g.tasks[i]]
    BY <1>1, ListFacts
  <2>3. Len(g.tasks) # 0
    <3> SUFFICES ASSUME Len(g.tasks) = 0 PROVE FALSE
      OBVIOUS
    <3>1. g.tasks \in Seq(ToSet(g.tasks))
      BY <1>1 DEF IsList
    <3> QED BY <3>1, <2>1
  <2>4. 1 \in DOMAIN g.tasks
    BY <2>2, <2>3
  <2> QED BY <2>4 DEF ToSet
<1> QED BY <1>2, <1>3, <1>4 DEF OneWord

\* The invariant says what NamesAreUnique says.
LEMMA InvIsUnique ==
  ASSUME PipelineInv, UniqueOK
  PROVE  NamesAreUnique
<1> DEFINE Key(u) == IF Cluster.kube THEN <<u.kind, u.name>> ELSE u.name
           Records(u) == IF ~Cluster.kube \/ u.kind = "ingress" THEN u.records ELSE <<>>
           ks == [i \in DOMAIN output |-> Key(output[i])]
           rs == [i \in DOMAIN output |-> Records(output[i])]
           ss == [i \in DOMAIN output |-> [k \in DOMAIN Records(output[i]) |-> Records(output[i])[k].key]]
           Whole == \A c \in OfKind("deployment") \cup OfKind("daemonset") \cup OfKind("job") :
                      ~Duplicate(c.spec.init \o c.spec.containers)
<1> SUFFICES ASSUME stage = "done", \A f \in AllTasks : Len(f.group.name) = 1 /\ Len(f.task.name) = 1
             PROVE  IsInjective(ks) /\ IsInjective(FlattenSeq(ss)) /\ (Cluster.kube => Whole)
  BY DEF NamesAreUnique
<1>0. JobOK /\ OutputOK /\ Rendering
  BY DEF PipelineInv, Rendering
<1>1. OneWords(job)
  BY <1>0, WordsAreOne
<1>2. /\ DOMAIN ks = DOMAIN output /\ \A i \in DOMAIN output : ks[i] = Key(output[i])
      /\ \A i \in DOMAIN output : rs[i] = Records(output[i])
  OBVIOUS
<1>3. ss = [i \in DOMAIN output |-> ss[i]] /\ \A i \in DOMAIN output : ss[i] = KeysOf(rs[i])
  BY DEF KeysOf
<1> HIDE DEF ks, rs, ss, Whole
<1>4. CASE Cluster.kube
  <2>1. \A i \in DOMAIN output : rs[i] = IF output[i].kind = "ingress" THEN output[i].records ELSE <<>>
    BY <1>2, <1>4
  <2>2. /\ \A a, b \in DOMAIN output : output[a].kind = output[b].kind /\ output[a].name = output[b].name => a = b
        /\ IsInjective(FlattenSeq(ss))
    BY <1>0, <1>1, <1>3, <1>4, <2>1, KubeUnique
  <2>3. IsInjective(ks)
    <3> SUFFICES ASSUME NEW a \in DOMAIN output, NEW b \in DOMAIN output, ks[a] = ks[b] PROVE a = b
      BY <1>2 DEF IsInjective
    <3>1. <<output[a].kind, output[a].name>> = <<output[b].kind, output[b].name>>
      BY <1>2, <1>4
    <3>2. output[a].kind = output[b].kind /\ output[a].name = output[b].name
      BY <3>1, Both
    <3> QED BY <2>2, <3>2
  <2>4. Whole
    BY <1>0, <1>1, <1>4, SpecsUnique DEF Whole, OfKind
  <2> QED BY <2>2, <2>3, <2>4
<1>5. CASE ~Cluster.kube
  <2>1. \A i \in DOMAIN output : rs[i] = output[i].records
    BY <1>2, <1>5
  <2>2. \A i \in DOMAIN output : ss[i] = KeysOf(output[i].records)
    BY <2>1, <1>3
  <2>3. /\ \A a, b \in DOMAIN output : output[a].name = output[b].name => a = b
        /\ IsInjective(FlattenSeq(ss))
    BY <1>0, <1>3, <1>5, <2>2, FleetUnique
  <2>4. IsInjective(ks)
    BY <2>3, <1>2, <1>5 DEF IsInjective
  <2> QED BY <1>5, <2>3, <2>4
<1> QED BY <1>4, <1>5

\* No two units, resources, containers of a pod or records of a job have one name: the names
\* that j2 cuts and joins tell whole tasks apart, for every job file whose names are words.
THEOREM NamesUnique == Spec => []NamesAreUnique
<1>1. Init => UniqueOK
  BY DEF Init, UniqueOK, Rendering
<1>2. PipelineInv /\ UniqueOK /\ [Next]_pipelineVars => UniqueOK'
  BY UniqueOKStep DEF PipelineInv
<1>3. PipelineInv /\ UniqueOK => NamesAreUnique
  BY InvIsUnique
<1> QED BY <1>1, <1>2, <1>3, PipelineKeeps, PTL DEF Spec
=============================================================================

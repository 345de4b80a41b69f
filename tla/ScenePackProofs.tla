-------------------------- MODULE ScenePackProofs --------------------------
(***************************************************************************)
(* Of map_in_order, for any items, any of which may panic, and any number  *)
(* of threads the machine reports: the threads of a call share its work    *)
(* without a gap or an overlap, and to the caller the call is a plain      *)
(* loop.  Of write_scene, which calls it, for any model, meshes, budget    *)
(* and batch sizes: a file with a trailer is a whole scene, whatever       *)
(* failed or panicked, and the chunks keep their budget.                   *)
(***************************************************************************)
EXTENDS ScenePack, SequenceTheorems, WellFoundedInduction, TLAPS

-----------------------------------------------------------------------------
(* How the work is divided.                                                *)

\* Dividing with the remainder rounded up.
LEMMA DivCeilIsEnough ==
  ASSUME NEW n \in Nat, NEW t \in Nat \ {0}
  PROVE  /\ DivCeil(n, t) \in Nat
         /\ n <= t * DivCeil(n, t)
         /\ DivCeil(n, t) = 0 <=> n = 0
<1> DEFINE a == n + t - 1
           q == a \div t
<1>1. a \in Nat
  OBVIOUS
<1>2. q \in Int /\ t * q <= a /\ a < t * q + t
  <2> HIDE DEF a
  <2> QED BY <1>1, Z3
<1>3. q >= 0
  <2>1. SUFFICES ASSUME q <= -1 PROVE FALSE
    BY <1>2
  <2>2. t * q <= -t
    <3> HIDE DEF q
    <3> QED BY <1>2, <2>1, Z3
  <2> QED
    <3> HIDE DEF q
    <3> QED BY <1>1, <1>2, <2>2
<1>4. n <= t * q
  <2> HIDE DEF q
  <2> QED BY <1>2, <1>3
<1>5. q = 0 => n = 0
  <2> HIDE DEF q
  <2> QED BY <1>2, <1>3
<1>6. n = 0 => q = 0
  <2>1. SUFFICES ASSUME n = 0, q >= 1 PROVE FALSE
    BY <1>2, <1>3
  <2>2. t * q >= t
    <3> HIDE DEF q
    <3> QED BY <1>2, <2>1, Z3
  <2> QED
    <3> HIDE DEF q
    <3> QED BY <1>2, <2>1, <2>2
<1> QED
  BY <1>2, <1>3, <1>4, <1>5, <1>6 DEF DivCeil

\* Where the run of one thread ends the run of the next begins.
LEMMA RunsAreConsecutive ==
  ASSUME NEW per \in Nat \ {0}, NEW w \in Nat \ {0}
  PROVE  /\ (w - 1) * per \in Nat
         /\ w * per \in Nat
         /\ w * per = (w - 1) * per + per
         /\ w - 1 <= (w - 1) * per
<1>1. (w - 1) * per \in Nat /\ w * per \in Nat
  BY Z3
<1>2. w * per = (w - 1) * per + per
  BY Z3
<1>3. w - 1 <= (w - 1) * per
  BY Z3
<1> QED
  BY <1>1, <1>2, <1>3

LEMMA NoneBeforeTheFirst == ASSUME NEW p \in Nat PROVE (1 - 1) * p = 0
OBVIOUS

LEMMA ProductsGrow ==
  ASSUME NEW a \in Nat, NEW b \in Nat, a <= b, NEW c \in Nat
  PROVE  a * c \in Nat /\ b * c \in Nat /\ a * c <= b * c
<1>1. a * c \in Nat /\ b * c \in Nat
  BY Z3
<1>2. a * c <= b * c
  BY Z3
<1> QED
  BY <1>1, <1>2

\* Run after run: an earlier thread's ends before a later one's begins.
LEMMA RunsDoNotOverlap ==
  ASSUME NEW per \in Nat \ {0}, NEW v \in Nat \ {0}, NEW w \in Nat \ {0}, v < w
  PROVE  v * per <= (w - 1) * per
BY Z3

-----------------------------------------------------------------------------
(* map_in_order: the inductive invariant.                                  *)

\* Items in the runs before a thread's.
Before(w) == (w - 1) * perThread

\* There is a run to give away exactly where there are items, and the runs of
\* as many threads as the machine may report hold them all.
WorkIsShared ==
    /\ perThread = 0 <=> Len(items) = 0
    /\ Len(items) <= Parallelism * perThread

\* A thread has made its results from its own run, from the first item on; it
\* has returned where it has made them all, and only where it has.
OutIsARun ==
    \A w \in Workers :
      /\ Before(w) + Len(out[w]) <= RunEnd(w)
      /\ ended[w] = "returned" <=> Before(w) + Len(out[w]) = RunEnd(w)
      /\ \A k \in 1..Len(out[w]) : /\ out[w][k] = items[Before(w) + k]
                                   /\ out[w][k] \notin fatal
      /\ ended[w] = "panicked" => \E i \in DOMAIN items : items[i] \in fatal

\* What has been joined is the beginning of the items, run after run.
JoinedIsABeginning ==
    /\ Len(joined) = Smaller(Before(joining), Len(items))
    /\ \A k \in 1..Len(joined) : joined[k] = items[k] /\ joined[k] \notin fatal

\* What the calling thread knows of the others, where it is.
CallerKnows ==
    /\ call = "idle" => items = <<>> /\ joined = <<>> /\ joining = 1
    /\ call = "mapping" /\ perThread > 0 => joining \in Workers
    /\ call = "returned" => Len(joined) = Len(items)
    /\ call = "mapping" => \A w \in Workers : w < joining => ended[w] # "no"
    /\ call \in {"returned", "panicked"} => \A w \in Workers : ended[w] # "no"
    /\ call \in {"unwinding", "panicked"} =>
         \E w \in Workers : ended[w] = "panicked"

IInv ==
    /\ SharingTypeOK
    /\ WorkIsShared
    /\ OutIsARun
    /\ JoinedIsABeginning
    /\ CallerKnows

-----------------------------------------------------------------------------
(* Runs in terms of Before.                                                *)

LEMMA BeforeOfOne == ASSUME perThread \in Nat PROVE Before(1) = 0
BY NoneBeforeTheFirst DEF Before

LEMMA BeforeOfNext ==
  ASSUME perThread \in Nat, NEW w \in Nat \ {0}
  PROVE  Before(w + 1) = Before(w) + perThread /\ Before(w) \in Nat
<1>1. (w + 1 - 1) * perThread = (w - 1) * perThread + perThread
  BY Z3
<1>2. (w - 1) * perThread \in Nat
  BY Z3
<1> QED
  BY <1>1, <1>2 DEF Before

\* A thread's number, and where its run starts and ends.
LEMMA WorkerFacts ==
  ASSUME SharingTypeOK, WorkIsShared, NEW w \in Workers
  PROVE  /\ w \in DOMAIN items /\ w \in Nat \ {0}
         /\ perThread \in Nat \ {0}
         /\ Before(w) \in Nat /\ Before(w) < Len(items)
         /\ RunStart(w) = Before(w) + 1
         /\ RunEnd(w) = Smaller(Before(w) + perThread, Len(items))
         /\ RunEnd(w) \in (Before(w) + 1)..Len(items)
         /\ LastWorker(w) <=> Before(w) + perThread >= Len(items)
         /\ out[w] \in Seq(Item)
         /\ Len(items) \in Nat
<1>1. Len(items) \in Nat /\ DOMAIN items = 1..Len(items)
  BY DEF SharingTypeOK
<1>2. w \in DOMAIN items /\ w \in Nat \ {0}
  BY <1>1 DEF Workers
<1>3. Before(w) < Len(items)
  BY DEF Workers, Before
<1>4. perThread \in Nat \ {0}
  BY <1>1, <1>2 DEF WorkIsShared, SharingTypeOK
<1>5. Before(w) \in Nat
  BY <1>2, <1>4, BeforeOfNext
<1>6. w * perThread = Before(w) + perThread
  BY <1>2, <1>4, RunsAreConsecutive DEF Before
<1>7. RunStart(w) = Before(w) + 1
  BY DEF RunStart, Before
<1>8. RunEnd(w) = Smaller(Before(w) + perThread, Len(items))
  BY <1>6 DEF RunEnd
<1>9. RunEnd(w) \in (Before(w) + 1)..Len(items)
  BY <1>1, <1>3, <1>4, <1>5, <1>8 DEF Smaller
<1>10. LastWorker(w) <=> Before(w) + perThread >= Len(items)
  BY <1>6 DEF LastWorker
<1>11. out[w] \in Seq(Item)
  BY <1>2 DEF SharingTypeOK
<1> QED
  BY <1>1, <1>2, <1>3, <1>4, <1>5, <1>7, <1>8, <1>9, <1>10, <1>11

\* What of it is needed of a state to come.
RunsLieWithin ==
    \A w \in Workers : /\ Before(w) \in Nat
                       /\ RunEnd(w) \in (Before(w) + 1)..Len(items)

LEMMA RunsAreFine == SharingTypeOK /\ WorkIsShared => RunsLieWithin
BY WorkerFacts DEF RunsLieWithin

\* The thread after one that is not the last is a thread too.
LEMMA NextIsAWorker ==
  ASSUME SharingTypeOK, WorkIsShared, NEW w \in Workers, ~LastWorker(w)
  PROVE  w + 1 \in Workers
<1>1. /\ w \in Nat \ {0} /\ Len(items) \in Nat /\ perThread \in Nat \ {0}
      /\ Before(w) \in Nat /\ Before(w) + perThread < Len(items)
  BY WorkerFacts
<1>2. Before(w + 1) < Len(items)
  BY <1>1, BeforeOfNext
<1>3. w <= Before(w + 1)
  BY <1>1, RunsAreConsecutive DEF Before
<1>4. w + 1 \in DOMAIN items
  <2>1. Before(w + 1) \in Nat
    BY <1>1, BeforeOfNext
  <2>2. DOMAIN items = 1..Len(items)
    BY DEF SharingTypeOK
  <2> QED
    BY <1>1, <1>2, <1>3, <2>1, <2>2
<1> QED
  BY <1>2, <1>4 DEF Workers, Before

-----------------------------------------------------------------------------
(* It holds at first, and every step keeps it.                             *)

LEMMA InitIsFine == SharingInit => IInv
<1> SUFFICES ASSUME SharingInit PROVE IInv
  OBVIOUS
<1>1. items = <<>> /\ joined = <<>> /\ out = <<>> /\ ended = <<>>
  BY DEF SharingInit
<1>2. Workers = {} /\ DOMAIN items = {}
  BY <1>1 DEF Workers
<1>3. SharingTypeOK
  <2>1. out \in [DOMAIN items -> Seq(Item)] /\ ended \in [DOMAIN items -> Ends]
    BY <1>1
  <2> QED
    BY <1>1, <2>1 DEF SharingInit, SharingTypeOK, Calls
<1>4. WorkIsShared
  BY ParallelismAssumption DEF SharingInit, WorkIsShared
<1>5. OutIsARun
  BY <1>2 DEF OutIsARun
<1>6. JoinedIsABeginning
  <2>1. Before(joining) = 0
    BY BeforeOfOne DEF SharingInit
  <2> QED
    BY <1>1, <2>1 DEF JoinedIsABeginning, Smaller
<1>7. CallerKnows
  BY <1>1, <1>2 DEF SharingInit, CallerKnows
<1> QED
  BY <1>3, <1>4, <1>5, <1>6, <1>7 DEF IInv

LEMMA CallKeeps ==
  ASSUME IInv, NEW s \in Seq(Item), NEW f \in SUBSET Item, MapInOrder(s, f)
  PROVE  IInv'
<1>1. /\ call = "idle" /\ call' = "mapping" /\ items' = s /\ fatal' = f
      /\ out' = [w \in DOMAIN s |-> <<>>] /\ ended' = [w \in DOMAIN s |-> "no"]
      /\ joining' = joining /\ joined' = joined
  BY DEF MapInOrder
<1>2. PICK reported \in 1..Parallelism :
        perThread' = DivCeil(Len(s), threads(Len(s), reported))
  BY DEF MapInOrder
<1> DEFINE t == threads(Len(s), reported)
<1>3. t \in 1..Parallelism /\ Len(s) \in Nat
  BY ParallelismAssumption DEF threads, Smaller, Larger
<1>4. perThread' \in Nat /\ Len(s) <= t * perThread' /\ (perThread' = 0 <=> Len(s) = 0)
  <2> HIDE DEF t
  <2>1. t \in Nat \ {0} /\ perThread' = DivCeil(Len(s), t)
    BY <1>2, <1>3, ParallelismAssumption DEF t
  <2> QED
    BY <1>3, <2>1, DivCeilIsEnough
<1>5. joining = 1 /\ joined = <<>>
  BY <1>1 DEF IInv, CallerKnows
<1>6. SharingTypeOK'
  <2>1. out' \in [DOMAIN items' -> Seq(Item)] /\ ended' \in [DOMAIN items' -> Ends]
    BY <1>1 DEF Ends
  <2> QED
    BY <1>1, <1>4, <1>5, <2>1 DEF SharingTypeOK, Calls
<1>7. WorkIsShared'
  <2>1. Len(s) <= Parallelism * perThread'
    <3> HIDE DEF t
    <3> QED BY <1>3, <1>4, ParallelismAssumption, ProductsGrow
  <2> QED
    BY <1>1, <1>4, <2>1 DEF WorkIsShared
<1>8. OutIsARun'
  <2> SUFFICES ASSUME NEW w \in Workers'
               PROVE  /\ Before(w)' + Len(out'[w]) <= RunEnd(w)'
                      /\ ended'[w] = "returned" <=> Before(w)' + Len(out'[w]) = RunEnd(w)'
                      /\ \A k \in 1..Len(out'[w]) : /\ out'[w][k] = items'[Before(w)' + k]
                                                    /\ out'[w][k] \notin fatal'
                      /\ ended'[w] = "panicked" => \E i \in DOMAIN items' : items'[i] \in fatal'
    BY DEF OutIsARun
  <2>1. w \in DOMAIN items'
    BY DEF Workers
  <2>2. out'[w] = <<>> /\ ended'[w] = "no" /\ Len(out'[w]) = 0
    BY <1>1, <2>1
  <2>3. Before(w)' \in Nat /\ RunEnd(w)' \in (Before(w)' + 1)..Len(items')
    <3>1. RunsLieWithin'
      BY <1>6, <1>7, RunsAreFine, PTL
    <3> QED
      BY <3>1 DEF RunsLieWithin
  <2> QED
    BY <2>2, <2>3
<1>9. JoinedIsABeginning'
  <2>1. Before(joining)' = 0
    <3>1. perThread' \in Nat /\ joining' = 1
      BY <1>1, <1>4, <1>5
    <3> QED BY <3>1, NoneBeforeTheFirst DEF Before
  <2> QED
    BY <1>1, <1>3, <1>5, <2>1 DEF JoinedIsABeginning, Smaller
<1>10. CallerKnows'
  <2>1. \A w \in Workers' : w \in Nat /\ w >= 1
    BY <1>1, <1>3 DEF Workers
  <2>2. perThread' > 0 => 1 \in Workers'
    <3> SUFFICES ASSUME perThread' > 0 PROVE 1 \in Workers'
      OBVIOUS
    <3>1. Len(s) > 0 /\ 1 \in DOMAIN s
      BY <1>3, <1>4
    <3>2. (1 - 1) * perThread' = 0
      <4>1. perThread' \in Nat
        BY <1>4
      <4> QED BY <4>1, NoneBeforeTheFirst
    <3> QED
      BY <1>1, <3>1, <3>2 DEF Workers
  <2> QED
    BY <1>1, <1>5, <2>1, <2>2 DEF CallerKnows
<1> QED
  BY <1>6, <1>7, <1>8, <1>9, <1>10 DEF IInv

\* A thread makes its next result, or panics.
LEMMA MapKeeps ==
  ASSUME IInv, NEW w \in DOMAIN items, Map(w)
  PROVE  IInv'
<1>1. /\ call \in {"mapping", "unwinding"} /\ w \in Workers /\ ended[w] = "no"
      /\ UNCHANGED <<call, items, fatal, perThread, joining, joined>>
  BY DEF Map
<1> DEFINE n == Before(w) + Len(out[w]) + 1
<1>2. /\ w \in Nat \ {0} /\ Before(w) \in Nat /\ out[w] \in Seq(Item)
      /\ RunStart(w) = Before(w) + 1
      /\ RunEnd(w) \in (Before(w) + 1)..Len(items)
      /\ Len(items) \in Nat
  BY <1>1, WorkerFacts DEF IInv
<1>3. Len(out[w]) \in Nat
  BY <1>2
<1>4. n \in 1..RunEnd(w) /\ n \in DOMAIN items /\ NextItem(w) = items[n]
  <2>1. Before(w) + Len(out[w]) <= RunEnd(w) /\ Before(w) + Len(out[w]) # RunEnd(w)
    BY <1>1 DEF IInv, OutIsARun
  <2>2. n \in 1..RunEnd(w)
    BY <1>2, <1>3, <2>1
  <2>3. DOMAIN items = 1..Len(items)
    BY DEF IInv, SharingTypeOK
  <2>4. RunStart(w) + Len(out[w]) = n
    BY <1>2, <1>3
  <2> QED
    BY <1>2, <2>2, <2>3, <2>4 DEF NextItem
<1>5. Workers' = Workers /\ \A v : Before(v)' = Before(v) /\ RunEnd(v)' = RunEnd(v)
  BY <1>1 DEF Workers, Before, RunEnd
<1>6. items[n] \in Item
  BY <1>4 DEF IInv, SharingTypeOK
<1>7. CASE items[n] \in fatal
  <2>1. ended' = [ended EXCEPT ![w] = "panicked"] /\ out' = out
    BY <1>4, <1>7 DEF Map
  <2>2. /\ ended'[w] = "panicked"
        /\ \A v \in DOMAIN items \ {w} : ended'[v] = ended[v]
    BY <2>1 DEF IInv, SharingTypeOK
  <2>3. SharingTypeOK'
    BY <1>1, <2>1 DEF IInv, SharingTypeOK, Ends
  <2>4. OutIsARun'
    <3> SUFFICES ASSUME NEW v \in Workers
                 PROVE  /\ Before(v) + Len(out[v]) <= RunEnd(v)
                        /\ ended'[v] = "returned" <=> Before(v) + Len(out[v]) = RunEnd(v)
                        /\ \A k \in 1..Len(out[v]) : /\ out[v][k] = items[Before(v) + k]
                                                     /\ out[v][k] \notin fatal
                        /\ ended'[v] = "panicked" => \E i \in DOMAIN items : items[i] \in fatal
      BY <1>1, <1>5, <2>1 DEF OutIsARun
    <3>1. v \in DOMAIN items
      BY DEF Workers
    <3>2. CASE v = w
      BY <1>1, <1>4, <1>7, <2>2, <3>2 DEF IInv, OutIsARun
    <3>3. CASE v # w
      BY <2>2, <3>1, <3>3 DEF IInv, OutIsARun
    <3> QED
      BY <3>2, <3>3
  <2>5. CallerKnows'
    <3>1. \A v \in Workers : /\ ended[v] # "no" => ended'[v] # "no"
                             /\ ended[v] = "panicked" => ended'[v] = "panicked"
      BY <1>1, <2>2 DEF Workers
    <3> QED
      BY <1>1, <1>5, <3>1 DEF IInv, CallerKnows
  <2> QED
    BY <1>1, <1>5, <2>3, <2>4, <2>5 DEF IInv, WorkIsShared, JoinedIsABeginning
<1>8. CASE items[n] \notin fatal
  <2>1. /\ out' = [out EXCEPT ![w] = Append(@, items[n])]
        /\ ended' = [ended EXCEPT ![w] =
             IF RunStart(w) + Len(out[w]) = RunEnd(w) THEN "returned" ELSE "no"]
    BY <1>4, <1>8 DEF Map
  <2>2. /\ out'[w] = Append(out[w], items[n])
        /\ ended'[w] = IF n = RunEnd(w) THEN "returned" ELSE "no"
        /\ \A v \in DOMAIN items \ {w} : ended'[v] = ended[v] /\ out'[v] = out[v]
    <3>1. RunStart(w) + Len(out[w]) = n
      BY <1>2, <1>3
    <3> QED
      BY <2>1, <3>1 DEF IInv, SharingTypeOK
  <2>3. SharingTypeOK'
    <3>1. Append(out[w], items[n]) \in Seq(Item)
      BY <1>2, <1>6
    <3> QED
      BY <1>1, <2>1, <3>1 DEF IInv, SharingTypeOK, Ends
  <2>4. OutIsARun'
    <3> SUFFICES ASSUME NEW v \in Workers
                 PROVE  /\ Before(v) + Len(out'[v]) <= RunEnd(v)
                        /\ ended'[v] = "returned" <=> Before(v) + Len(out'[v]) = RunEnd(v)
                        /\ \A k \in 1..Len(out'[v]) : /\ out'[v][k] = items[Before(v) + k]
                                                      /\ out'[v][k] \notin fatal
                        /\ ended'[v] = "panicked" => \E i \in DOMAIN items : items[i] \in fatal
      BY <1>1, <1>5 DEF OutIsARun
    <3>1. v \in DOMAIN items
      BY DEF Workers
    <3>2. CASE v = w
      <4>1. Len(out'[w]) = Len(out[w]) + 1
        BY <1>2, <2>2
      <4>2. Before(w) + Len(out'[w]) = n
        BY <1>2, <1>3, <4>1
      <4>3. ASSUME NEW k \in 1..Len(out'[w])
            PROVE  out'[w][k] = items[Before(w) + k] /\ out'[w][k] \notin fatal
        <5>1. CASE k = Len(out[w]) + 1
          <6>1. out'[w][k] = items[n] /\ n = Before(w) + k
            BY <1>2, <1>3, <2>2, <5>1
          <6> QED
            BY <1>8, <6>1
        <5>2. CASE k \in 1..Len(out[w])
          <6>1. out'[w][k] = out[w][k]
            BY <1>2, <2>2, <5>2
          <6> QED
            BY <1>1, <5>2, <6>1 DEF IInv, OutIsARun
        <5> QED
          BY <1>3, <4>1, <5>1, <5>2
      <4>4. ended'[w] = "returned" <=> n = RunEnd(w)
        BY <2>2
      <4>5. ended'[w] # "panicked"
        BY <2>2
      <4>6. n <= RunEnd(w)
        BY <1>2, <1>4
      <4> QED
        BY <3>2, <4>2, <4>3, <4>4, <4>5, <4>6
    <3>3. CASE v # w
      BY <2>2, <3>1, <3>3 DEF IInv, OutIsARun
    <3> QED
      BY <3>2, <3>3
  <2>5. CallerKnows'
    <3>1. \A v \in Workers : /\ ended[v] # "no" => ended'[v] # "no"
                             /\ ended[v] = "panicked" => ended'[v] = "panicked"
      BY <1>1, <2>2 DEF Workers
    <3> QED
      BY <1>1, <1>5, <3>1 DEF IInv, CallerKnows
  <2> QED
    BY <1>1, <1>5, <2>3, <2>4, <2>5 DEF IInv, WorkIsShared, JoinedIsABeginning
<1> QED
  BY <1>7, <1>8

\* The calling thread joins the next one, and takes its panic for its own.
LEMMA JoinKeeps ==
  ASSUME IInv, Join
  PROVE  IInv'
<1>1. /\ call = "mapping" /\ perThread > 0 /\ ended[joining] # "no"
      /\ UNCHANGED <<items, fatal, perThread, out, ended>>
  BY DEF Join
<1>2. joining \in Workers
  BY <1>1 DEF IInv, CallerKnows
<1>3. Workers' = Workers /\ \A v : Before(v)' = Before(v) /\ RunEnd(v)' = RunEnd(v)
  BY <1>1 DEF Workers, Before, RunEnd
<1>4. OutIsARun'
  BY <1>1, <1>3 DEF IInv, OutIsARun
<1>5. CASE Panicked(joining)
  <2>1. call' = "unwinding" /\ UNCHANGED <<joining, joined>>
    BY <1>1, <1>5 DEF Join
  <2>2. SharingTypeOK' /\ WorkIsShared' /\ JoinedIsABeginning'
    BY <1>1, <1>3, <2>1
       DEF IInv, SharingTypeOK, Calls, WorkIsShared, JoinedIsABeginning, Before
  <2>3. CallerKnows'
    BY <1>1, <1>2, <1>3, <1>5, <2>1 DEF CallerKnows, Panicked
  <2> QED
    BY <1>4, <2>2, <2>3 DEF IInv
<1>6. CASE ~Panicked(joining)
  <2>1. /\ joined' = joined \o out[joining] /\ joining' = joining + 1
        /\ call' = IF LastWorker(joining) THEN "returned" ELSE "mapping"
    BY <1>1, <1>6 DEF Join, Appended, NextThread
  <2>2. /\ joining \in Nat \ {0} /\ perThread \in Nat \ {0}
        /\ Before(joining) \in Nat /\ Before(joining) < Len(items)
        /\ RunEnd(joining) = Smaller(Before(joining) + perThread, Len(items))
        /\ LastWorker(joining) <=> Before(joining) + perThread >= Len(items)
        /\ out[joining] \in Seq(Item) /\ Len(items) \in Nat
    BY <1>2, WorkerFacts DEF IInv
  <2>3. ended[joining] = "returned"
    <3>1. ended[joining] \in Ends
      BY <1>2 DEF IInv, SharingTypeOK, Workers
    <3> QED
      BY <1>1, <1>6, <3>1 DEF Ends, Panicked
  <2>4. Before(joining) + Len(out[joining]) = RunEnd(joining)
    BY <1>2, <2>3 DEF IInv, OutIsARun
  <2>5. /\ joined \in Seq(Item) /\ Len(joined) = Before(joining)
    BY <2>2 DEF IInv, SharingTypeOK, JoinedIsABeginning, Smaller
  <2>6. /\ joined' \in Seq(Item)
        /\ Len(joined') = Len(joined) + Len(out[joining])
        /\ \A k \in 1..(Len(joined) + Len(out[joining])) :
             joined'[k] = IF k <= Len(joined) THEN joined[k] ELSE out[joining][k - Len(joined)]
    BY <2>1, <2>2, <2>5, ConcatProperties
  <2>7. Before(joining + 1) = Before(joining) + perThread
    BY <2>2, BeforeOfNext
  <2>8. Len(joined') = Smaller(Before(joining + 1), Len(items))
    BY <2>2, <2>4, <2>5, <2>6, <2>7
  <2>9. ASSUME NEW k \in 1..Len(joined')
        PROVE  joined'[k] = items[k] /\ joined'[k] \notin fatal
    <3>1. CASE k <= Len(joined)
      <4>1. k \in 1..Len(joined) /\ joined'[k] = joined[k]
        BY <2>5, <2>6, <3>1
      <4> QED
        BY <4>1 DEF IInv, JoinedIsABeginning
    <3>2. CASE k > Len(joined)
      <4>1. /\ k - Len(joined) \in 1..Len(out[joining])
            /\ joined'[k] = out[joining][k - Len(joined)]
            /\ Before(joining) + (k - Len(joined)) = k
        BY <2>2, <2>5, <2>6, <3>2
      <4> QED
        BY <1>2, <4>1 DEF IInv, OutIsARun
    <3> QED
      BY <2>5, <3>1, <3>2
  <2>10. JoinedIsABeginning'
    <3>1. Before(joining)' = Before(joining + 1)
      BY <1>1, <2>1 DEF Before
    <3> QED
      BY <1>1, <2>8, <2>9, <3>1 DEF JoinedIsABeginning
  <2>11. SharingTypeOK' /\ WorkIsShared'
    BY <1>1, <2>1, <2>2, <2>6 DEF IInv, SharingTypeOK, Calls, WorkIsShared
  <2>12. CallerKnows'
    <3>1. call' = "mapping" => joining + 1 \in Workers
      BY <1>2, <2>1, NextIsAWorker DEF IInv
    <3>2. ASSUME NEW v \in Workers, v < joining + 1 PROVE ended[v] # "no"
      <4>1. v \in Nat
        BY DEF Workers, IInv, SharingTypeOK
      <4>2. v = joining \/ v < joining
        BY <2>2, <3>2, <4>1
      <4> QED
        BY <1>1, <3>2, <4>2 DEF IInv, CallerKnows
    <3>3. ASSUME LastWorker(joining), NEW v \in Workers PROVE v < joining + 1
      <4>1. v \in Nat \ {0} /\ Before(v) \in Nat /\ Before(v) < Len(items)
        BY WorkerFacts DEF IInv
      <4>2. SUFFICES ASSUME joining < v PROVE FALSE
        BY <2>2, <4>1
      <4>3. joining * perThread <= Before(v)
        BY <2>2, <4>1, <4>2, RunsDoNotOverlap DEF Before
      <4>4. joining * perThread = Before(joining) + perThread
        BY <2>2, RunsAreConsecutive DEF Before
      <4> QED
        BY <2>2, <3>3, <4>1, <4>3, <4>4
    <3>4. call' = "returned" => Len(joined') = Len(items)
      BY <2>1, <2>2, <2>7, <2>8 DEF Smaller
    <3>5. call' \in {"returned", "mapping"}
      BY <2>1
    <3>6. call' = "returned" => LastWorker(joining)
      BY <2>1
    <3> QED
      BY <1>1, <1>3, <2>1, <3>1, <3>2, <3>3, <3>4, <3>5, <3>6 DEF CallerKnows
  <2> QED
    BY <1>4, <2>10, <2>11, <2>12 DEF IInv
<1> QED
  BY <1>5, <1>6

\* Where there is nothing to map no thread is spawned.
LEMMA NothingKeeps == ASSUME IInv, NothingToMap PROVE IInv'
<1>1. /\ call = "mapping" /\ perThread = 0 /\ call' = "returned"
      /\ UNCHANGED <<items, fatal, perThread, out, ended, joining, joined>>
  BY DEF NothingToMap
<1>2. Len(items) = 0 /\ DOMAIN items = {} /\ Workers = {}
  BY <1>1 DEF IInv, WorkIsShared, SharingTypeOK, Workers
<1>3. Workers' = Workers /\ \A v : Before(v)' = Before(v) /\ RunEnd(v)' = RunEnd(v)
  BY <1>1 DEF Workers, Before, RunEnd
<1>4. Len(joined) = 0
  <2>1. Before(joining) \in Nat
    BY <1>1, BeforeOfNext DEF IInv, SharingTypeOK
  <2> QED
    BY <1>2, <2>1 DEF IInv, JoinedIsABeginning, Smaller
<1> QED
  BY <1>1, <1>2, <1>3, <1>4
     DEF IInv, SharingTypeOK, Calls, WorkIsShared, OutIsARun, JoinedIsABeginning, CallerKnows

\* Once all have ended, the panic leaves the call.
LEMMA UnwindKeeps == ASSUME IInv, Unwind PROVE IInv'
<1>1. /\ call = "unwinding" /\ call' = "panicked" /\ AllEnded
      /\ UNCHANGED <<items, fatal, perThread, out, ended, joining, joined>>
  BY DEF Unwind
<1>2. Workers' = Workers /\ \A v : Before(v)' = Before(v) /\ RunEnd(v)' = RunEnd(v)
  BY <1>1 DEF Workers, Before, RunEnd
<1> QED
  BY <1>1, <1>2 DEF IInv, SharingTypeOK, Calls, WorkIsShared, OutIsARun,
     JoinedIsABeginning, CallerKnows, AllEnded

LEMMA TakeKeeps == ASSUME IInv, TakeResults PROVE IInv'
<1>1. /\ call' = "idle" /\ items' = <<>> /\ fatal' = {} /\ perThread' = 0
      /\ out' = <<>> /\ ended' = <<>> /\ joining' = 1 /\ joined' = <<>>
  BY DEF TakeResults
<1>2. SharingInit'
  BY <1>1 DEF SharingInit
<1> QED
  BY <1>2, InitIsFine, PTL

LEMMA NextKeeps == IInv /\ [SharingNext]_sharingVars => IInv'
<1> SUFFICES ASSUME IInv, [SharingNext]_sharingVars PROVE IInv'
  OBVIOUS
<1>1. CASE \E s \in Seq(Item), f \in SUBSET Item : MapInOrder(s, f)
  BY <1>1, CallKeeps
<1>2. CASE NothingToMap
  BY <1>2, NothingKeeps
<1>3. CASE \E w \in DOMAIN items : Map(w)
  BY <1>3, MapKeeps
<1>4. CASE Join
  BY <1>4, JoinKeeps
<1>5. CASE Unwind
  BY <1>5, UnwindKeeps
<1>6. CASE TakeResults
  BY <1>6, TakeKeeps
<1>7. CASE UNCHANGED sharingVars
  BY <1>7 DEF sharingVars, IInv, SharingTypeOK, WorkIsShared, OutIsARun, JoinedIsABeginning,
     CallerKnows, Workers, Before, RunEnd
<1> QED
  BY <1>1, <1>2, <1>3, <1>4, <1>5, <1>6, <1>7 DEF SharingNext, Sharing

LEMMA SharingIsFine == SharingSpec => []IInv
BY InitIsFine, NextKeeps, PTL DEF SharingSpec

-----------------------------------------------------------------------------
(* What follows of map_in_order.                                           *)

\* Every variable of map_in_order keeps to its values.
THEOREM SharingTypeCorrect == SharingSpec => []SharingTypeOK
<1>1. IInv => SharingTypeOK
  BY DEF IInv
<1> QED
  BY <1>1, SharingIsFine, PTL

\* What is returned is what went in, mapped, in order and whole.
LEMMA ReturnedIsWhole == IInv => ResultsInOrder
<1> SUFFICES ASSUME IInv, call = "returned" PROVE joined = items
  BY DEF ResultsInOrder
<1>1. joined \in Seq(Item) /\ items \in Seq(Item) /\ Len(joined) = Len(items)
  BY DEF IInv, SharingTypeOK, CallerKnows
<1>2. \A k \in 1..Len(joined) : joined[k] = items[k]
  BY DEF IInv, JoinedIsABeginning
<1> QED
  BY <1>1, <1>2, SeqEqual

\* Results are in the order of the items however many threads share them and
\* in whatever order those end (map_in_order).
THEOREM OrderIsKept == SharingSpec => []ResultsInOrder
BY ReturnedIsWhole, SharingIsFine, PTL

LEMMA PanicIsNotLost == IInv => PanicIsPassedOn
<1> SUFFICES ASSUME IInv PROVE PanicIsPassedOn
  OBVIOUS
<1>1. ASSUME call = "returned", NEW i \in DOMAIN items PROVE items[i] \notin fatal
  <2>1. Len(joined) = Len(items) /\ DOMAIN items = 1..Len(items)
    BY <1>1 DEF IInv, CallerKnows, SharingTypeOK
  <2> QED
    BY <2>1 DEF IInv, JoinedIsABeginning
<1>2. ASSUME call = "panicked" PROVE \E i \in DOMAIN items : items[i] \in fatal
  BY <1>2 DEF IInv, CallerKnows, OutIsARun
<1> QED
  BY <1>1, <1>2 DEF PanicIsPassedOn

\* A call returns only where no item panics, and panics only where one does:
\* a thread that panicked is not taken for one that made nothing.
THEOREM PanicGetsThrough == SharingSpec => []PanicIsPassedOn
BY PanicIsNotLost, SharingIsFine, PTL

\* Threads borrow from the caller, and none is left when the call is over,
\* not even after a panic (std::thread::scope in map_in_order).
THEOREM NobodyIsLeft == SharingSpec => []NobodyOutlivesTheCall
<1>1. IInv => NobodyOutlivesTheCall
  BY DEF IInv, CallerKnows, NobodyOutlivesTheCall
<1> QED
  BY <1>1, SharingIsFine, PTL

LEMMA ThreadsAreFew == IInv => NoMoreThreadsThanReported
<1> SUFFICES ASSUME IInv PROVE NoMoreThreadsThanReported
  OBVIOUS
<1> SUFFICES ASSUME NEW w \in Workers, w > Parallelism PROVE FALSE
  <2>1. ASSUME NEW w \in Workers PROVE w \in Nat
    BY WorkerFacts DEF IInv
  <2> QED
    BY <2>1, ParallelismAssumption DEF NoMoreThreadsThanReported
<1>1. /\ w \in Nat \ {0} /\ perThread \in Nat \ {0}
      /\ Before(w) < Len(items) /\ Before(w) \in Nat /\ Len(items) \in Nat
  BY WorkerFacts DEF IInv
<1>2. Parallelism * perThread <= Before(w)
  BY <1>1, ParallelismAssumption, RunsDoNotOverlap DEF Before
<1>3. Parallelism * perThread \in Nat
  BY <1>1, ParallelismAssumption, ProductsGrow
<1> QED
  BY <1>1, <1>2, <1>3 DEF IInv, WorkIsShared

\* However the rounding falls, no call has more threads than are reported.
THEOREM NoThreadTooMany == SharingSpec => []NoMoreThreadsThanReported
BY ThreadsAreFew, SharingIsFine, PTL

-----------------------------------------------------------------------------
(* To its caller, map_in_order is a plain loop.                            *)

\* The step of the plain loop, if any, that a step of sharing is.
LEMMA StepIsALoops ==
  IInv /\ IInv' /\ [SharingNext]_sharingVars => [Loop!Next]_(Loop!vars)
<1> DEFINE result == IF call = "returned" THEN joined ELSE <<>>
<1> SUFFICES ASSUME IInv, IInv', [SharingNext]_sharingVars
             PROVE  [Loop!Next]_(Loop!vars)
  OBVIOUS
<1>1. CASE \E s \in Seq(Item), f \in SUBSET Item : MapInOrder(s, f)
  <2>1. PICK s \in Seq(Item), f \in SUBSET Item : MapInOrder(s, f)
    BY <1>1
  <2>2. Loop!Call
    BY <2>1 DEF MapInOrder, Loop!Call, phase
  <2> QED
    BY <2>2 DEF Loop!Next
<1>2. CASE NothingToMap
  <2>1. call = "mapping" /\ call' = "returned" /\ UNCHANGED <<items, fatal, joined>>
    BY <1>2 DEF NothingToMap
  <2>2. joined' = items' /\ \A i \in DOMAIN items' : items'[i] \notin fatal'
    <3>1. ResultsInOrder' /\ PanicIsPassedOn'
      BY ReturnedIsWhole, PanicIsNotLost, PTL
    <3> QED
      BY <2>1, <3>1 DEF ResultsInOrder, PanicIsPassedOn
  <2>3. Loop!Return
    BY <2>1, <2>2 DEF Loop!Return, Loop!AnyFatal, phase
  <2> QED
    BY <2>3 DEF Loop!Next
<1>3. CASE \E w \in DOMAIN items : Map(w)
  BY <1>3 DEF Map, Loop!vars, phase
<1>4. CASE Join
  <2>1. UNCHANGED <<items, fatal>> /\ call = "mapping"
        /\ call' \in {"unwinding", "mapping", "returned"}
    BY <1>4 DEF Join
  <2>2. CASE call' # "returned"
    BY <2>1, <2>2 DEF Loop!vars, phase
  <2>3. CASE call' = "returned"
    <3>1. joined' = items' /\ \A i \in DOMAIN items' : items'[i] \notin fatal'
      <4>1. ResultsInOrder' /\ PanicIsPassedOn'
        BY ReturnedIsWhole, PanicIsNotLost, PTL
      <4> QED
        BY <2>3, <4>1 DEF ResultsInOrder, PanicIsPassedOn
    <3>2. Loop!Return
      BY <2>1, <2>3, <3>1 DEF Loop!Return, Loop!AnyFatal, phase
    <3> QED
      BY <3>2 DEF Loop!Next
  <2> QED
    BY <2>2, <2>3
<1>5. CASE Unwind
  <2>1. UNCHANGED <<items, fatal>> /\ call = "unwinding" /\ call' = "panicked"
    BY <1>5 DEF Unwind
  <2>2. \E i \in DOMAIN items : items[i] \in fatal
    BY <2>1 DEF IInv, CallerKnows, OutIsARun
  <2>3. Loop!Panic
    BY <2>1, <2>2 DEF Loop!Panic, Loop!AnyFatal, phase
  <2> QED
    BY <2>3 DEF Loop!Next
<1>6. CASE TakeResults
  <2>1. Loop!Take
    BY <1>6 DEF TakeResults, Loop!Take, phase
  <2> QED
    BY <2>1 DEF Loop!Next
<1>7. CASE UNCHANGED sharingVars
  BY <1>7 DEF sharingVars, Loop!vars, phase
<1> QED
  BY <1>1, <1>2, <1>3, <1>4, <1>5, <1>6, <1>7 DEF SharingNext, Sharing

\* Threads, chunks, joins and panics implement a plain loop: the results of
\* the items in order, or a panic where one of them panics.
THEOREM SharingIsALoop == SharingSpec => LoopSpec
<1>1. SharingInit => Loop!Init
  BY DEF SharingInit, Loop!Init, phase
<1> QED
  BY <1>1, SharingIsFine, StepIsALoops, PTL DEF SharingSpec, LoopSpec, Loop!Spec

-----------------------------------------------------------------------------
(* Least counterexamples, and sequences laid end to end.                   *)

\* A set of naturals that is not empty has a least element.
LEMMA LeastNatural ==
  ASSUME NEW S, S \subseteq Nat, S # {}
  PROVE  \E n \in S : \A m \in S : n <= m
<1>1. \E x \in S : \A y \in S : ~(<<y, x>> \in OpToRel(<, Nat))
  BY NatLessThanWellFounded, WFMin
<1>2. PICK x \in S : \A y \in S : ~(<<y, x>> \in OpToRel(<, Nat))
  BY <1>1
<1>3. ASSUME NEW y \in S PROVE x <= y
  <2>1. ~(y < x)
    BY <1>2 DEF OpToRel
  <2> QED BY <2>1
<1> QED
  BY <1>3

\* What holds of a number where it holds of all smaller ones holds of all.
LEMMA Induction ==
  ASSUME NEW S, \A n \in Nat : (\A m \in 0..(n - 1) : m \in S) => n \in S
  PROVE  Nat \subseteq S
<1> SUFFICES ASSUME Nat \ S # {} PROVE FALSE
  OBVIOUS
<1>1. PICK n \in Nat \ S : \A m \in Nat \ S : n <= m
  BY LeastNatural
<1>2. \A m \in 0..(n - 1) : m \in S
  BY <1>1
<1> QED
  BY <1>1, <1>2

-----------------------------------------------------------------------------
(* Sequences one after the other.                                          *)

\* The recursion of FlattenSeq goes through: it appends the last sequence to
\* what it makes of the others.
FlattensTo(ss, g, n) ==
    g = [i \in 1..n |-> IF i = 1 THEN ss[i] ELSE g[i - 1] \o ss[i]]

LEMMA FlattensStep ==
  ASSUME NEW ss, NEW g, NEW n \in Nat, FlattensTo(ss, g, n), NEW i \in 1..n
  PROVE  g[i] = IF i = 1 THEN ss[i] ELSE g[i - 1] \o ss[i]
<1> DEFINE e(j) == IF j = 1 THEN ss[j] ELSE g[j - 1] \o ss[j]
<1>1. g = [j \in 1..n |-> e(j)]
  BY DEF FlattensTo
<1>2. g[i] = e(i)
  <2> HIDE DEF e
  <2> QED BY <1>1
<1> QED
  BY <1>2

LEMMA FlattenUnfolds ==
  ASSUME NEW S, NEW ss \in Seq(Seq(S)), ss # <<>>
  PROVE  \E g : FlattensTo(ss, g, Len(ss)) /\ FlattenSeq(ss) = g[Len(ss)]
<1> DEFINE N == {n \in Nat : n \in 1..Len(ss) => \E g : FlattensTo(ss, g, n)}
<1>1. ASSUME NEW n \in Nat, \A m \in 0..(n - 1) : m \in N PROVE n \in N
  <2> SUFFICES ASSUME n \in 1..Len(ss) PROVE \E g : FlattensTo(ss, g, n)
    OBVIOUS
  <2>1. CASE n = 1
    <3> DEFINE g == [i \in 1..1 |-> ss[i]]
    <3>1. FlattensTo(ss, g, 1)
      BY DEF FlattensTo
    <3> QED BY <2>1, <3>1
  <2>2. CASE n # 1
    <3>1. n - 1 \in N
      <4> HIDE DEF N
      <4> QED BY <1>1, <2>2
    <3>2. PICK g : FlattensTo(ss, g, n - 1)
      BY <2>2, <3>1
    <3> DEFINE h == [i \in 1..n |-> IF i = n THEN g[n - 1] \o ss[n] ELSE g[i]]
    <3>3. ASSUME NEW i \in 1..n PROVE h[i] = IF i = 1 THEN ss[i] ELSE h[i - 1] \o ss[i]
      <4>1. CASE i = n
        <5>1. n \in 1..n /\ n - 1 \in 1..n /\ n - 1 # n
          BY <2>2
        <5>2. h[n] = g[n - 1] \o ss[n] /\ h[n - 1] = g[n - 1]
          <6> HIDE DEF N
          <6> QED BY <5>1
        <5> HIDE DEF h
        <5> QED BY <2>2, <4>1, <5>2
      <4>2. CASE i # n
        <5>1. i \in 1..(n - 1) /\ n - 1 \in Nat
          BY <4>2
        <5>2. g[i] = IF i = 1 THEN ss[i] ELSE g[i - 1] \o ss[i]
          BY <3>2, <5>1, FlattensStep
        <5>3. h[i] = g[i] /\ (i # 1 => h[i - 1] = g[i - 1])
          BY <4>2, <5>1
        <5> HIDE DEF h
        <5> QED BY <5>2, <5>3
      <4> QED BY <4>1, <4>2
    <3>4. FlattensTo(ss, h, n)
      <4> DEFINE e(i) == IF i = 1 THEN ss[i] ELSE h[i - 1] \o ss[i]
      <4>1. \A i \in 1..n : h[i] = e(i)
        BY <3>3
      <4>2. h = [i \in 1..n |-> h[i]]
        OBVIOUS
      <4>3. h = [i \in 1..n |-> e(i)]
        <5> HIDE DEF e, h
        <5> QED BY <4>1, <4>2
      <4> QED BY <4>3 DEF FlattensTo
    <3> QED BY <3>4
  <2> QED BY <2>1, <2>2
<1>2. Nat \subseteq N
  <2> HIDE DEF N
  <2> QED BY <1>1, Induction
<1>3. Len(ss) \in Nat /\ Len(ss) # 0
  BY EmptySeq
<1>4. \E g : FlattensTo(ss, g, Len(ss))
  BY <1>2, <1>3
<1> DEFINE f == CHOOSE g : FlattensTo(ss, g, Len(ss))
<1>5. FlattensTo(ss, f, Len(ss))
  BY <1>4
<1>6. FlattenSeq(ss) = f[Len(ss)]
  BY <1>3 DEF FlattenSeq, FlattensTo
<1> QED
  BY <1>5, <1>6

AlikeTo(s, t, n) == \A i \in 1..n : s[i] = t[i]

LEMMA FlattensAlike ==
  ASSUME NEW ss, NEW tt, NEW g, NEW h, NEW n \in Nat, NEW m \in Nat, n <= m,
         FlattensTo(ss, g, n), FlattensTo(tt, h, m), AlikeTo(ss, tt, n)
  PROVE  AlikeTo(g, h, n)
<1> DEFINE N == {i \in Nat : i \in 1..n => g[i] = h[i]}
<1>1. ASSUME NEW i \in Nat, \A j \in 0..(i - 1) : j \in N PROVE i \in N
  <2> SUFFICES ASSUME i \in 1..n PROVE g[i] = h[i]
    OBVIOUS
  <2>1. /\ g[i] = IF i = 1 THEN ss[i] ELSE g[i - 1] \o ss[i]
        /\ h[i] = IF i = 1 THEN tt[i] ELSE h[i - 1] \o tt[i]
        /\ ss[i] = tt[i]
    <3>1. i \in 1..m /\ ss[i] = tt[i]
      BY DEF AlikeTo
    <3> HIDE DEF N
    <3> QED BY <3>1, FlattensStep
  <2>2. i = 1 \/ i - 1 \in N
    <3> HIDE DEF N
    <3> QED BY <1>1
  <2> QED BY <2>1, <2>2
<1>2. Nat \subseteq N
  <2> HIDE DEF N
  <2> QED BY <1>1, Induction
<1> QED
  BY <1>2 DEF AlikeTo

LEMMA FlattensTyped ==
  ASSUME NEW S, NEW ss \in Seq(Seq(S)), NEW g, FlattensTo(ss, g, Len(ss))
  PROVE  \A i \in 1..Len(ss) : g[i] \in Seq(S)
<1> DEFINE N == {i \in Nat : i \in 1..Len(ss) => g[i] \in Seq(S)}
<1>1. ASSUME NEW i \in Nat, \A j \in 0..(i - 1) : j \in N PROVE i \in N
  <2> SUFFICES ASSUME i \in 1..Len(ss) PROVE g[i] \in Seq(S)
    OBVIOUS
  <2>1. ss[i] \in Seq(S) /\ Len(ss) \in Nat
    <3> HIDE DEF N
    <3> QED BY ElementOfSeq
  <2>2. g[i] = IF i = 1 THEN ss[i] ELSE g[i - 1] \o ss[i]
    <3> HIDE DEF N
    <3> QED BY <2>1, FlattensStep
  <2>3. i = 1 \/ i - 1 \in N
    <3> HIDE DEF N
    <3> QED BY <1>1
  <2> QED BY <2>1, <2>2, <2>3
<1>2. Nat \subseteq N
  <2> HIDE DEF N
  <2> QED BY <1>1, Induction
<1> QED
  BY <1>2

LEMMA FlattenEmpty == FlattenSeq(<<>>) = <<>>
BY DEF FlattenSeq

LEMMA FlattenIsSeq ==
  ASSUME NEW S, NEW ss \in Seq(Seq(S))
  PROVE  FlattenSeq(ss) \in Seq(S)
<1>1. CASE ss = <<>>
  BY <1>1, FlattenEmpty, EmptySeq
<1>2. CASE ss # <<>>
  <2>1. PICK g : FlattensTo(ss, g, Len(ss)) /\ FlattenSeq(ss) = g[Len(ss)]
    BY <1>2, FlattenUnfolds
  <2>2. Len(ss) \in Nat /\ Len(ss) # 0
    BY <1>2, EmptySeq
  <2>3. \A i \in 1..Len(ss) : g[i] \in Seq(S)
    BY <2>1, <2>2, FlattensTyped
  <2> QED BY <2>1, <2>2, <2>3
<1> QED
  BY <1>1, <1>2

LEMMA FlattenAppend ==
  ASSUME NEW S, NEW ss \in Seq(Seq(S)), NEW s \in Seq(S)
  PROVE  FlattenSeq(Append(ss, s)) = FlattenSeq(ss) \o s
<1> DEFINE tt == Append(ss, s)
<1>1. /\ tt \in Seq(Seq(S)) /\ tt # <<>> /\ Len(tt) = Len(ss) + 1 /\ Len(ss) \in Nat
      /\ \A i \in 1..Len(ss) : tt[i] = ss[i]
      /\ tt[Len(ss) + 1] = s
  BY AppendProperties
<1> HIDE DEF tt
<1>2. PICK h : FlattensTo(tt, h, Len(tt)) /\ FlattenSeq(tt) = h[Len(tt)]
  BY <1>1, FlattenUnfolds
<1>3. h[Len(tt)] = IF Len(tt) = 1 THEN s ELSE h[Len(ss)] \o s
  <2>1. Len(tt) \in Nat /\ Len(tt) \in 1..Len(tt)
    BY <1>1
  <2>2. h[Len(tt)] = IF Len(tt) = 1 THEN tt[Len(tt)] ELSE h[Len(tt) - 1] \o tt[Len(tt)]
    BY <1>2, <2>1, FlattensStep
  <2>3. Len(tt) - 1 = Len(ss)
    BY <1>1
  <2> QED BY <1>1, <2>2, <2>3
<1>4. CASE ss = <<>>
  <2>1. Len(tt) = 1 /\ FlattenSeq(ss) = <<>>
    BY <1>1, <1>4, FlattenEmpty
  <2>2. <<>> \o s = s
    BY ConcatEmptySeq
  <2> QED BY <1>2, <1>3, <2>1, <2>2 DEF tt
<1>5. CASE ss # <<>>
  <2>1. PICK g : FlattensTo(ss, g, Len(ss)) /\ FlattenSeq(ss) = g[Len(ss)]
    BY <1>5, FlattenUnfolds
  <2>2. Len(ss) # 0
    BY <1>5, EmptySeq
  <2>3. g[Len(ss)] = h[Len(ss)]
    <3>1. Len(ss) <= Len(tt) /\ Len(tt) \in Nat
      BY <1>1
    <3>2. Len(ss) <= Len(ss) /\ \A i \in 1..Len(ss) : ss[i] = tt[i]
      BY <1>1
    <3>3. \A i \in 1..Len(ss) : g[i] = h[i]
      <4> DEFINE n == Len(ss)
                 m == Len(tt)
      <4>1. FlattensTo(ss, g, n) /\ FlattensTo(tt, h, m) /\ n \in Nat /\ m \in Nat /\ n <= m
        BY <1>1, <1>2, <2>1, <3>1
      <4>2. AlikeTo(ss, tt, n)
        BY <3>2 DEF AlikeTo
      <4> HIDE DEF n, m
      <4>3. AlikeTo(g, h, n)
        BY <4>1, <4>2, FlattensAlike
      <4> QED BY <4>3 DEF n, AlikeTo
    <3> QED BY <1>1, <2>2, <3>3
  <2> QED BY <1>1, <1>2, <1>3, <2>1, <2>2, <2>3 DEF tt
<1> QED
  BY <1>4, <1>5

-----------------------------------------------------------------------------
(* Recursive functions of write_scene: what they are, one place at a time. *)

\* The sequences without a kind, and the triangles of a chunk, in terms of the
\* meshes they are of.
Kept(m, kind, s) ==
    LET kept[i \in 0..Len(s)] == IF i = 0 THEN <<>>
                                 ELSE IF m[s[i]] = kind THEN kept[i - 1]
                                 ELSE Append(kept[i - 1], s[i])
    IN  kept

Triangles(m, c) ==
    LET sum[i \in 0..Len(c)] == IF i = 0 THEN 0 ELSE sum[i - 1] + m[c[i][2]]
    IN  sum[Len(c)]

LEMMA InTermsOfMeshes ==
    /\ \A kind, s : Without(kind, s) = Kept(mesh, kind, s)
    /\ \A c : triangle_count(c) = Triangles(mesh, c)
BY DEF Without, Kept, triangle_count, Triangles

\* What is kept up to a place is what was kept before it, and it or not.
LEMMA KeptUnfolds ==
  ASSUME NEW m, NEW kind, NEW s, Len(s) \in Nat
  PROVE  /\ Kept(m, kind, s)[0] = <<>>
         /\ \A i \in 1..Len(s) :
              Kept(m, kind, s)[i] = IF m[s[i]] = kind THEN Kept(m, kind, s)[i - 1]
                                    ELSE Append(Kept(m, kind, s)[i - 1], s[i])
<1> DEFINE Keeps(g, k) ==
             g = [i \in 0..k |-> IF i = 0 THEN <<>>
                                 ELSE IF m[s[i]] = kind THEN g[i - 1]
                                 ELSE Append(g[i - 1], s[i])]
           N == {k \in Nat : \E g : Keeps(g, k)}
<1>1. ASSUME NEW k \in Nat, \A j \in 0..(k - 1) : j \in N PROVE k \in N
  <2>1. CASE k = 0
    <3> DEFINE g == [i \in 0..0 |-> <<>>]
    <3>1. Keeps(g, 0)
      OBVIOUS
    <3> QED BY <2>1, <3>1
  <2>2. CASE k # 0
    <3>1. k - 1 \in N
      <4> HIDE DEF N
      <4> QED BY <1>1, <2>2
    <3>2. PICK g : Keeps(g, k - 1)
      <4> HIDE DEF Keeps
      <4> QED BY <3>1
    <3> DEFINE x == IF m[s[k]] = kind THEN g[k - 1] ELSE Append(g[k - 1], s[k])
               h == [i \in 0..k |-> IF i = k THEN x ELSE g[i]]
    <3>3. Keeps(h, k)
      <4>1. \A i \in 0..k : h[i] = IF i = 0 THEN <<>>
                                   ELSE IF m[s[i]] = kind THEN h[i - 1]
                                   ELSE Append(h[i - 1], s[i])
        <5> SUFFICES ASSUME NEW i \in 0..k
                     PROVE  h[i] = IF i = 0 THEN <<>>
                                   ELSE IF m[s[i]] = kind THEN h[i - 1]
                                   ELSE Append(h[i - 1], s[i])
          OBVIOUS
        <5>1. CASE i = k
          <6>1. h[i] = x /\ h[i - 1] = g[i - 1]
            BY <2>2, <5>1
          <6> QED BY <2>2, <5>1, <6>1
        <5>2. CASE i # k
          <6>1. i \in 0..(k - 1) /\ h[i] = g[i] /\ (i # 0 => h[i - 1] = g[i - 1])
            BY <5>2
          <6>2. g[i] = IF i = 0 THEN <<>>
                       ELSE IF m[s[i]] = kind THEN g[i - 1]
                       ELSE Append(g[i - 1], s[i])
            BY <3>2, <6>1
          <6> HIDE DEF h
          <6> QED BY <6>1, <6>2
        <5> QED BY <5>1, <5>2
      <4> QED BY <4>1
    <3> QED BY <3>3
  <2> QED BY <2>1, <2>2
<1>2. Nat \subseteq N
  <2> HIDE DEF N
  <2> QED BY <1>1, Induction
<1>3. \E g : Keeps(g, Len(s))
  BY <1>2
<1>4. Keeps(Kept(m, kind, s), Len(s))
  BY <1>3 DEF Kept
<1> DEFINE w == Kept(m, kind, s)
<1>5. /\ w[0] = <<>>
      /\ \A i \in 1..Len(s) :
           w[i] = IF m[s[i]] = kind THEN w[i - 1] ELSE Append(w[i - 1], s[i])
  <2>1. Keeps(w, Len(s))
    BY <1>4
  <2> HIDE DEF w
  <2>2. \A i \in 0..Len(s) : w[i] = IF i = 0 THEN <<>>
                                  ELSE IF m[s[i]] = kind THEN w[i - 1]
                                  ELSE Append(w[i - 1], s[i])
    BY <2>1
  <2> HIDE DEF Keeps
  <2> QED BY <2>2
<1> QED
  BY <1>5

\* What is kept are elements of the sequence, and no more than there are.
LEMMA KeptIsSeq ==
  ASSUME NEW m, NEW kind, NEW S, NEW s \in Seq(S), NEW i \in 0..Len(s)
  PROVE  Kept(m, kind, s)[i] \in Seq(S) /\ Len(Kept(m, kind, s)[i]) <= i
<1> DEFINE f == Kept(m, kind, s)
           N == {k \in Nat : k <= Len(s) => f[k] \in Seq(S) /\ Len(f[k]) <= k}
<1>0. Len(s) \in Nat /\ (\A j \in 1..Len(s) : s[j] \in S)
  BY LenProperties, ElementOfSeq
<1>1. ASSUME NEW k \in Nat, \A j \in 0..(k - 1) : j \in N PROVE k \in N
  <2> SUFFICES ASSUME k <= Len(s) PROVE f[k] \in Seq(S) /\ Len(f[k]) <= k
    OBVIOUS
  <2>1. CASE k = 0
    <3>1. f[0] = <<>>
      BY <1>0, KeptUnfolds
    <3> HIDE DEF f
    <3> QED BY <2>1, <3>1, EmptySeq
  <2>2. CASE k # 0
    <3>1. k \in 1..Len(s) /\ k - 1 \in 0..(k - 1)
      BY <1>0, <2>2
    <3>2. f[k - 1] \in Seq(S) /\ Len(f[k - 1]) <= k - 1
      <4>1. k - 1 \in N
        <5> HIDE DEF N
        <5> QED BY <1>1, <3>1
      <4> HIDE DEF f
      <4> QED BY <1>0, <3>1, <4>1
    <3>3. f[k] = f[k - 1] \/ f[k] = Append(f[k - 1], s[k])
      <4>1. \A j \in 1..Len(s) :
              f[j] = IF m[s[j]] = kind THEN f[j - 1] ELSE Append(f[j - 1], s[j])
        BY <1>0, KeptUnfolds
      <4> HIDE DEF f
      <4>2. f[k] = IF m[s[k]] = kind THEN f[k - 1] ELSE Append(f[k - 1], s[k])
        BY <3>1, <4>1
      <4> QED BY <4>2
    <3> DEFINE t == f[k - 1]
    <3>4. t \in Seq(S) /\ Len(t) <= k - 1 /\ s[k] \in S /\ (f[k] = t \/ f[k] = Append(t, s[k]))
      BY <1>0, <3>1, <3>2, <3>3
    <3> HIDE DEF f, t
    <3>5. Append(t, s[k]) \in Seq(S) /\ Len(Append(t, s[k])) = Len(t) + 1 /\ Len(t) \in Nat
      BY <3>4, AppendProperties, LenProperties
    <3> DEFINE u == Append(t, s[k])
    <3>6. Len(u) <= k /\ u \in Seq(S) /\ Len(t) <= k
      BY <3>1, <3>4, <3>5
    <3> HIDE DEF u
    <3> QED BY <3>4, <3>6 DEF u
  <2> QED BY <2>1, <2>2
<1>2. Nat \subseteq N
  <2> HIDE DEF N
  <2> QED BY <1>1, Induction
<1> QED
  BY <1>0, <1>2

\* An empty chunk has no triangles, any other has a number of them.
LEMMA CountsAre ==
  ASSUME NEW m, NEW S, \A p \in S : m[p[2]] \in Int
  PROVE  /\ Triangles(m, <<>>) = 0
         /\ \A c \in Seq(S) : Triangles(m, c) \in Int
<1>1. ASSUME NEW c \in Seq(S)
      PROVE  Triangles(m, c) \in Int /\ (Len(c) = 0 => Triangles(m, c) = 0)
  <2> DEFINE Sums(g, k) == g = [i \in 0..k |-> IF i = 0 THEN 0 ELSE g[i - 1] + m[c[i][2]]]
             N == {k \in Nat : k <= Len(c) => \E g : Sums(g, k) /\ g[k] \in Int}
  <2>0. Len(c) \in Nat /\ (\A j \in 1..Len(c) : m[c[j][2]] \in Int)
    BY LenProperties, ElementOfSeq
  <2>1. ASSUME NEW k \in Nat, \A j \in 0..(k - 1) : j \in N PROVE k \in N
    <3> SUFFICES ASSUME k <= Len(c) PROVE \E g : Sums(g, k) /\ g[k] \in Int
      OBVIOUS
    <3>1. CASE k = 0
      <4> DEFINE g == [i \in 0..0 |-> 0]
      <4>1. Sums(g, 0) /\ g[0] \in Int
        OBVIOUS
      <4> QED BY <3>1, <4>1
    <3>2. CASE k # 0
      <4>1. k - 1 \in N /\ k - 1 <= Len(c)
        <5> HIDE DEF N
        <5> QED BY <2>0, <2>1, <3>2
      <4>2. PICK g : Sums(g, k - 1) /\ g[k - 1] \in Int
        <5> HIDE DEF Sums
        <5> QED BY <4>1
      <4> DEFINE x == g[k - 1] + m[c[k][2]]
                 h == [i \in 0..k |-> IF i = k THEN x ELSE g[i]]
      <4>3. Sums(h, k)
        <5>1. \A i \in 0..k : h[i] = IF i = 0 THEN 0 ELSE h[i - 1] + m[c[i][2]]
          <6> SUFFICES ASSUME NEW i \in 0..k
                       PROVE  h[i] = IF i = 0 THEN 0 ELSE h[i - 1] + m[c[i][2]]
            OBVIOUS
          <6>1. CASE i = k
            <7>1. h[i] = x /\ h[i - 1] = g[i - 1]
              BY <3>2, <6>1
            <7> QED BY <3>2, <6>1, <7>1
          <6>2. CASE i # k
            <7>1. i \in 0..(k - 1) /\ h[i] = g[i] /\ (i # 0 => h[i - 1] = g[i - 1])
              BY <6>2
            <7>2. g[i] = IF i = 0 THEN 0 ELSE g[i - 1] + m[c[i][2]]
              BY <4>2, <7>1
            <7> HIDE DEF h
            <7> QED BY <7>1, <7>2
          <6> QED BY <6>1, <6>2
        <5> QED BY <5>1
      <4>4. h[k] \in Int
        <5>1. k \in 1..Len(c)
          BY <2>0, <3>2
        <5>2. m[c[k][2]] \in Int
          BY <2>0, <5>1
        <5> QED BY <4>2, <5>2
      <4> HIDE DEF h
      <4> QED BY <4>3, <4>4
    <3> QED BY <3>1, <3>2
  <2>2. Nat \subseteq N
    <3> HIDE DEF N
    <3> QED BY <2>1, Induction
  <2>3. PICK g : Sums(g, Len(c)) /\ g[Len(c)] \in Int
    BY <2>0, <2>2
  <2> DEFINE sum == CHOOSE f : Sums(f, Len(c))
  <2>4. Sums(sum, Len(c))
    BY <2>3
  <2>5. Triangles(m, c) = sum[Len(c)]
    BY DEF Triangles
  <2>6. \A f : Sums(f, Len(c)) => f = g
    <3> SUFFICES ASSUME NEW f, Sums(f, Len(c)) PROVE f = g
      OBVIOUS
    <3> DEFINE M == {k \in Nat : k <= Len(c) => f[k] = g[k]}
    <3>1. ASSUME NEW k \in Nat, \A j \in 0..(k - 1) : j \in M PROVE k \in M
      <4> SUFFICES ASSUME k <= Len(c) PROVE f[k] = g[k]
        OBVIOUS
      <4>1. k \in 0..Len(c)
        BY <2>0
      <4>2. f[k] = IF k = 0 THEN 0 ELSE f[k - 1] + m[c[k][2]]
        BY <4>1
      <4>3. g[k] = IF k = 0 THEN 0 ELSE g[k - 1] + m[c[k][2]]
        BY <2>3, <4>1
      <4>4. k # 0 => f[k - 1] = g[k - 1]
        <5>1. k # 0 => k - 1 \in M /\ k - 1 <= Len(c)
          <6> HIDE DEF M
          <6> QED BY <2>0, <3>1
        <5> HIDE DEF Sums
        <5> QED BY <5>1
      <4> QED BY <4>2, <4>3, <4>4
    <3>2. Nat \subseteq M
      <4> HIDE DEF M
      <4> QED BY <3>1, Induction
    <3>3. \A k \in 0..Len(c) : f[k] = g[k]
      <4> SUFFICES ASSUME NEW k \in 0..Len(c) PROVE f[k] = g[k]
        OBVIOUS
      <4>1. k \in Nat /\ k <= Len(c)
        BY <2>0
      <4>2. k \in M
        <5> HIDE DEF M
        <5> QED BY <3>2, <4>1
      <4> HIDE DEF Sums
      <4> QED BY <4>1, <4>2
    <3>4. f = [i \in 0..Len(c) |-> f[i]] /\ g = [i \in 0..Len(c) |-> g[i]]
      BY <2>3
    <3> HIDE DEF Sums
    <3> QED BY <3>3, <3>4
  <2>7. sum = g
    <3> HIDE DEF sum, Sums
    <3> QED BY <2>4, <2>6
  <2>8. Len(c) = 0 => g[Len(c)] = 0
    BY <2>3
  <2> HIDE DEF sum
  <2> QED BY <2>3, <2>5, <2>7, <2>8
<1> QED
  BY <1>1, EmptySeq

-----------------------------------------------------------------------------
(* Sequences made of another's elements, one by one.                       *)

\* What a sequence is after its last element was added.
LEMMA Appended1 ==
  ASSUME NEW T, NEW s \in Seq(T), NEW x \in T
  PROVE  /\ Append(s, x) \in Seq(T)
         /\ Len(s) \in Nat /\ Len(Append(s, x)) = Len(s) + 1
         /\ DOMAIN s = 1..Len(s) /\ DOMAIN Append(s, x) = 1..(Len(s) + 1)
         /\ \A i \in 1..Len(s) : Append(s, x)[i] = s[i]
         /\ Append(s, x)[Len(s) + 1] = x
<1>1. /\ Append(s, x) \in Seq(T) /\ Len(Append(s, x)) = Len(s) + 1
      /\ (\A i \in 1..Len(s) : Append(s, x)[i] = s[i]) /\ Append(s, x)[Len(s) + 1] = x
  BY AppendProperties
<1>2. Len(s) \in Nat /\ DOMAIN s = 1..Len(s)
  BY LenProperties
<1> DEFINE t == Append(s, x)
<1>3. DOMAIN t = 1..Len(t)
  BY <1>1, LenProperties
<1> HIDE DEF t
<1>4. DOMAIN t = 1..(Len(s) + 1)
  BY <1>1, <1>3 DEF t
<1> QED
  BY <1>1, <1>2, <1>4 DEF t

\* Sequences with the same elements are the same.
LEMMA SameElements ==
  ASSUME NEW T, NEW s \in Seq(T), NEW g, NEW n \in Nat, Len(s) = n,
         g = [i \in 1..n |-> g[i]], \A i \in 1..n : g[i] = s[i]
  PROVE  g = s
<1>1. s = [i \in 1..n |-> s[i]]
  OBVIOUS
<1> QED
  BY <1>1

Doubled(s) == [i \in DOMAIN s |-> <<s[i], s[i]>>]
HoldsOf(s) == [i \in DOMAIN s |-> s[i].holds]
Firsts(s) == {s[i][1] : i \in DOMAIN s}

\* Each element twice, one more when one is added.
LEMMA DoubledIs ==
  ASSUME NEW T, NEW s \in Seq(T)
  PROVE  /\ Doubled(s) \in Seq(T \X T) /\ Len(Doubled(s)) = Len(s)
         /\ \A x \in T : Doubled(Append(s, x)) = Append(Doubled(s), <<x, x>>)
<1>1. Len(s) \in Nat /\ DOMAIN s = 1..Len(s) /\ \A i \in 1..Len(s) : s[i] \in T
  BY LenProperties, ElementOfSeq
<1>2. Doubled(s) = [i \in 1..Len(s) |-> <<s[i], s[i]>>]
  BY <1>1 DEF Doubled
<1>3. Doubled(s) \in Seq(T \X T) /\ Len(Doubled(s)) = Len(s)
  <2>1. \A i \in 1..Len(s) : <<s[i], s[i]>> \in T \X T
    BY <1>1
  <2> QED BY <1>1, <1>2, <2>1
<1>4. ASSUME NEW x \in T PROVE Doubled(Append(s, x)) = Append(Doubled(s), <<x, x>>)
  <2> DEFINE t == Append(s, x)
             d == Doubled(s)
             y == <<x, x>>
             n == Len(s) + 1
  <2>1. /\ DOMAIN t = 1..n /\ (\A i \in 1..Len(s) : t[i] = s[i]) /\ t[n] = x /\ n \in Nat
    BY <1>1, Appended1
  <2>2. /\ Append(d, y) \in Seq(T \X T) /\ Len(Append(d, y)) = n
        /\ (\A i \in 1..Len(s) : Append(d, y)[i] = d[i]) /\ Append(d, y)[n] = y
    <3>1. y \in T \X T /\ d \in Seq(T \X T) /\ Len(d) = Len(s)
      BY <1>3
    <3> HIDE DEF d, y
    <3> QED BY <3>1, Appended1
  <2>3. \A i \in 1..Len(s) : d[i] = <<s[i], s[i]>>
    BY <1>2
  <2> DEFINE g == Doubled(t)
  <2>4. g = [i \in 1..n |-> <<t[i], t[i]>>]
    BY <2>1 DEF Doubled
  <2> HIDE DEF t, d, g, y
  <2>5. \A i \in 1..n : g[i] = Append(d, y)[i]
    <3> SUFFICES ASSUME NEW i \in 1..n PROVE g[i] = Append(d, y)[i]
      OBVIOUS
    <3>0. i \in 1..Len(s) \/ i = n
      BY <1>1
    <3>1. g[i] = <<t[i], t[i]>>
      BY <2>4
    <3>2. CASE i \in 1..Len(s)
      BY <2>1, <2>2, <2>3, <3>1, <3>2
    <3>3. CASE i = n
      BY <2>1, <2>2, <3>1, <3>3 DEF y
    <3> QED BY <3>0, <3>2, <3>3
  <2>6. g = [i \in 1..n |-> g[i]]
    BY <2>4
  <2> HIDE DEF n
  <2>7. g = Append(d, y)
    BY <2>1, <2>2, <2>5, <2>6, SameElements
  <2> QED BY <2>7 DEF g, t, d, y
<1> QED
  BY <1>3, <1>4

\* What the records of a sequence hold, one for one.
LEMMA HoldsAre ==
  ASSUME NEW T, NEW U, \A u \in U : u.holds \in T, NEW s \in Seq(U)
  PROVE  /\ HoldsOf(s) \in Seq(T) /\ Len(HoldsOf(s)) = Len(s)
         /\ \A i \in 1..Len(s) : HoldsOf(s)[i] = s[i].holds
<1>1. Len(s) \in Nat /\ DOMAIN s = 1..Len(s) /\ \A i \in 1..Len(s) : s[i] \in U
  BY LenProperties, ElementOfSeq
<1>2. HoldsOf(s) = [i \in 1..Len(s) |-> s[i].holds]
  BY <1>1 DEF HoldsOf
<1>3. HoldsOf(s) \in Seq(T) /\ Len(HoldsOf(s)) = Len(s)
  <2>1. \A i \in 1..Len(s) : s[i].holds \in T
    BY <1>1
  <2> QED BY <1>1, <1>2, <2>1
<1> QED
  BY <1>2, <1>3

LEMMA HoldsAppend ==
  ASSUME NEW U, NEW s \in Seq(U), NEW x \in U
  PROVE  HoldsOf(Append(s, x)) = Append(HoldsOf(s), x.holds)
<1> DEFINE T == {u.holds : u \in U}
<1>1. Len(s) \in Nat /\ DOMAIN s = 1..Len(s) /\ \A i \in 1..Len(s) : s[i] \in U
  BY LenProperties, ElementOfSeq
<1>2. (\A u \in U : u.holds \in T) /\ x.holds \in T
  OBVIOUS
<1> HIDE DEF T
<1>3. /\ HoldsOf(s) \in Seq(T) /\ Len(HoldsOf(s)) = Len(s)
      /\ \A i \in 1..Len(s) : HoldsOf(s)[i] = s[i].holds
  BY <1>2, HoldsAre, ZenonT(60)
<1> DEFINE t == Append(s, x)
           d == HoldsOf(s)
           y == x.holds
           n == Len(s) + 1
<1>4. /\ DOMAIN t = 1..n /\ (\A i \in 1..Len(s) : t[i] = s[i]) /\ t[n] = x /\ n \in Nat
  BY <1>1, Appended1
<1>5. /\ Append(d, y) \in Seq(T) /\ Len(Append(d, y)) = n
      /\ (\A i \in 1..Len(s) : Append(d, y)[i] = d[i]) /\ Append(d, y)[n] = y
  <2>1. y \in T /\ d \in Seq(T) /\ Len(d) = Len(s)
    BY <1>3, <1>2
  <2> HIDE DEF d, y
  <2> QED BY <2>1, Appended1
<1>6. \A i \in 1..Len(s) : d[i] = s[i].holds
  BY <1>3
<1> DEFINE g == HoldsOf(t)
<1>7. g = [i \in 1..n |-> t[i].holds]
  BY <1>4 DEF HoldsOf
<1> HIDE DEF t, d, g, y
<1>8. \A i \in 1..n : g[i] = Append(d, y)[i]
  <2> SUFFICES ASSUME NEW i \in 1..n PROVE g[i] = Append(d, y)[i]
    OBVIOUS
  <2>0. i \in 1..Len(s) \/ i = n
    BY <1>1
  <2>1. g[i] = t[i].holds
    BY <1>7
  <2>2. CASE i \in 1..Len(s)
    BY <1>4, <1>5, <1>6, <2>1, <2>2
  <2>3. CASE i = n
    BY <1>4, <1>5, <2>1, <2>3 DEF y
  <2> QED BY <2>0, <2>2, <2>3
<1>9. g = [i \in 1..n |-> g[i]]
  BY <1>7
<1> HIDE DEF n
<1>10. g = Append(d, y)
  BY <1>4, <1>5, <1>8, <1>9, SameElements
<1> QED BY <1>10 DEF g, t, d, y

LEMMA FirstsGrow ==
  ASSUME NEW T, NEW s \in Seq(T), NEW x \in T
  PROVE  Firsts(Append(s, x)) = Firsts(s) \union {x[1]}
<1> DEFINE t == Append(s, x)
           n == Len(s) + 1
<1>1. DOMAIN s = 1..Len(s) /\ DOMAIN t = 1..n /\ (\A i \in 1..Len(s) : t[i] = s[i]) /\ t[n] = x
      /\ Len(s) \in Nat
  BY Appended1
<1>2. 1..n = (1..Len(s)) \union {n}
  BY <1>1
<1> HIDE DEF t, n
<1>3. Firsts(t) = Firsts(s) \union {x[1]}
  BY <1>1, <1>2 DEF Firsts
<1> QED
  BY <1>3 DEF t

\* All but the last.
LEMMA FrontOfAppend ==
  ASSUME NEW T, NEW s \in Seq(T), NEW x \in T
  PROVE  Front(Append(s, x)) = s
<1> DEFINE t == Append(s, x)
<1>1. t \in Seq(T) /\ Len(s) \in Nat /\ Len(t) = Len(s) + 1 /\ (\A i \in 1..Len(s) : t[i] = s[i])
  BY Appended1
<1>2. Front(t) = SubSeq(t, 1, Len(t) - 1)
  BY DEF Front
<1> HIDE DEF t
<1>3. Len(t) - 1 = Len(s)
  BY <1>1
<1>4. Front(t) = [i \in 1..Len(s) |-> t[i]]
  BY <1>1, <1>2, <1>3
<1>5. Front(t) = s
  BY <1>1, <1>4
<1> QED
  BY <1>5 DEF t

\* What is left of a sequence loses its first to what was taken of it.
LEMMA OneOver ==
  ASSUME NEW T, NEW h \in Seq(T), NEW c \in Seq(T), NEW k \in 0..(Len(c) - 1)
  PROVE  h \o SubSeq(c, k + 1, Len(c)) = Append(h, c[k + 1]) \o SubSeq(c, k + 2, Len(c))
<1> DEFINE n == Len(c)
           x == c[k + 1]
           r == SubSeq(c, k + 2, n)
           q == SubSeq(c, k + 1, n)
<1>1. n \in Nat /\ k + 1 \in 1..n /\ x \in T
  BY LenProperties, ElementOfSeq
<1>2. r \in Seq(T) /\ q \in Seq(T)
  BY <1>1
<1>3. q = <<x>> \o r
  <2>1. q = [i \in 1..(n - k) |-> c[k + i]]
    BY <1>1
  <2>2. r = [i \in 1..(n - k - 1) |-> c[k + 1 + i]] /\ Len(r) = n - k - 1
    BY <1>1
  <2>3. <<x>> \in Seq(T) /\ Len(<<x>>) = 1 /\ <<x>>[1] = x
    BY <1>1
  <2> DEFINE u == <<x>>
             v == u \o r
  <2>4. /\ Len(v) = n - k /\ v[1] = x
        /\ \A i \in 2..(n - k) : v[i] = r[i - 1]
    <3> HIDE DEF u, r
    <3>1. Len(v) = 1 + Len(r)
      BY <1>2, <2>3, ConcatProperties DEF u
    <3>2. v[1] = x
      BY <1>2, <2>3, ConcatProperties DEF u
    <3>3. \A i \in 2..(n - k) : v[i] = r[i - 1]
      BY <1>1, <1>2, <2>2, <2>3, <3>1, ConcatProperties DEF u
    <3> QED BY <1>1, <2>2, <3>1, <3>2, <3>3
  <2>5. v \in Seq(T)
    <3> HIDE DEF u, r
    <3> QED BY <1>2, <2>3, ConcatProperties DEF u
  <2>6. \A i \in 1..(n - k) : q[i] = v[i]
    <3> SUFFICES ASSUME NEW i \in 1..(n - k) PROVE q[i] = v[i]
      OBVIOUS
    <3>1. q[i] = c[k + i]
      BY <2>1
    <3>2. CASE i = 1
      <4> HIDE DEF v, q
      <4> QED BY <2>4, <3>1, <3>2
    <3>3. CASE i # 1
      <4>1. i \in 2..(n - k) /\ i - 1 \in 1..(n - k - 1)
        BY <1>1, <3>3
      <4>2. r[i - 1] = c[k + 1 + (i - 1)] /\ k + 1 + (i - 1) = k + i
        BY <1>1, <2>2, <4>1
      <4> HIDE DEF v, q, r
      <4> QED BY <2>4, <3>1, <4>1, <4>2
    <3> QED BY <3>2, <3>3
  <2>7. n - k \in Nat /\ q = [i \in 1..(n - k) |-> q[i]]
    BY <1>1, <2>1
  <2>8. q = v
    <3> HIDE DEF q, v, n
    <3> QED BY <2>4, <2>5, <2>6, <2>7, SameElements
  <2> QED BY <2>8
<1> HIDE DEF n, x, r, q
<1>4. <<x>> \in Seq(T) /\ Append(h, x) = h \o <<x>>
  BY <1>1, AppendIsConcat
<1>5. h \o (<<x>> \o r) = (h \o <<x>>) \o r
  BY <1>2, <1>4, ConcatAssociative, SMTT(30)
<1>6. h \o q = Append(h, x) \o r
  BY <1>3, <1>4, <1>5
<1> QED
  BY <1>6 DEF n, x, r, q

-----------------------------------------------------------------------------
(* write_scene: the inductive invariant.                                   *)

Pairs == Elements \X Elements

Order(a, m) == Kept(m, Absent, a)[Len(a)]
DrawnTo(a, m, n) == Doubled(Kept(m, Hollow, Order(a, m))[n])
Places == Len(Order(along, mesh))

\* Elements that have been pushed.
pushed == next - (IF stage = "meshing" THEN Len(items) ELSE Len(meshes))

\* The batch that ends at next.
IsBatch(b) ==
    /\ Len(b) <= next
    /\ \A i \in 1..Len(b) : b[i] = Order(along, mesh)[(next - Len(b)) + i]

Given ==
    /\ along \in SpatialOrders
    /\ mesh \in [Elements -> Absent..MostTriangles]
    /\ broken \subseteq Elements

Noting == [at : Nat, holds : Seq(Pairs)]
Section ==
    {Heading, Bounds, Manifest, Torn}
      \union {Chunk(c) : c \in Seq(Pairs)}
      \union {Block(b) : b \in SUBSET Int}
      \union {Trailer(m) : m \in Int}

Stages == {"opening", "batching", "meshing", "pushing", "flushing", "deflating",
           "writing", "bounds", "properties", "packing", "blocks", "manifest",
           "trailer", "done", "failed"}

PackTypeOK ==
    /\ stage \in Stages
    /\ next \in 0..Places
    /\ meshes \in Seq(Elements)
    /\ stored \in Seq(Nat)
    /\ chunk \in Seq(Pairs)
    /\ closed \in Seq(Seq(Pairs))
    /\ final \in BOOLEAN
    /\ file \in Seq(Section)
    /\ manifest \in [chunks : Seq(Noting), blocks : Seq(Nat), bounds : Nat,
                     marks : SUBSET Elements]

Early == {"opening", "batching", "meshing", "pushing"}
Late  == {"bounds", "properties", "packing", "blocks", "trailer", "done"}

\* Where the packing is, and what is on hand there.
InItsPlace ==
    /\ stage \in Early => ~final
    /\ stage \in Late => final /\ closed = <<>>
    /\ final => next = Places /\ meshes = <<>> /\ chunk = <<>>
    /\ stage \in {"opening", "batching", "meshing"} => meshes = <<>>

\* The batch that is meshed or pushed, and what has been closed of it.
Batched ==
    /\ IsBatch(meshes)
    /\ stage = "meshing" => IsBatch(items)
    /\ Len(closed) <= pushed
    /\ chunk # <<>> => Len(closed) < pushed

\* The chunks and blocks that are deflated and those that are written.
Deflated ==
    /\ stage = "deflating" => items = [i \in DOMAIN closed |-> i]
    /\ stage = "writing" =>
         /\ Len(stored) <= Len(closed)
         /\ \A i \in 1..Len(stored) : stored[i] = (Len(closed) - Len(stored)) + i
    /\ stage = "packing" =>
         items = [b \in 1..DivCeil(Len(along), PropertyBlock) |-> b]
    /\ stage = "blocks" =>
         /\ Len(manifest.blocks) + Len(stored) = DivCeil(Len(along), PropertyBlock)
         /\ \A i \in 1..Len(stored) : stored[i] = Len(manifest.blocks) + i
    /\ stage \in {"trailer", "done"} =>
         Len(manifest.blocks) = DivCeil(Len(along), PropertyBlock)
    /\ stage \notin {"blocks", "trailer", "done", "failed"} => manifest.blocks = <<>>

\* A chunk that is full, and was not before its last element.
LastFills(c) == Triangles(mesh, Front(c)) < Budget
Fills(c) == Triangles(mesh, c) >= Budget

Budgeted ==
    /\ ~Fills(chunk)
    /\ LastFills(chunk)
    /\ \A j \in 1..Len(closed) :
         /\ LastFills(closed[j])
         /\ Fills(closed[j]) \/ (final /\ j = Len(closed))
    /\ \A j \in 1..Len(manifest.chunks) :
         /\ LastFills(manifest.chunks[j].holds)
         /\ \/ Fills(manifest.chunks[j].holds)
            \/ /\ final
               /\ j = Len(manifest.chunks)
               /\ closed # <<>> => manifest.chunks[j].holds = closed[Len(closed)]
    /\ (stage \in {"flushing", "deflating"} \/ (stage = "writing" /\ stored # <<>>)) =>
         \A j \in 1..Len(manifest.chunks) : Fills(manifest.chunks[j].holds)

\* The chunks there are, written or not.
Unwritten == IF stage = "writing"
             THEN SubSeq(closed, (Len(closed) - Len(stored)) + 1, Len(closed))
             ELSE closed
AllChunks == HoldsOf(manifest.chunks) \o Unwritten

\* What has been pushed is in the chunks, each element that draws something
\* once, in order, with its own mesh.
NothingLost == stage # "failed" =>
    /\ FlattenSeq(AllChunks) \o chunk = DrawnTo(along, mesh, pushed)
    /\ manifest.marks = Firsts(DrawnTo(along, mesh, pushed))

FoundIn(f, at, section) == at \in Nat /\ at < Len(f) /\ f[at + 1] = section

\* The manifest says where what was written is.
Filed ==
    /\ \A j \in 1..Len(manifest.chunks) :
         FoundIn(file, manifest.chunks[j].at, Chunk(manifest.chunks[j].holds))
    /\ \A j \in 1..Len(manifest.blocks) :
         FoundIn(file, manifest.blocks[j], Block(BlockOf(j)))
    /\ stage \in {"properties", "packing", "blocks", "trailer", "done"} =>
         FoundIn(file, manifest.bounds, Bounds)
    /\ stage = "trailer" => FoundIn(file, Len(file) - 1, Manifest)
    /\ stage = "done" => /\ Len(file) >= 2
                         /\ file[Len(file)] = Trailer(Len(file) - 2)
                         /\ FoundIn(file, Len(file) - 2, Manifest)
    /\ stage # "done" => ~HasTrailer

PackInv ==
    /\ IInv
    /\ Given
    /\ PackTypeOK
    /\ InItsPlace
    /\ Batched
    /\ Deflated
    /\ Budgeted
    /\ NothingLost
    /\ Filed

-----------------------------------------------------------------------------
(* What the model and the bounds are.                                      *)

LEMMA PackBounds ==
    /\ TESSELLATION_BATCH \in Nat \ {0} /\ CHUNK_FLUSH_BATCH \in Nat \ {0}
    /\ Budget \in Nat \ {0} /\ PropertyBlock \in Nat \ {0} /\ MostTriangles \in Nat
BY PackAssumption

\* The model numbers its elements, and numbers of elements are items.
LEMMA GivenFacts ==
  ASSUME Given
  PROVE  /\ along \in Seq(Elements) /\ Len(along) \in Nat
         /\ Elements = 1..Len(along) /\ Elements \subseteq Item
         /\ \A e \in Elements : mesh[e] \in Int
<1>1. along \in Seq(Item) /\ Range(along) = DOMAIN along
  BY PackAssumption DEF Given
<1>2. along = [i \in 1..Len(along) |-> along[i]] /\ Len(along) \in Nat
  BY <1>1
<1>3. Elements = 1..Len(along)
  BY <1>2 DEF Elements
<1>4. \A i \in 1..Len(along) : along[i] \in Item
  BY <1>1, ElementOfSeq
<1>5. Range(along) = {along[i] : i \in 1..Len(along)}
  BY <1>2, <1>3 DEF Range, Elements
<1>6. \A i \in 1..Len(along) : along[i] \in Elements
  BY <1>1, <1>5 DEF Elements
<1>7. along \in Seq(Elements)
  BY <1>2, <1>6
<1>8. \A e \in Elements : e \in Item
  BY <1>1, <1>4, <1>5 DEF Elements
<1>9. \A e \in Elements : mesh[e] \in Int
  BY PackBounds DEF Given, Absent
<1> QED
  BY <1>2, <1>3, <1>7, <1>8, <1>9

\* The elements that have geometry are elements, in a sequence.
LEMMA OrderFacts ==
  ASSUME Given
  PROVE  /\ Order(along, mesh) \in Seq(Elements)
         /\ Places \in Nat /\ Places <= Len(along)
         /\ \A i \in 1..Places : Order(along, mesh)[i] \in Elements
         /\ spatial_order = Order(along, mesh)
<1>1. along \in Seq(Elements) /\ Len(along) \in Nat
  BY GivenFacts
<1> DEFINE n == Len(along)
           o == Order(along, mesh)
<1>2. n \in 0..Len(along)
  BY <1>1
<1>3. Kept(mesh, Absent, along)[n] \in Seq(Elements) /\ Len(Kept(mesh, Absent, along)[n]) <= n
  <2> HIDE DEF n
  <2> QED BY <1>1, <1>2, KeptIsSeq
<1>4. o \in Seq(Elements) /\ Len(o) <= Len(along)
  BY <1>3 DEF Order
<1>5. spatial_order = o
  BY InTermsOfMeshes DEF spatial_order, Order
<1> HIDE DEF o
<1>6. Len(o) \in Nat /\ \A i \in 1..Len(o) : o[i] \in Elements
  BY <1>4, ElementOfSeq, LenProperties
<1> QED
  BY <1>4, <1>5, <1>6 DEF o, Places

\* What is drawn of the elements up to each place.
LEMMA DrawnUnfolds ==
  ASSUME Given
  PROVE  /\ DrawnTo(along, mesh, 0) = <<>>
         /\ \A n \in 0..Places : DrawnTo(along, mesh, n) \in Seq(Pairs)
         /\ \A n \in 1..Places :
              DrawnTo(along, mesh, n) =
                IF mesh[Order(along, mesh)[n]] = Hollow
                THEN DrawnTo(along, mesh, n - 1)
                ELSE Append(DrawnTo(along, mesh, n - 1),
                            <<Order(along, mesh)[n], Order(along, mesh)[n]>>)
<1> DEFINE o == Order(along, mesh)
           k == Kept(mesh, Hollow, o)
           d(n) == DrawnTo(along, mesh, n)
<1>1. o \in Seq(Elements) /\ Places = Len(o) /\ Places \in Nat
      /\ \A i \in 1..Places : o[i] \in Elements
  BY OrderFacts DEF Places
<1>2. \A n : d(n) = Doubled(k[n])
  BY DEF DrawnTo
<1> HIDE DEF o, d
<1>3. \A n \in 0..Places : k[n] \in Seq(Elements)
  BY <1>1, KeptIsSeq
<1>4. /\ k[0] = <<>>
      /\ \A n \in 1..Places : k[n] = IF mesh[o[n]] = Hollow THEN k[n - 1]
                                     ELSE Append(k[n - 1], o[n])
  BY <1>1, KeptUnfolds
<1> HIDE DEF k
<1>5. d(0) = <<>>
  BY <1>2, <1>4 DEF Doubled
<1>6. \A n \in 0..Places : d(n) \in Seq(Pairs)
  BY <1>2, <1>3, DoubledIs DEF Pairs
<1>7. ASSUME NEW n \in 1..Places
      PROVE  d(n) = IF mesh[o[n]] = Hollow THEN d(n - 1)
                    ELSE Append(d(n - 1), <<o[n], o[n]>>)
  <2>1. n - 1 \in 0..Places /\ k[n - 1] \in Seq(Elements) /\ o[n] \in Elements
    BY <1>1, <1>3
  <2>2. Doubled(Append(k[n - 1], o[n])) = Append(Doubled(k[n - 1]), <<o[n], o[n]>>)
    BY <2>1, DoubledIs
  <2> QED BY <1>2, <1>4, <2>2
<1> QED
  BY <1>5, <1>6, <1>7 DEF d, o

\* A chunk of pairs has a number of triangles.
LEMMA TrianglesAre ==
  ASSUME Given
  PROVE  /\ Triangles(mesh, <<>>) = 0
         /\ \A c \in Seq(Pairs) : Triangles(mesh, c) \in Int
<1>1. \A p \in Pairs : mesh[p[2]] \in Int
  BY GivenFacts DEF Pairs
<1> QED
  BY <1>1, CountsAre

-----------------------------------------------------------------------------
(* Batches.                                                                *)

\* The next batch starts behind the last one and ends within the order.
LEMMA BatchIs ==
  ASSUME Given, next \in 0..Places
  PROVE  /\ Batch \in Seq(Elements) /\ Batch \in Seq(Item) /\ Len(Batch) \in Nat
         /\ next + Len(Batch) <= Places
         /\ \A i \in 1..Len(Batch) : Batch[i] = Order(along, mesh)[next + i]
<1> DEFINE o == Order(along, mesh)
           e == Smaller(next + TESSELLATION_BATCH, Places)
           b == SubSeq(o, next + 1, e)
<1>1. o \in Seq(Elements) /\ Places = Len(o) /\ Places \in Nat
      /\ (\A i \in 1..Places : o[i] \in Elements) /\ spatial_order = o
  BY OrderFacts DEF Places
<1>2. Batch = b
  BY <1>1 DEF Batch
<1>3. e \in Nat /\ e <= Places /\ next <= e /\ next \in Nat
  BY <1>1, PackBounds DEF Smaller
<1> HIDE DEF e, o
<1>4. b = [i \in 1..(e - next) |-> o[next + i]] /\ Len(b) = e - next
  BY <1>1, <1>3
<1>5. \A i \in 1..(e - next) : b[i] = o[next + i] /\ o[next + i] \in Elements
  BY <1>1, <1>3, <1>4
<1>6. e - next \in Nat
  BY <1>3
<1> HIDE DEF b
<1>7. b \in Seq(Elements)
  BY <1>4, <1>5, <1>6
<1>8. \A i \in 1..(e - next) : b[i] \in Item
  BY <1>5, GivenFacts
<1>9. b \in Seq(Item)
  BY <1>4, <1>6, <1>8
<1>10. Len(b) \in Nat /\ next + Len(b) <= Places
  BY <1>3, <1>4, <1>6
<1> QED
  BY <1>2, <1>4, <1>5, <1>7, <1>9, <1>10 DEF o

\* How much has been pushed.
LEMMA PushedIs ==
  ASSUME PackInv
  PROVE  /\ Len(meshes) \in Nat /\ Len(items) \in Nat /\ next \in Nat
         /\ pushed \in Nat /\ pushed <= next /\ next <= Places /\ Places \in Nat
         /\ stage # "meshing" => pushed = next - Len(meshes)
         /\ stage = "meshing" => pushed = next - Len(items)
<1>1. meshes \in Seq(Elements) /\ items \in Seq(Item) /\ next \in 0..Places
  BY DEF PackInv, PackTypeOK, IInv, SharingTypeOK
<1>2. Len(meshes) \in Nat /\ Len(items) \in Nat
  BY <1>1, LenProperties
<1>3. Places \in Nat
  BY OrderFacts DEF PackInv
<1>4. Len(meshes) <= next /\ (stage = "meshing" => Len(items) <= next)
  BY DEF PackInv, Batched, IsBatch
<1> QED
  BY <1>1, <1>2, <1>3, <1>4 DEF pushed

\* The next mesh of the batch is that of the next element.
LEMMA ZippedIs ==
  ASSUME PackInv, stage = "pushing", meshes # <<>>
  PROVE  /\ Len(meshes) \in Nat \ {0} /\ pushed + 1 \in 1..Places
         /\ meshes[1] = Order(along, mesh)[pushed + 1]
         /\ Zipped = meshes[1] /\ Zipped \in Elements
         /\ Tail(meshes) \in Seq(Elements) /\ Len(Tail(meshes)) = Len(meshes) - 1
         /\ \A i \in 1..(Len(meshes) - 1) : Tail(meshes)[i] = meshes[i + 1]
<1>1. meshes \in Seq(Elements)
  BY DEF PackInv, PackTypeOK
<1>2. Len(meshes) \in Nat \ {0}
  BY <1>1, EmptySeq, LenProperties
<1>3. pushed = next - Len(meshes) /\ pushed \in Nat /\ next <= Places /\ Places \in Nat /\ next \in Nat
  BY PushedIs
<1>4. pushed + 1 \in 1..Places
  BY <1>2, <1>3
<1>5. meshes[1] = Order(along, mesh)[pushed + 1]
  BY <1>2, <1>3 DEF PackInv, Batched, IsBatch
<1>6. Zipped = Order(along, mesh)[pushed + 1]
  BY <1>3, OrderFacts DEF Zipped, PackInv
<1>7. /\ Tail(meshes) \in Seq(Elements) /\ Len(Tail(meshes)) = Len(meshes) - 1
      /\ \A i \in 1..(Len(meshes) - 1) : Tail(meshes)[i] = meshes[i + 1]
  BY <1>1, <1>2, HeadTailProperties
<1>8. Zipped \in Elements
  BY <1>4, <1>6, OrderFacts DEF PackInv
<1> QED
  BY <1>2, <1>4, <1>5, <1>6, <1>7, <1>8

\* A chunk that is pushed on.
LEMMA PushedChunk ==
  ASSUME PackInv, stage = "pushing", meshes # <<>>
  PROVE  /\ Pushed \in Seq(Pairs) /\ Front(Pushed) = chunk /\ Pushed # <<>>
         /\ <<Zipped, Zipped>> \in Pairs
         /\ Pushed = Append(chunk, <<Zipped, Zipped>>)
<1>1. Zipped = meshes[1] /\ Zipped \in Elements
  BY ZippedIs
<1> DEFINE p == <<Zipped, Zipped>>
<1>2. p \in Pairs
  BY <1>1 DEF Pairs
<1>3. Pushed = Append(chunk, p)
  BY <1>1 DEF Pushed
<1>4. chunk \in Seq(Pairs)
  BY DEF PackInv, PackTypeOK
<1> HIDE DEF p
<1>5. Front(Append(chunk, p)) = chunk
  BY <1>2, <1>4, FrontOfAppend
<1>6. Append(chunk, p) \in Seq(Pairs) /\ Len(Append(chunk, p)) = Len(chunk) + 1 /\ Len(chunk) \in Nat
  BY <1>2, <1>4, Appended1
<1>7. Append(chunk, p) # <<>>
  <2> DEFINE t == Append(chunk, p)
  <2>1. Len(t) # 0
    BY <1>6
  <2>2. Len(<<>>) = 0
    OBVIOUS
  <2> HIDE DEF t
  <2>3. t # <<>>
    <3> SUFFICES ASSUME t = <<>> PROVE FALSE
      OBVIOUS
    <3> QED BY <2>1, <2>2
  <2> QED BY <2>3 DEF t
<1> QED
  BY <1>2, <1>3, <1>5, <1>6, <1>7 DEF p

-----------------------------------------------------------------------------
(* Every step keeps the invariant: sharing, and what is given.             *)

\* No step changes the model.
LEMMA InputsStay ==
  ASSUME [Next]_vars
  PROVE  /\ along' = along /\ mesh' = mesh /\ broken' = broken
         /\ Elements' = Elements /\ Pairs' = Pairs /\ Places' = Places
         /\ Section' = Section /\ Noting' = Noting
         /\ Order(along, mesh)' = Order(along, mesh)
<1>1. along' = along /\ mesh' = mesh /\ broken' = broken
  BY DEF Next, Pack, Open, Tessellate, HaveMeshes, PushNothing, Push, BatchDone,
     CloseLast, DeflateChunks, HaveChunks, WriteChunk, Flushed, WriteBounds,
     DeflateBlocks, HaveBlocks, WriteBlock, WriteManifest, WriteTrailer, Share,
     WriteFails, vars, inputVars
<1>2. Elements' = Elements
  BY <1>1 DEF Elements
<1>3. Pairs' = Pairs
  BY <1>2 DEF Pairs
<1>4. Order(along, mesh)' = Order(along, mesh)
  BY <1>1
<1>5. Places' = Places
  BY <1>4 DEF Places
<1>6. Noting' = Noting
  BY <1>3 DEF Noting
<1>7. Section' = Section
  BY <1>3 DEF Section
<1> QED
  BY <1>1, <1>2, <1>3, <1>4, <1>5, <1>6, <1>7

LEMMA GivenStays == ASSUME Given, [Next]_vars PROVE Given'
BY InputsStay DEF Given

\* Numbers up to one are items where as many elements are.
LEMMA NumbersAreItems ==
  ASSUME Given, NEW n \in Nat, n <= Len(along)
  PROVE  [i \in 1..n |-> i] \in Seq(Item) /\ Len([i \in 1..n |-> i]) = n
<1>1. \A i \in 1..n : i \in Item
  BY GivenFacts, SMTT(30)
<1> QED
  BY <1>1

\* There are no more blocks of properties than elements.
LEMMA BlocksAreFew ==
  ASSUME Given
  PROVE  /\ DivCeil(Len(along), PropertyBlock) \in Nat
         /\ DivCeil(Len(along), PropertyBlock) <= Len(along)
<1> DEFINE n == Len(along)
           q == DivCeil(n, PropertyBlock)
<1>1. n \in Nat /\ PropertyBlock \in Nat \ {0}
  BY GivenFacts, PackBounds
<1>2. q = (n + PropertyBlock - 1) \div PropertyBlock
  BY DEF DivCeil
<1>3. q \in Nat /\ (q = 0 <=> n = 0)
  <2> HIDE DEF n
  <2> QED BY <1>1, DivCeilIsEnough
<1> DEFINE a == n + PropertyBlock - 1
<1>4. PropertyBlock * q <= a
  <2>1. a \in Nat
    BY <1>1
  <2>2. q = a \div PropertyBlock
    BY <1>2
  <2> HIDE DEF a, n, q
  <2> QED BY <1>1, <2>1, <2>2, Z3
<1>5. q <= n
  <2>1. SUFFICES ASSUME q >= n + 1, n >= 1 PROVE FALSE
    <3> HIDE DEF q
    <3> QED BY <1>1, <1>3
  <2>2. PropertyBlock * q >= PropertyBlock * (n + 1)
    <3> HIDE DEF q, n
    <3> QED BY <1>1, <1>3, <2>1, Z3
  <2>3. PropertyBlock * (n + 1) = PropertyBlock * n + PropertyBlock
    <3> HIDE DEF q, n
    <3> QED BY <1>1, Z3
  <2>4. PropertyBlock * n >= n /\ PropertyBlock * n \in Nat
    <3> HIDE DEF q, n
    <3> QED BY <1>1, Z3
  <2>5. PropertyBlock * q \in Nat
    <3> HIDE DEF q, n
    <3> QED BY <1>1, <1>3, Z3
  <2> DEFINE x == PropertyBlock * n
             y == PropertyBlock * q
             z == PropertyBlock * (n + 1)
  <2> HIDE DEF x, y, z, q
  <2> QED BY <1>1, <1>4, <2>2, <2>3, <2>4, <2>5 DEF x, y, z
<1> QED
  BY <1>3, <1>5

\* What a step of the packing is to the threads.
LEMMA StepsShare == PackInv /\ [Next]_vars => [SharingNext]_sharingVars
<1> SUFFICES ASSUME PackInv, [Next]_vars PROVE [SharingNext]_sharingVars
  OBVIOUS
<1>0. IInv /\ Given /\ next \in 0..Places
  BY DEF PackInv, PackTypeOK
<1>1. CASE UNCHANGED sharingVars
  BY <1>1
<1>2. CASE TakeResults
  BY <1>2 DEF SharingNext
<1>3. CASE Tessellate
  <2>1. Batch \in Seq(Item)
    BY <1>0, BatchIs
  <2>2. broken \in SUBSET Item
    BY <1>0, GivenFacts DEF Given
  <2>3. MapInOrder(Batch, broken)
    BY <1>3 DEF Tessellate
  <2> QED BY <2>1, <2>2, <2>3 DEF SharingNext
<1>4. CASE DeflateChunks
  <2>1. closed \in Seq(Seq(Pairs)) /\ Len(closed) \in Nat /\ DOMAIN closed = 1..Len(closed)
    <3>1. closed \in Seq(Seq(Pairs))
      BY DEF PackInv, PackTypeOK
    <3> QED BY <3>1, LenProperties
  <2>2. Len(closed) <= pushed /\ pushed \in Nat /\ pushed <= Places /\ Places \in Nat
    BY PushedIs DEF PackInv, Batched
  <2>3. Len(closed) <= Len(along) /\ Len(along) \in Nat
    BY <1>0, <2>1, <2>2, OrderFacts, GivenFacts
  <2>4. [i \in DOMAIN closed |-> i] \in Seq(Item)
    BY <1>0, <2>1, <2>3, NumbersAreItems
  <2>5. MapInOrder([i \in DOMAIN closed |-> i], {})
    BY <1>4 DEF DeflateChunks
  <2> QED BY <2>4, <2>5 DEF SharingNext
<1>5. CASE DeflateBlocks
  <2> DEFINE q == DivCeil(Len(along), PropertyBlock)
  <2>1. q \in Nat /\ q <= Len(along)
    BY <1>0, BlocksAreFew
  <2>2. MapInOrder([i \in 1..q |-> i], {})
    BY <1>5 DEF DeflateBlocks
  <2> HIDE DEF q
  <2>3. [i \in 1..q |-> i] \in Seq(Item)
    BY <1>0, <2>1, NumbersAreItems
  <2> QED BY <2>2, <2>3 DEF SharingNext
<1>6. CASE Share
  BY <1>6 DEF Share, SharingNext
<1> QED
  BY <1>1, <1>2, <1>3, <1>4, <1>5, <1>6
  DEF Next, Pack, Open, HaveMeshes, PushNothing, Push, BatchDone,
     CloseLast, HaveChunks, WriteChunk, Flushed, WriteBounds,
     HaveBlocks, WriteBlock, WriteManifest, WriteTrailer, WriteFails, vars

LEMMA SharingKept == ASSUME PackInv, [Next]_vars PROVE IInv'
BY StepsShare, NextKeeps DEF PackInv

\* What a call returns is what went into it.
LEMMA Taken == ASSUME PackInv, TakeResults PROVE joined = items
BY ReturnedIsWhole DEF TakeResults, ResultsInOrder, PackInv

-----------------------------------------------------------------------------
(* The types.                                                              *)

\* Every variable keeps to its values.
LEMMA TypeKept == ASSUME PackInv, [Next]_vars PROVE PackTypeOK'
<1>0. PackTypeOK /\ Given /\ Places \in Nat
  BY OrderFacts DEF PackInv
<1> DEFINE Rest == /\ stage' \in Stages
                   /\ next' \in 0..Places
                   /\ meshes' \in Seq(Elements)
                   /\ stored' \in Seq(Nat)
                   /\ chunk' \in Seq(Pairs)
                   /\ closed' \in Seq(Seq(Pairs))
                   /\ final' \in BOOLEAN
                   /\ file' \in Seq(Section)
                   /\ manifest' \in [chunks : Seq(Noting), blocks : Seq(Nat),
                                     bounds : Nat, marks : SUBSET Elements]
<1>1. Rest => PackTypeOK'
  BY InputsStay DEF PackTypeOK
<1> SUFFICES Rest
  BY <1>1
<1>2. At \in Nat /\ \A x \in Section : Append(file, x) \in Seq(Section)
  <2>1. file \in Seq(Section)
    BY <1>0 DEF PackTypeOK
  <2> QED BY <2>1, LenProperties, AppendProperties DEF At
<1>3. Heading \in Section /\ Bounds \in Section /\ Manifest \in Section /\ Torn \in Section
  BY DEF Section
<1>4. CASE Open
  BY <1>0, <1>2, <1>3, <1>4 DEF Open, Writes, PackTypeOK, Stages, chunkVars
<1>5. CASE Tessellate
  <2>1. next + Len(Batch) \in 0..Places
    BY <1>0, BatchIs DEF PackTypeOK
  <2> QED BY <1>0, <1>5, <2>1 DEF Tessellate, PackTypeOK, Stages
<1>6. CASE HaveMeshes
  <2>1. joined = items /\ items \in Seq(Item) /\ Len(items) \in Nat
    BY <1>6, Taken, LenProperties DEF HaveMeshes, PackInv, IInv, SharingTypeOK
  <2>2. \A i \in 1..Len(items) : items[i] \in Elements
    <3> SUFFICES ASSUME NEW i \in 1..Len(items) PROVE items[i] \in Elements
      OBVIOUS
    <3>1. Len(items) <= next /\ items[i] = Order(along, mesh)[(next - Len(items)) + i]
      BY <1>6 DEF HaveMeshes, PackInv, Batched, IsBatch
    <3>2. (next - Len(items)) + i \in 1..Places
      BY <1>0, <2>1, <3>1 DEF PackTypeOK
    <3> QED BY <1>0, <3>1, <3>2, OrderFacts
  <2>3. items \in Seq(Elements)
    BY <2>1, <2>2
  <2> QED BY <1>0, <1>6, <2>1, <2>3 DEF HaveMeshes, PackTypeOK, Stages
<1>7. CASE PushNothing
  <2>1. Tail(meshes) \in Seq(Elements)
    BY <1>7, ZippedIs DEF PushNothing
  <2> QED BY <1>0, <1>7, <2>1 DEF PushNothing, PackTypeOK
<1>8. CASE Push
  <2>1. Tail(meshes) \in Seq(Elements) /\ Zipped \in Elements
    BY <1>8, ZippedIs DEF Push
  <2>2. Pushed \in Seq(Pairs)
    BY <1>8, PushedChunk DEF Push
  <2>3. Append(closed, Pushed) \in Seq(Seq(Pairs))
    BY <1>0, <2>2, AppendProperties DEF PackTypeOK
  <2>4. manifest' = [manifest EXCEPT !.marks = @ \union {Zipped}]
    BY <1>8 DEF Push
  <2>5. <<>> \in Seq(Pairs)
    BY EmptySeq
  <2>6. stage' \in Stages /\ meshes' \in Seq(Elements) /\ UNCHANGED <<next, stored, final, file>>
    BY <1>8, <2>1 DEF Push, Stages
  <2>7. chunk' \in Seq(Pairs) /\ closed' \in Seq(Seq(Pairs))
    BY <1>0, <1>8, <2>2, <2>3, <2>5 DEF Push, PackTypeOK
  <2>8. manifest' \in [chunks : Seq(Noting), blocks : Seq(Nat), bounds : Nat,
                       marks : SUBSET Elements]
    BY <1>0, <2>1, <2>4 DEF PackTypeOK
  <2> QED BY <1>0, <2>6, <2>7, <2>8 DEF PackTypeOK
<1>9. CASE BatchDone
  BY <1>0, <1>9 DEF BatchDone, PackTypeOK, chunkVars, Stages
<1>10. CASE CloseLast
  <2>1. WithLast \in Seq(Seq(Pairs))
    BY <1>0, AppendProperties DEF WithLast, PackTypeOK
  <2>2. <<>> \in Seq(Pairs)
    BY EmptySeq
  <2> QED BY <1>0, <1>10, <2>1, <2>2 DEF CloseLast, PackTypeOK, Stages
<1>11. CASE DeflateChunks
  BY <1>0, <1>11 DEF DeflateChunks, PackTypeOK, chunkVars, Stages
<1>12. CASE HaveChunks
  <2>1. joined = [i \in DOMAIN closed |-> i]
    BY <1>12, Taken DEF HaveChunks, PackInv, Deflated
  <2>2. DOMAIN closed = 1..Len(closed) /\ Len(closed) \in Nat
    BY <1>0, LenProperties DEF PackTypeOK
  <2>3. joined \in Seq(Nat)
    BY <2>1, <2>2
  <2> QED BY <1>0, <1>12, <2>3 DEF HaveChunks, PackTypeOK, Stages
<1>13. CASE WriteChunk
  <2>1. stored \in Seq(Nat) /\ stored # <<>> /\ Len(stored) \in Nat \ {0}
    BY <1>0, <1>13, EmptySeq, LenProperties DEF WriteChunk, PackTypeOK
  <2>2. Tail(stored) \in Seq(Nat)
    BY <2>1, HeadTailProperties
  <2>3. Len(closed) \in Nat /\ closed \in Seq(Seq(Pairs))
    BY <1>0, LenProperties DEF PackTypeOK
  <2>4. Len(stored) <= Len(closed) /\ stored[1] = (Len(closed) - Len(stored)) + 1
    BY <1>13, <2>1, SMTT(30) DEF WriteChunk, PackInv, Deflated
  <2>5. stored[1] \in 1..Len(closed)
    BY <2>1, <2>3, <2>4
  <2>6. Noted = closed[stored[1]]
    BY <2>4 DEF Noted
  <2>7. closed[stored[1]] \in Seq(Pairs)
    BY <2>3, <2>5, ElementOfSeq
  <2> DEFINE c == closed[stored[1]]
             r == [at |-> Span, holds |-> Noted]
  <2>8. Chunk(c) \in Section
    BY <2>7 DEF Section
  <2>9. r \in Noting
    BY <1>2, <2>6, <2>7 DEF Noting, Span
  <2> HIDE DEF c, r
  <2>10. manifest' = [manifest EXCEPT !.chunks = Append(manifest.chunks, r)]
    BY <1>13 DEF WriteChunk, r
  <2>11. Append(manifest.chunks, r) \in Seq(Noting)
    BY <1>0, <2>9, AppendProperties DEF PackTypeOK
  <2>12. file' = Append(file, Chunk(c))
    BY <1>13 DEF WriteChunk, Writes, c
  <2> QED BY <1>0, <1>2, <1>13, <2>2, <2>8, <2>10, <2>11, <2>12
          DEF WriteChunk, PackTypeOK, Stages
<1>14. CASE Flushed
  <2>1. <<>> \in Seq(Seq(Pairs))
    BY EmptySeq
  <2> QED BY <1>0, <1>14, <2>1 DEF Flushed, Cleared, PackTypeOK, Stages
<1>15. CASE WriteBounds
  BY <1>0, <1>2, <1>3, <1>15 DEF WriteBounds, Writes, Span, PackTypeOK, chunkVars, Stages
<1>16. CASE DeflateBlocks
  BY <1>0, <1>16 DEF DeflateBlocks, PackTypeOK, chunkVars, Stages
<1>17. CASE HaveBlocks
  <2> DEFINE q == DivCeil(Len(along), PropertyBlock)
  <2>1. joined = [b \in 1..q |-> b]
    BY <1>17, Taken DEF HaveBlocks, PackInv, Deflated
  <2>2. q \in Nat
    BY <1>0, BlocksAreFew
  <2> HIDE DEF q
  <2>3. joined \in Seq(Nat)
    BY <2>1, <2>2
  <2> QED BY <1>0, <1>17, <2>3 DEF HaveBlocks, PackTypeOK, Stages
<1>18. CASE WriteBlock
  <2>1. stored \in Seq(Nat) /\ stored # <<>> /\ Len(stored) \in Nat \ {0}
    BY <1>0, <1>18, EmptySeq, LenProperties DEF WriteBlock, PackTypeOK
  <2>2. Tail(stored) \in Seq(Nat) /\ stored[1] \in Nat
    BY <2>1, HeadTailProperties, ElementOfSeq
  <2>3. BlockOf(stored[1]) \in SUBSET Int
    BY <1>0, <2>2, GivenFacts, PackBounds DEF BlockOf, Smaller
  <2>4. Block(BlockOf(stored[1])) \in Section
    BY <2>3 DEF Section
  <2>5. file' = Append(file, Block(BlockOf(stored[1]))) /\ stored' = Tail(stored)
        /\ manifest' = [manifest EXCEPT !.blocks = Append(manifest.blocks, Span)]
        /\ UNCHANGED <<stage, next, meshes, chunk, closed, final>>
    BY <1>18 DEF WriteBlock, Writes
  <2>6. Append(manifest.blocks, Span) \in Seq(Nat)
    BY <1>0, <1>2, AppendProperties DEF PackTypeOK, Span
  <2> QED BY <1>0, <1>2, <2>2, <2>4, <2>5, <2>6 DEF PackTypeOK
<1>19. CASE WriteManifest
  BY <1>0, <1>2, <1>3, <1>19 DEF WriteManifest, Writes, PackTypeOK, chunkVars, Stages
<1>20. CASE WriteTrailer
  <2>1. Trailer(At - 1) \in Section
    BY <1>2 DEF Section
  <2> QED BY <1>0, <1>2, <1>20, <2>1 DEF WriteTrailer, Writes, PackTypeOK, chunkVars, Stages
<1>21. CASE Share
  BY <1>0, <1>21 DEF Share, PackTypeOK, chunkVars, Stages
<1>22. CASE WriteFails
  BY <1>0, <1>2, <1>3, <1>22 DEF WriteFails, PackTypeOK, chunkVars, Stages
<1>23. CASE UNCHANGED vars
  BY <1>0, <1>23 DEF vars, PackTypeOK, chunkVars
<1> QED
  BY <1>4, <1>5, <1>6, <1>7, <1>8, <1>9, <1>10, <1>11, <1>12, <1>13, <1>14, <1>15,
     <1>16, <1>17, <1>18, <1>19, <1>20, <1>21, <1>22, <1>23 DEF Next, Pack

\* The stages follow each other as they should.
LEMMA PlaceKept == ASSUME PackInv, [Next]_vars PROVE InItsPlace'
<1>0. InItsPlace /\ Given /\ PackTypeOK /\ Places' = Places
  BY InputsStay DEF PackInv
<1> DEFINE P == /\ stage' \in Early => ~final'
                /\ stage' \in Late => final' /\ closed' = <<>>
                /\ final' => next' = Places /\ meshes' = <<>> /\ chunk' = <<>>
                /\ stage' \in {"opening", "batching", "meshing"} => meshes' = <<>>
<1>1. P => InItsPlace'
  BY <1>0 DEF InItsPlace
<1> SUFFICES P
  BY <1>1
<1>4. CASE Open
  BY <1>0, <1>4 DEF Open, InItsPlace, chunkVars, Early, Late
<1>5. CASE Tessellate
  BY <1>0, <1>5 DEF Tessellate, InItsPlace, Early, Late
<1>6. CASE HaveMeshes
  BY <1>0, <1>6 DEF HaveMeshes, InItsPlace, Early, Late
<1>7. CASE PushNothing
  BY <1>0, <1>7 DEF PushNothing, InItsPlace, Early, Late
<1>8. CASE Push
  BY <1>0, <1>8 DEF Push, InItsPlace, Early, Late
<1>9. CASE BatchDone
  BY <1>0, <1>9 DEF BatchDone, InItsPlace, chunkVars, Early, Late
<1>10. CASE CloseLast
  <2>1. next = Places
    BY <1>10, OrderFacts DEF CloseLast, PackInv, Places
  <2> QED BY <1>0, <1>10, <2>1 DEF CloseLast, InItsPlace, Early, Late
<1>11. CASE DeflateChunks
  BY <1>0, <1>11 DEF DeflateChunks, InItsPlace, chunkVars, Early, Late
<1>12. CASE HaveChunks
  BY <1>0, <1>12 DEF HaveChunks, InItsPlace, Early, Late
<1>13. CASE WriteChunk
  BY <1>0, <1>13 DEF WriteChunk, InItsPlace, Early, Late
<1>14. CASE Flushed
  BY <1>0, <1>14 DEF Flushed, Cleared, InItsPlace, PackTypeOK, Early, Late
<1>15. CASE WriteBounds
  BY <1>0, <1>15 DEF WriteBounds, InItsPlace, chunkVars, Early, Late
<1>16. CASE DeflateBlocks
  BY <1>0, <1>16 DEF DeflateBlocks, InItsPlace, chunkVars, Early, Late
<1>17. CASE HaveBlocks
  BY <1>0, <1>17 DEF HaveBlocks, InItsPlace, Early, Late
<1>18. CASE WriteBlock
  BY <1>0, <1>18 DEF WriteBlock, InItsPlace, Early, Late
<1>19. CASE WriteManifest
  BY <1>0, <1>19 DEF WriteManifest, InItsPlace, chunkVars, Early, Late
<1>20. CASE WriteTrailer
  BY <1>0, <1>20 DEF WriteTrailer, InItsPlace, chunkVars, Early, Late
<1>21. CASE Share
  BY <1>0, <1>21 DEF Share, InItsPlace, chunkVars
<1>22. CASE WriteFails
  BY <1>0, <1>22 DEF WriteFails, InItsPlace, chunkVars, Early, Late
<1>23. CASE UNCHANGED vars
  BY <1>0, <1>23 DEF vars, InItsPlace, chunkVars
<1> QED
  BY <1>4, <1>5, <1>6, <1>7, <1>8, <1>9, <1>10, <1>11, <1>12, <1>13, <1>14, <1>15,
     <1>16, <1>17, <1>18, <1>19, <1>20, <1>21, <1>22, <1>23 DEF Next, Pack

\* Where neither the batch nor the chunks change, and no call of threads that
\* mesh begins or ends.
LEMMA BatchUntouched ==
  ASSUME PackInv, [Next]_vars,
         UNCHANGED <<next, meshes, chunk, closed>>,
         (stage # "meshing" /\ stage' # "meshing") \/ (stage' = stage /\ items' = items)
  PROVE  Batched' /\ pushed' = pushed
<1>1. Order(along, mesh)' = Order(along, mesh)
  BY InputsStay
<1>2. Batched
  BY DEF PackInv
<1>3. pushed' = pushed
  BY DEF pushed
<1> QED
  BY <1>1, <1>2, <1>3 DEF Batched, IsBatch

\* A batch is what comes next in the order, however often it is interrupted
\* to flush chunks.
LEMMA BatchedKept == ASSUME PackInv, [Next]_vars PROVE Batched'
<1> DEFINE o == Order(along, mesh)
           EndsAt(b, n) == /\ Len(b) <= n
                         /\ \A i \in 1..Len(b) : b[i] = o[(n - Len(b)) + i]
<1>0. /\ Batched /\ InItsPlace /\ Given /\ PackTypeOK /\ Places \in Nat
      /\ next \in 0..Places
      /\ Len(meshes) \in Nat /\ Len(closed) \in Nat
      /\ pushed \in Nat
      /\ (stage # "meshing" => pushed = next - Len(meshes))
      /\ (stage = "meshing" => pushed = next - Len(items))
  <2>1. closed \in Seq(Seq(Pairs))
    BY DEF PackInv, PackTypeOK
  <2> QED BY <2>1, PushedIs, OrderFacts, LenProperties DEF PackInv, PackTypeOK
<1> DEFINE left == IF stage' = "meshing" THEN Len(items') ELSE Len(meshes')
           P == /\ EndsAt(meshes', next')
                /\ stage' = "meshing" => EndsAt(items', next')
                /\ Len(closed') <= next' - left
                /\ chunk' # <<>> => Len(closed') < next' - left
<1>1. P => Batched'
  BY InputsStay DEF Batched, IsBatch, pushed
<1>2. CASE UNCHANGED <<next, meshes, chunk, closed>>
           /\ ((stage # "meshing" /\ stage' # "meshing") \/ (stage' = stage /\ items' = items))
  BY <1>2, BatchUntouched
<1>5. CASE Tessellate
  <2>1. stage' = "meshing" /\ items' = Batch /\ next' = next + Len(Batch)
        /\ UNCHANGED <<meshes, chunk, closed>> /\ stage = "batching"
    BY <1>5 DEF Tessellate, MapInOrder
  <2>2. meshes = <<>> /\ Len(meshes) = 0
    BY <1>0, <2>1 DEF InItsPlace
  <2>3. Len(Batch) \in Nat /\ \A i \in 1..Len(Batch) : Batch[i] = o[next + i]
    BY <1>0, BatchIs
  <2>4. next' - Len(Batch) = next /\ next' \in Nat /\ Len(Batch) <= next'
    BY <1>0, <2>1, <2>3
  <2>5. EndsAt(items', next')
    BY <2>1, <2>3, <2>4
  <2>6. EndsAt(meshes', next')
    BY <2>1, <2>2, <2>4
  <2>7. next' - left = pushed
    BY <1>0, <2>1, <2>2, <2>4
  <2> HIDE DEF left, EndsAt, o
  <2> QED BY <1>0, <1>1, <2>1, <2>5, <2>6, <2>7 DEF Batched
<1>6. CASE HaveMeshes
  <2>1. /\ stage = "meshing" /\ stage' = "pushing" /\ meshes' = joined /\ joined = items
        /\ UNCHANGED <<next, chunk, closed>>
    BY <1>6, Taken DEF HaveMeshes
  <2>2. EndsAt(meshes', next')
    BY <1>0, <2>1 DEF Batched, IsBatch
  <2>3. next' - left = pushed
    BY <1>0, <2>1
  <2> HIDE DEF left, EndsAt, o
  <2> QED BY <1>0, <1>1, <2>1, <2>2, <2>3 DEF Batched
<1>7. CASE meshes # <<>> /\ stage = "pushing" /\ (PushNothing \/ Push)
  <2>1. /\ meshes' = Tail(meshes) /\ next' = next /\ stage' # "meshing"
    BY <1>7 DEF PushNothing, Push
  <2>2. /\ Len(Tail(meshes)) = Len(meshes) - 1 /\ Len(meshes) \in Nat \ {0}
        /\ \A i \in 1..(Len(meshes) - 1) : Tail(meshes)[i] = meshes[i + 1]
    BY <1>7, ZippedIs
  <2>3. EndsAt(meshes', next')
    <3>1. EndsAt(meshes, next)
      BY <1>0 DEF Batched, IsBatch
    <3>2. Len(meshes') <= next'
      BY <1>0, <2>1, <2>2, <3>1
    <3>3. ASSUME NEW i \in 1..Len(meshes') PROVE meshes'[i] = o[(next' - Len(meshes')) + i]
      <4>1. i \in 1..(Len(meshes) - 1) /\ i + 1 \in 1..Len(meshes)
        BY <2>1, <2>2
      <4>2. meshes'[i] = meshes[i + 1]
        BY <2>1, <2>2, <4>1
      <4>3. meshes[i + 1] = o[(next - Len(meshes)) + (i + 1)]
        BY <3>1, <4>1
      <4>4. (next - Len(meshes)) + (i + 1) = (next' - Len(meshes')) + i
        BY <1>0, <2>1, <2>2, <4>1
      <4> HIDE DEF o
      <4> QED BY <4>2, <4>3, <4>4
    <3> QED BY <3>2, <3>3
  <2>4. next' - left = pushed + 1
    BY <1>0, <1>7, <2>1, <2>2
  <2>5. CASE PushNothing
    <3>1. UNCHANGED <<chunk, closed>>
      BY <2>5 DEF PushNothing
    <3> HIDE DEF left, EndsAt, o
    <3> QED BY <1>0, <1>1, <2>1, <2>3, <2>4, <3>1 DEF Batched
  <2>6. CASE Push
    <3>1. \/ closed' = Append(closed, Pushed) /\ chunk' = <<>>
          \/ UNCHANGED closed
      BY <2>6 DEF Push
    <3>2. Len(Append(closed, Pushed)) = Len(closed) + 1
      <4>1. Pushed \in Seq(Pairs) /\ closed \in Seq(Seq(Pairs))
        BY <1>0, <1>7, PushedChunk DEF PackTypeOK
      <4> QED BY <4>1, AppendProperties
    <3>3. (chunk' = <<>> /\ Len(closed') <= pushed + 1) \/ Len(closed') < pushed + 1
      BY <1>0, <3>1, <3>2 DEF Batched
    <3> HIDE DEF left, EndsAt, o
    <3> QED BY <1>0, <1>1, <2>1, <2>3, <2>4, <3>3
  <2> QED BY <1>7, <2>5, <2>6
<1>10. CASE CloseLast
  <2>1. /\ stage = "batching" /\ stage' # "meshing" /\ UNCHANGED <<next, meshes>>
        /\ closed' = WithLast /\ chunk' = <<>>
    BY <1>10 DEF CloseLast
  <2>2. Len(WithLast) <= pushed
    <3>1. CASE chunk = <<>>
      BY <1>0, <3>1 DEF WithLast, Batched
    <3>2. CASE chunk # <<>>
      <4>1. chunk \in Seq(Pairs) /\ closed \in Seq(Seq(Pairs))
        BY <1>0 DEF PackTypeOK
      <4>2. Len(Append(closed, chunk)) = Len(closed) + 1
        BY <4>1, AppendProperties
      <4> QED BY <1>0, <3>2, <4>2 DEF WithLast, Batched
    <3> QED BY <3>1, <3>2
  <2>3. next' - left = pushed
    BY <1>0, <2>1
  <2>4. EndsAt(meshes', next')
    BY <1>0, <2>1 DEF Batched, IsBatch
  <2> HIDE DEF left, EndsAt, o
  <2> QED BY <1>0, <1>1, <2>1, <2>2, <2>3, <2>4
<1>14. CASE Flushed
  <2>1. /\ stage = "writing" /\ stage' # "meshing" /\ UNCHANGED <<next, meshes, chunk>>
        /\ closed' = <<>>
    BY <1>14 DEF Flushed, Cleared
  <2>2. Len(closed') = 0
    BY <2>1
  <2>3. next' - left = pushed
    BY <1>0, <2>1
  <2>4. EndsAt(meshes', next')
    BY <1>0, <2>1 DEF Batched, IsBatch
  <2>5. chunk # <<>> => 0 < pushed
    BY <1>0 DEF Batched
  <2> HIDE DEF left, EndsAt, o
  <2> QED BY <1>0, <1>1, <2>1, <2>2, <2>3, <2>4, <2>5
<1>20. CASE Share
  <2>1. /\ UNCHANGED <<next, meshes, chunk, closed, stage>> /\ items' = items
    BY <1>20 DEF Share, chunkVars, Sharing, NothingToMap, Map, Join, Unwind
  <2> QED BY <1>2, <2>1
<1>21. CASE UNCHANGED vars
  BY <1>2, <1>21 DEF vars, chunkVars, sharingVars
<1>22. CASE \/ Open \/ BatchDone \/ DeflateChunks \/ HaveChunks \/ WriteChunk
            \/ WriteBounds \/ DeflateBlocks \/ HaveBlocks \/ WriteBlock
            \/ WriteManifest \/ WriteTrailer \/ WriteFails
  BY <1>2, <1>22 DEF Open, BatchDone, DeflateChunks, HaveChunks, WriteChunk, WriteBounds,
     DeflateBlocks, HaveBlocks, WriteBlock, WriteManifest, WriteTrailer, WriteFails,
     chunkVars
<1>23. CASE PushNothing \/ Push
  BY <1>7, <1>23 DEF PushNothing, Push
<1> QED
  BY <1>5, <1>6, <1>10, <1>14, <1>20, <1>21, <1>22, <1>23 DEF Next, Pack

\* Deflated chunks and blocks come back in order and are written one by one.
LEMMA DeflatedKept == ASSUME PackInv, [Next]_vars PROVE Deflated'
<1>0. /\ Deflated /\ InItsPlace /\ Given /\ PackTypeOK /\ along' = along
      /\ Len(closed) \in Nat /\ DOMAIN closed = 1..Len(closed)
      /\ Len(stored) \in Nat
      /\ manifest.blocks \in Seq(Nat) /\ Len(manifest.blocks) \in Nat
      /\ DivCeil(Len(along), PropertyBlock) \in Nat
  <2>1. closed \in Seq(Seq(Pairs)) /\ stored \in Seq(Nat) /\ manifest.blocks \in Seq(Nat)
    BY DEF PackInv, PackTypeOK
  <2> QED BY <2>1, InputsStay, LenProperties, BlocksAreFew DEF PackInv
<1> DEFINE q == DivCeil(Len(along), PropertyBlock)
           P == /\ stage' = "deflating" => items' = [i \in DOMAIN closed' |-> i]
                /\ stage' = "writing" =>
                     /\ Len(stored') <= Len(closed')
                     /\ \A i \in 1..Len(stored') :
                          stored'[i] = (Len(closed') - Len(stored')) + i
                /\ stage' = "packing" => items' = [b \in 1..q |-> b]
                /\ stage' = "blocks" =>
                     /\ Len(manifest'.blocks) + Len(stored') = q
                     /\ \A i \in 1..Len(stored') : stored'[i] = Len(manifest'.blocks) + i
                /\ stage' \in {"trailer", "done"} => Len(manifest'.blocks) = q
                /\ stage' \notin {"blocks", "trailer", "done", "failed"} =>
                     manifest'.blocks = <<>>
<1>1. P => Deflated'
  <2>1. q' = q
    BY <1>0
  <2> HIDE DEF q
  <2> QED BY <2>1 DEF Deflated, q
<1>2. /\ stage = "deflating" => items = [i \in DOMAIN closed |-> i]
      /\ stage = "writing" =>
           /\ Len(stored) <= Len(closed)
           /\ \A i \in 1..Len(stored) : stored[i] = (Len(closed) - Len(stored)) + i
      /\ stage = "packing" => items = [b \in 1..q |-> b]
      /\ stage = "blocks" =>
           /\ Len(manifest.blocks) + Len(stored) = q
           /\ \A i \in 1..Len(stored) : stored[i] = Len(manifest.blocks) + i
      /\ stage \in {"trailer", "done"} => Len(manifest.blocks) = q
      /\ stage \notin {"blocks", "trailer", "done", "failed"} => manifest.blocks = <<>>
  BY <1>0 DEF Deflated
<1>3. q \in Nat
  BY <1>0
<1> HIDE DEF q
<1> SUFFICES P
  BY <1>1
\* What is on hand has just been changed where the stage is one of these.
<1>4. CASE /\ manifest'.blocks = manifest.blocks
           /\ stage' \notin {"deflating", "writing", "packing", "blocks", "trailer", "done"}
           /\ stage' # "failed" => stage \notin {"blocks", "trailer", "done", "failed"}
  BY <1>2, <1>4
<1>5. CASE UNCHANGED <<stage, items, stored, closed, manifest>>
  BY <1>2, <1>5
<1>6. CASE Open \/ Tessellate \/ HaveMeshes \/ PushNothing \/ BatchDone
  BY <1>4, <1>6 DEF Open, Tessellate, HaveMeshes, PushNothing, BatchDone, chunkVars
<1>7. CASE Push
  <2>1. manifest'.blocks = manifest.blocks /\ stage = "pushing"
        /\ stage' \in {"pushing", "flushing"}
    BY <1>0, <1>7 DEF Push, PackTypeOK
  <2> QED BY <1>4, <2>1
<1>8. CASE CloseLast
  BY <1>4, <1>8 DEF CloseLast
<1>9. CASE DeflateChunks
  <2>1. /\ stage = "flushing" /\ stage' = "deflating" /\ items' = [i \in DOMAIN closed |-> i]
        /\ closed' = closed /\ manifest' = manifest
    BY <1>9 DEF DeflateChunks, MapInOrder, chunkVars
  <2> QED BY <1>2, <2>1
<1>10. CASE HaveChunks
  <2>1. /\ stage = "deflating" /\ stage' = "writing" /\ stored' = joined /\ joined = items
        /\ closed' = closed /\ manifest' = manifest
    BY <1>10, Taken DEF HaveChunks
  <2>2. stored' = [i \in 1..Len(closed) |-> i]
    BY <1>0, <1>2, <2>1
  <2>3. Len(stored') = Len(closed) /\ \A i \in 1..Len(stored') : stored'[i] = i
    BY <1>0, <2>2
  <2>4. \A i \in 1..Len(stored') : stored'[i] = (Len(closed') - Len(stored')) + i
    BY <1>0, <2>1, <2>3
  <2> QED BY <1>0, <1>2, <2>1, <2>3, <2>4
<1>11. CASE WriteChunk
  <2>1. /\ stage = "writing" /\ stage' = "writing" /\ stored # <<>> /\ stored' = Tail(stored)
        /\ closed' = closed /\ manifest'.blocks = manifest.blocks
    BY <1>0, <1>11 DEF WriteChunk, PackTypeOK
  <2>2. /\ Len(stored) \in Nat \ {0} /\ Len(Tail(stored)) = Len(stored) - 1
        /\ \A i \in 1..(Len(stored) - 1) : Tail(stored)[i] = stored[i + 1]
    <3>1. stored \in Seq(Nat)
      BY <1>0 DEF PackTypeOK
    <3> QED BY <2>1, <3>1, EmptySeq, LenProperties, HeadTailProperties
  <2>3. ASSUME NEW i \in 1..Len(stored') PROVE stored'[i] = (Len(closed') - Len(stored')) + i
    <3>1. i \in 1..(Len(stored) - 1) /\ i + 1 \in 1..Len(stored)
      BY <2>1, <2>2
    <3>2. stored'[i] = stored[i + 1] /\ stored[i + 1] = (Len(closed) - Len(stored)) + (i + 1)
      BY <1>2, <2>1, <2>2, <3>1
    <3>3. (Len(closed) - Len(stored)) + (i + 1) = (Len(closed') - Len(stored')) + i
      BY <1>0, <2>1, <2>2, <3>1
    <3> QED BY <3>2, <3>3
  <2>4. Len(stored') <= Len(closed')
    BY <1>0, <1>2, <2>1, <2>2
  <2> QED BY <1>2, <2>1, <2>3, <2>4
<1>12. CASE Flushed
  BY <1>4, <1>12 DEF Flushed
<1>13. CASE WriteBounds
  <2>1. manifest'.blocks = manifest.blocks
    BY <1>0, <1>13 DEF WriteBounds, PackTypeOK
  <2> QED BY <1>4, <1>13, <2>1 DEF WriteBounds
<1>14. CASE DeflateBlocks
  <2>1. /\ stage = "properties" /\ stage' = "packing" /\ items' = [b \in 1..q |-> b]
        /\ manifest' = manifest
    BY <1>14 DEF DeflateBlocks, MapInOrder, q
  <2> QED BY <1>2, <2>1
<1>15. CASE HaveBlocks
  <2>1. /\ stage = "packing" /\ stage' = "blocks" /\ stored' = joined /\ joined = items
        /\ manifest' = manifest
    BY <1>15, Taken DEF HaveBlocks
  <2>2. stored' = [i \in 1..q |-> i] /\ manifest'.blocks = <<>> /\ Len(<<>>) = 0
    BY <1>2, <2>1
  <2>3. Len(stored') = q /\ \A i \in 1..Len(stored') : stored'[i] = i
    BY <1>3, <2>2
  <2>4. \A i \in 1..Len(stored') : stored'[i] = Len(manifest'.blocks) + i
    BY <1>3, <2>2, <2>3
  <2> QED BY <1>3, <2>1, <2>2, <2>3, <2>4
<1>16. CASE WriteBlock
  <2> DEFINE bs == manifest.blocks
  <2>1. /\ stage = "blocks" /\ stage' = "blocks" /\ stored # <<>> /\ stored' = Tail(stored)
        /\ manifest'.blocks = Append(bs, Span)
    BY <1>0, <1>16 DEF WriteBlock, PackTypeOK
  <2>2. /\ Len(stored) \in Nat \ {0} /\ Len(Tail(stored)) = Len(stored) - 1
        /\ \A i \in 1..(Len(stored) - 1) : Tail(stored)[i] = stored[i + 1]
    <3>1. stored \in Seq(Nat)
      BY <1>0 DEF PackTypeOK
    <3> QED BY <2>1, <3>1, EmptySeq, LenProperties, HeadTailProperties
  <2>3. Len(Append(bs, Span)) = Len(bs) + 1
    <3>1. Span \in Nat
      <4>1. file \in Seq(Section)
        BY <1>0 DEF PackTypeOK
      <4> QED BY <4>1, LenProperties DEF Span, At
    <3> QED BY <1>0, <3>1, AppendProperties
  <2>4. ASSUME NEW i \in 1..Len(stored') PROVE stored'[i] = Len(manifest'.blocks) + i
    <3>1. i \in 1..(Len(stored) - 1) /\ i + 1 \in 1..Len(stored)
      BY <2>1, <2>2
    <3>2. stored'[i] = stored[i + 1] /\ stored[i + 1] = Len(bs) + (i + 1)
      BY <1>2, <2>1, <2>2, <3>1
    <3>3. Len(manifest'.blocks) = Len(bs) + 1 /\ Len(bs) \in Nat
      BY <1>0, <2>1, <2>3
    <3> HIDE DEF bs
    <3> QED BY <3>2, <3>3
  <2>5. Len(manifest'.blocks) + Len(stored') = q
    <3>1. Len(manifest'.blocks) = Len(bs) + 1 /\ Len(bs) \in Nat
      BY <1>0, <2>1, <2>3
    <3>2. Len(stored') = Len(stored) - 1 /\ Len(bs) + Len(stored) = q
      BY <1>2, <2>1, <2>2
    <3> HIDE DEF bs
    <3> QED BY <2>2, <3>1, <3>2
  <2> QED BY <2>1, <2>4, <2>5
<1>17. CASE WriteManifest
  <2>1. /\ stage = "blocks" /\ stage' = "trailer" /\ stored = <<>> /\ manifest' = manifest
    BY <1>17 DEF WriteManifest
  <2>2. Len(stored) = 0
    BY <2>1
  <2>3. Len(manifest.blocks) = q
    BY <1>0, <1>2, <1>3, <2>1, <2>2
  <2> QED BY <2>1, <2>3
<1>18. CASE WriteTrailer
  BY <1>2, <1>18 DEF WriteTrailer
<1>19. CASE Share
  <2>1. UNCHANGED <<stage, items, stored, closed, manifest>>
    BY <1>19 DEF Share, chunkVars, Sharing, NothingToMap, Map, Join, Unwind
  <2> QED BY <1>5, <2>1
<1>20. CASE WriteFails
  BY <1>4, <1>20 DEF WriteFails
<1>21. CASE UNCHANGED vars
  BY <1>5, <1>21 DEF vars, chunkVars, sharingVars
<1> QED
  BY <1>6, <1>7, <1>8, <1>9, <1>10, <1>11, <1>12, <1>13, <1>14, <1>15, <1>16, <1>17,
     <1>18, <1>19, <1>20, <1>21 DEF Next, Pack

LEMMA FrontOfNone == Front(<<>>) = <<>>
<1>1. Len(<<>>) = 0 /\ Front(<<>>) = SubSeq(<<>>, 1, Len(<<>>) - 1)
  BY DEF Front
<1> QED
  BY <1>1

\* The chunks keep their budget, the one that is filled and those behind it.
LEMMA BudgetKept == ASSUME PackInv, [Next]_vars PROVE Budgeted'
<1>0. /\ Budgeted /\ InItsPlace /\ Given /\ PackTypeOK /\ mesh' = mesh
      /\ chunk \in Seq(Pairs)
      /\ closed \in Seq(Seq(Pairs)) /\ Len(closed) \in Nat
      /\ manifest.chunks \in Seq(Noting) /\ Len(manifest.chunks) \in Nat
  <2>1. /\ closed \in Seq(Seq(Pairs)) /\ chunk \in Seq(Pairs)
        /\ manifest.chunks \in Seq(Noting)
    BY DEF PackInv, PackTypeOK
  <2> QED BY <2>1, InputsStay, LenProperties DEF PackInv
<1> DEFINE F(c) == Triangles(mesh, c) >= Budget
           L(c) == Triangles(mesh, Front(c)) < Budget
           h(j) == manifest.chunks[j].holds
           n == Len(manifest.chunks)
           W == stage \in {"flushing", "deflating"} \/ (stage = "writing" /\ stored # <<>>)
           Closed(c, f) == \A j \in 1..Len(c) : L(c[j]) /\ (F(c[j]) \/ (f /\ j = Len(c)))
           Notes(cs, c, f) ==
             \A j \in 1..Len(cs) :
               /\ L(cs[j].holds)
               /\ F(cs[j].holds) \/ (f /\ j = Len(cs) /\ (c # <<>> => cs[j].holds = c[Len(c)]))
           AllFull(cs) == \A j \in 1..Len(cs) : F(cs[j].holds)
           P == /\ ~F(chunk') /\ L(chunk')
                /\ Closed(closed', final')
                /\ Notes(manifest'.chunks, closed', final')
                /\ W' => AllFull(manifest'.chunks)
<1>1. P => Budgeted'
  BY <1>0 DEF Budgeted, Fills, LastFills
<1>2. /\ ~F(chunk) /\ L(chunk)
      /\ Closed(closed, final)
      /\ Notes(manifest.chunks, closed, final)
      /\ W => AllFull(manifest.chunks)
  BY <1>0 DEF Budgeted, Fills, LastFills
<1>3. ~F(<<>>) /\ L(<<>>) /\ (\A c : Full(c) <=> F(c)) /\ Closed(<<>>, final)
      /\ (\A f : Closed(<<>>, f))
  <2>1. Triangles(mesh, <<>>) = 0
    BY <1>0, TrianglesAre
  <2>2. \A c : Full(c) <=> F(c)
    BY InTermsOfMeshes DEF Full
  <2>3. Len(<<>>) = 0
    OBVIOUS
  <2> QED BY <2>1, <2>2, <2>3, FrontOfNone, PackBounds
<1>4. ~final => AllFull(manifest.chunks)
  BY <1>2
<1>5. \A x : x \in Seq(Pairs) =>
        /\ Len(Append(closed, x)) = Len(closed) + 1
        /\ \A j \in 1..Len(closed) : Append(closed, x)[j] = closed[j]
        /\ Append(closed, x)[Len(closed) + 1] = x
  BY <1>0, AppendProperties
<1> HIDE DEF F, L
<1>6. CASE /\ UNCHANGED <<chunk, closed, final>> /\ manifest'.chunks = manifest.chunks
           /\ W' => W
  BY <1>1, <1>2, <1>6
<1>7. CASE Push
  <2>1. /\ manifest'.chunks = manifest.chunks /\ ~final /\ final' = final
        /\ stage = "pushing" /\ meshes # <<>>
    BY <1>0, <1>7 DEF Push, PackTypeOK, InItsPlace, Early
  <2>2. Pushed \in Seq(Pairs) /\ Front(Pushed) = chunk
    BY <2>1, PushedChunk
  <2>3. L(Pushed)
    BY <1>0, <1>2, <2>2, TrianglesAre, PackBounds DEF L, F
  <2>4. AllFull(manifest'.chunks) /\ Notes(manifest'.chunks, closed', final')
    BY <1>2, <1>4, <2>1
  <2>5. CASE Full(Pushed)
    <3>1. closed' = Append(closed, Pushed) /\ chunk' = <<>>
      BY <1>7, <2>5 DEF Push
    <3>2. Closed(closed', final')
      <4> SUFFICES ASSUME NEW j \in 1..Len(closed')
                   PROVE  L(closed'[j]) /\ F(closed'[j])
        OBVIOUS
      <4>1. j \in 1..Len(closed) \/ j = Len(closed) + 1
        BY <1>0, <1>5, <2>2, <3>1
      <4>2. CASE j \in 1..Len(closed)
        BY <1>2, <1>5, <2>1, <2>2, <3>1, <4>2
      <4>3. CASE j = Len(closed) + 1
        BY <1>3, <1>5, <2>2, <2>3, <2>5, <3>1, <4>3
      <4> QED BY <4>1, <4>2, <4>3
    <3> HIDE DEF Closed, Notes, AllFull, W
    <3> QED BY <1>1, <1>3, <2>4, <3>1, <3>2
  <2>6. CASE ~Full(Pushed)
    <3>1. closed' = closed /\ chunk' = Pushed
      BY <1>7, <2>6 DEF Push
    <3> HIDE DEF Closed, Notes, AllFull, W
    <3> QED BY <1>1, <1>2, <1>3, <2>1, <2>3, <2>4, <2>6, <3>1
  <2> QED BY <2>5, <2>6
<1>8. CASE CloseLast
  <2>1. /\ manifest' = manifest /\ ~final /\ final' /\ stage = "batching"
        /\ closed' = WithLast /\ chunk' = <<>>
    BY <1>0, <1>8 DEF CloseLast, InItsPlace, Early
  <2>2. AllFull(manifest'.chunks) /\ Notes(manifest'.chunks, closed', final')
    BY <1>2, <1>4, <2>1
  <2>3. Closed(closed', final')
    <3>1. CASE chunk = <<>>
      <4>1. closed' = closed
        BY <2>1, <3>1 DEF WithLast
      <4> QED BY <1>2, <2>1, <4>1
    <3>2. CASE chunk # <<>>
      <4>1. closed' = Append(closed, chunk)
        BY <2>1, <3>2 DEF WithLast
      <4> SUFFICES ASSUME NEW j \in 1..Len(closed')
                   PROVE  L(closed'[j]) /\ (F(closed'[j]) \/ (final' /\ j = Len(closed')))
        OBVIOUS
      <4>2. j \in 1..Len(closed) \/ (j = Len(closed) + 1 /\ j = Len(closed'))
        BY <1>0, <1>5, <4>1
      <4>3. CASE j \in 1..Len(closed)
        BY <1>0, <1>2, <1>5, <2>1, <4>1, <4>3
      <4>4. CASE j = Len(closed) + 1 /\ j = Len(closed')
        BY <1>0, <1>2, <1>5, <2>1, <4>1, <4>4
      <4> QED BY <4>2, <4>3, <4>4
    <3> QED BY <3>1, <3>2
  <2> HIDE DEF Closed, Notes, AllFull, W
  <2> QED BY <1>1, <1>3, <2>1, <2>2, <2>3
<1>9. CASE WriteChunk
  <2> DEFINE cs == manifest.chunks
             k == (Len(closed) - Len(stored)) + 1
             r == [at |-> Span, holds |-> Noted]
  <2>1. /\ stage = "writing" /\ stage' = "writing" /\ stored # <<>> /\ stored' = Tail(stored)
        /\ UNCHANGED <<chunk, closed, final>>
        /\ manifest'.chunks = Append(cs, r)
    BY <1>0, <1>9 DEF WriteChunk, PackTypeOK
  <2>2. /\ Len(stored) \in Nat \ {0} /\ Len(stored') = Len(stored) - 1
        /\ (stored' # <<>> => Len(stored') # 0)
    <3>1. stored \in Seq(Nat)
      BY <1>0 DEF PackTypeOK
    <3>2. Tail(stored) \in Seq(Nat)
      BY <2>1, <3>1, HeadTailProperties
    <3> QED BY <2>1, <3>1, <3>2, EmptySeq, LenProperties, HeadTailProperties
  <2>3. k \in 1..Len(closed) /\ Noted = closed[k] /\ r.holds = closed[k]
    BY <1>0, <2>1, <2>2 DEF PackInv, Deflated, Noted
  <2>4. r \in Noting
    <3>1. closed[k] \in Seq(Pairs)
      BY <1>0, <2>3, ElementOfSeq
    <3>2. Span \in Nat
      <4>1. file \in Seq(Section)
        BY <1>0 DEF PackTypeOK
      <4> QED BY <4>1, LenProperties DEF Span, At
    <3> QED BY <2>3, <3>1, <3>2 DEF Noting
  <2>5. L(closed[k]) /\ (F(closed[k]) \/ (final /\ k = Len(closed)))
    BY <1>2, <2>3
  <2>6. stored' # <<>> => k # Len(closed)
    BY <1>0, <2>2
  <2>7. k = Len(closed) \/ F(closed[k])
    BY <2>5
  <2>8. AllFull(cs)
    BY <1>2, <2>1
  <2>9. closed # <<>> => (k = Len(closed) => closed[k] = closed[Len(closed)])
    OBVIOUS
  <2> HIDE DEF r, k
  <2>10. /\ Len(Append(cs, r)) = Len(cs) + 1
         /\ \A j \in 1..Len(cs) : Append(cs, r)[j] = cs[j]
         /\ Append(cs, r)[Len(cs) + 1] = r
    BY <1>0, <2>4, AppendProperties
  <2> DEFINE ds == manifest'.chunks
  <2>11. /\ Len(ds) = Len(cs) + 1 /\ Len(cs) \in Nat
         /\ \A j \in 1..Len(cs) : ds[j] = cs[j]
         /\ ds[Len(cs) + 1] = r
    BY <1>0, <2>1, <2>10
  <2>12. \A j \in 1..Len(cs) : L(cs[j].holds) /\ F(cs[j].holds)
    BY <1>2, <2>8
  <2> HIDE DEF ds, cs
  <2>13. Notes(ds, closed, final)
    <3> SUFFICES ASSUME NEW j \in 1..Len(ds)
                 PROVE  /\ L(ds[j].holds)
                        /\ F(ds[j].holds) \/ (final /\ j = Len(ds)
                             /\ (closed # <<>> => ds[j].holds = closed[Len(closed)]))
      OBVIOUS
    <3>1. j \in 1..Len(cs) \/ (j = Len(cs) + 1 /\ j = Len(ds))
      BY <2>11
    <3>2. CASE j \in 1..Len(cs)
      BY <2>11, <2>12, <3>2
    <3>3. CASE j = Len(cs) + 1 /\ j = Len(ds)
      BY <2>3, <2>5, <2>11, <3>3
    <3> QED BY <3>1, <3>2, <3>3
  <2>14. stored' # <<>> => AllFull(ds)
    <3> SUFFICES ASSUME stored' # <<>>, NEW j \in 1..Len(ds) PROVE F(ds[j].holds)
      OBVIOUS
    <3>1. j \in 1..Len(cs) \/ j = Len(cs) + 1
      BY <2>11
    <3>2. CASE j \in 1..Len(cs)
      BY <2>11, <2>12, <3>2
    <3>3. CASE j = Len(cs) + 1
      BY <2>3, <2>6, <2>7, <2>11, <3>3
    <3> QED BY <3>1, <3>2, <3>3
  <2>15. W' => stored' # <<>>
    BY <2>1
  <2>16. Notes(manifest'.chunks, closed', final') /\ (W' => AllFull(manifest'.chunks))
    BY <2>1, <2>13, <2>14, <2>15 DEF ds
  <2>17. Closed(closed', final') /\ ~F(chunk') /\ L(chunk')
    BY <1>2, <2>1
  <2> HIDE DEF Closed, Notes, AllFull, W
  <2> QED BY <1>1, <2>16, <2>17
<1>10. CASE Flushed
  <2>1. /\ stage' \in {"bounds", "pushing"} /\ UNCHANGED <<chunk, final>>
        /\ manifest' = manifest /\ closed' = <<>>
    BY <1>10 DEF Flushed, Cleared
  <2>2. Notes(manifest'.chunks, closed', final')
    BY <1>2, <2>1
  <2>3. ~W'
    BY <2>1
  <2> HIDE DEF Closed, Notes, AllFull, W
  <2> QED BY <1>1, <1>2, <1>3, <2>1, <2>2, <2>3
<1>11. CASE WriteBounds
  <2>1. manifest'.chunks = manifest.chunks
    BY <1>0, <1>11 DEF WriteBounds, PackTypeOK
  <2> QED BY <1>6, <1>11, <2>1 DEF WriteBounds, chunkVars
<1>12. CASE WriteBlock
  <2>1. manifest'.chunks = manifest.chunks
    BY <1>0, <1>12 DEF WriteBlock, PackTypeOK
  <2> QED BY <1>6, <1>12, <2>1 DEF WriteBlock
<1>13. CASE \/ Open \/ Tessellate \/ HaveMeshes \/ PushNothing \/ BatchDone
            \/ DeflateChunks \/ HaveChunks \/ DeflateBlocks \/ HaveBlocks
            \/ WriteManifest \/ WriteTrailer \/ Share \/ WriteFails
  BY <1>6, <1>13 DEF Open, Tessellate, HaveMeshes, PushNothing, BatchDone, DeflateChunks,
     HaveChunks, DeflateBlocks, HaveBlocks, WriteManifest, WriteTrailer, Share, WriteFails,
     chunkVars
<1>14. CASE UNCHANGED vars
  BY <1>6, <1>14 DEF vars, chunkVars
<1> QED
  BY <1>7, <1>8, <1>9, <1>10, <1>11, <1>12, <1>13, <1>14 DEF Next, Pack

\* A chunk is closed by the element that fills its budget and by no later
\* one, and only the last one before that.
LEMMA BudgetFollows == PackInv => ChunksKeepTheirBudget
<1> SUFFICES ASSUME PackInv PROVE ChunksKeepTheirBudget
  OBVIOUS
<1> DEFINE held == [i \in DOMAIN manifest.chunks |-> manifest.chunks[i].holds]
           all == held \o closed
           n == Len(manifest.chunks)
           m == Len(closed)
<1>1. manifest.chunks \in Seq(Noting) /\ closed \in Seq(Seq(Pairs))
  BY DEF PackInv, PackTypeOK
<1>2. held \in Seq(Seq(Pairs)) /\ Len(held) = n /\ n \in Nat /\ m \in Nat
      /\ \A i \in 1..n : held[i] = manifest.chunks[i].holds
  <2>1. held = HoldsOf(manifest.chunks)
    BY DEF HoldsOf
  <2>2. \A u \in Noting : u.holds \in Seq(Pairs)
    BY DEF Noting
  <2> HIDE DEF held
  <2> QED BY <1>1, <2>1, <2>2, HoldsAre, LenProperties
<1> HIDE DEF held, n, m
<1>3. /\ Len(all) = n + m /\ DOMAIN all = 1..(n + m)
      /\ \A i \in 1..n : all[i] = held[i]
      /\ \A i \in (n + 1)..(n + m) : all[i] = closed[i - n]
  <2>1. /\ Len(all) = n + m /\ all \in Seq(Seq(Pairs))
        /\ \A i \in 1..(n + m) : all[i] = IF i <= n THEN held[i] ELSE closed[i - n]
    BY <1>1, <1>2, ConcatProperties DEF m
  <2>2. DOMAIN all = 1..Len(all)
    <3> HIDE DEF all
    <3> QED BY <2>1, LenProperties
  <2> HIDE DEF all
  <2> QED BY <1>2, <2>1, <2>2
<1>4. Last(all) = all[Len(all)]
  BY DEF Last
<1> HIDE DEF all
<1> SUFFICES ASSUME NEW i \in DOMAIN all
             PROVE  /\ triangle_count(Front(all[i])) < Budget
                    /\ \/ triangle_count(all[i]) >= Budget
                       \/ final /\ all[i] = Last(all)
  BY DEF ChunksKeepTheirBudget, all, held
<1>5. /\ LastFills(all[i]) <=> triangle_count(Front(all[i])) < Budget
      /\ Fills(all[i]) <=> triangle_count(all[i]) >= Budget
  BY InTermsOfMeshes DEF LastFills, Fills
<1>6. CASE i \in 1..n
  <2>1. all[i] = manifest.chunks[i].holds
    BY <1>2, <1>3, <1>6
  <2>2. /\ LastFills(all[i])
        /\ \/ Fills(all[i])
           \/ final /\ i = n /\ (closed # <<>> => all[i] = closed[m])
    BY <1>6, <2>1 DEF PackInv, Budgeted, n, m
  <2>3. i = n /\ (closed # <<>> => all[i] = closed[m]) => all[i] = Last(all)
    <3>1. CASE closed = <<>>
      <4>1. m = 0
        BY <3>1 DEF m
      <4> QED BY <1>2, <1>3, <1>4, <4>1
    <3>2. CASE closed # <<>>
      <4>1. m # 0
        BY <1>1, <3>2, EmptySeq DEF m
      <4>2. all[n + m] = closed[m]
        BY <1>2, <1>3, <4>1
      <4> QED BY <1>3, <1>4, <3>2, <4>2
    <3> QED BY <3>1, <3>2
  <2> QED BY <1>5, <2>2, <2>3
<1>7. CASE i \in (n + 1)..(n + m)
  <2> DEFINE j == i - n
  <2>1. j \in 1..m /\ all[i] = closed[j] /\ (j = m => i = n + m)
    BY <1>2, <1>3, <1>7
  <2> HIDE DEF j
  <2>2. LastFills(all[i]) /\ (Fills(all[i]) \/ (final /\ j = m))
    BY <2>1 DEF PackInv, Budgeted, m
  <2> QED BY <1>3, <1>4, <1>5, <2>1, <2>2
<1> QED
  BY <1>2, <1>3, <1>6, <1>7

LEMMA ConcatAppend ==
  ASSUME NEW T, NEW a \in Seq(T), NEW b \in Seq(T), NEW x \in T
  PROVE  a \o Append(b, x) = Append(a \o b, x)
<1> DEFINE y == <<x>>
           ab == a \o b
<1>1. y \in Seq(T) /\ ab \in Seq(T)
  BY ConcatProperties
<1>2. Append(b, x) = b \o y /\ Append(ab, x) = ab \o y
  <2> HIDE DEF ab
  <2> QED BY <1>1, AppendIsConcat DEF y
<1>3. a \o (b \o y) = (a \o b) \o y
  <2> HIDE DEF y
  <2> QED BY <1>1, ConcatAssociative, SMTT(30)
<1> QED
  BY <1>2, <1>3

\* A step pushes an element or none.
LEMMA PushedGrows ==
  ASSUME PackInv, PushNothing \/ Push
  PROVE  pushed' = pushed + 1
<1>1. /\ stage = "pushing" /\ meshes # <<>> /\ meshes' = Tail(meshes) /\ next' = next
      /\ stage' # "meshing"
  BY DEF PushNothing, Push
<1>2. Len(meshes') = Len(meshes) - 1 /\ Len(meshes) \in Nat \ {0}
  BY <1>1, ZippedIs
<1>3. pushed = next - Len(meshes) /\ next \in Nat
  BY <1>1, PushedIs
<1>4. pushed' = next' - Len(meshes')
  BY <1>1 DEF pushed
<1> QED
  BY <1>1, <1>2, <1>3, <1>4

LEMMA PushedStays ==
  ASSUME PackInv, [Next]_vars, ~PushNothing, ~Push
  PROVE  pushed' = pushed
<1>0. /\ next \in 0..Places /\ Given /\ next \in Nat
      /\ (stage # "meshing" => pushed = next - Len(meshes))
      /\ (stage = "meshing" => pushed = next - Len(items))
  BY PushedIs DEF PackInv, PackTypeOK
<1>1. CASE Tessellate
  <2>1. stage' = "meshing" /\ items' = Batch /\ next' = next + Len(Batch)
        /\ stage = "batching" /\ meshes = <<>> /\ Len(<<>>) = 0
    BY <1>1 DEF Tessellate, MapInOrder, PackInv, InItsPlace
  <2>2. pushed' = next' - Len(items') /\ pushed = next - Len(meshes)
    BY <1>0, <2>1 DEF pushed
  <2>3. Len(Batch) \in Nat
    BY <1>0, BatchIs
  <2> QED BY <1>0, <2>1, <2>2, <2>3
<1>2. CASE HaveMeshes
  <2>1. stage = "meshing" /\ stage' = "pushing" /\ meshes' = items /\ next' = next
    BY <1>2, Taken DEF HaveMeshes
  <2> QED BY <1>0, <2>1 DEF pushed
<1>3. CASE UNCHANGED <<next, meshes>> /\ stage # "meshing" /\ stage' # "meshing"
  BY <1>3 DEF pushed
<1>4. CASE UNCHANGED <<next, meshes, stage, items>>
  BY <1>4 DEF pushed
<1>5. CASE Share
  BY <1>4, <1>5 DEF Share, chunkVars, Sharing, NothingToMap, Map, Join, Unwind
<1>6. CASE UNCHANGED vars
  BY <1>4, <1>6 DEF vars, chunkVars, sharingVars
<1>7. CASE \/ Open \/ BatchDone \/ CloseLast \/ DeflateChunks \/ HaveChunks \/ WriteChunk
           \/ Flushed \/ WriteBounds \/ DeflateBlocks \/ HaveBlocks \/ WriteBlock
           \/ WriteManifest \/ WriteTrailer \/ WriteFails
  BY <1>3, <1>7 DEF Open, BatchDone, CloseLast, DeflateChunks, HaveChunks, WriteChunk,
     Flushed, WriteBounds, DeflateBlocks, HaveBlocks, WriteBlock, WriteManifest,
     WriteTrailer, WriteFails, chunkVars
<1> QED
  BY <1>1, <1>2, <1>5, <1>6, <1>7 DEF Next, Pack

LEMMA HoldsAreChunks ==
  ASSUME PackTypeOK
  PROVE  /\ HoldsOf(manifest.chunks) \in Seq(Seq(Pairs))
         /\ \A x \in Noting : HoldsOf(Append(manifest.chunks, x)) =
                                Append(HoldsOf(manifest.chunks), x.holds)
<1>1. manifest.chunks \in Seq(Noting) /\ \A u \in Noting : u.holds \in Seq(Pairs)
  BY DEF PackTypeOK, Noting
<1> DEFINE T == Seq(Pairs)
           s == manifest.chunks
<1>2. s \in Seq(Noting) /\ \A u \in Noting : u.holds \in T
  BY <1>1
<1> HIDE DEF T, s
<1>3. HoldsOf(s) \in Seq(T)
  BY <1>2, HoldsAre
<1>4. \A x \in Noting : HoldsOf(Append(s, x)) = Append(HoldsOf(s), x.holds)
  BY <1>2, HoldsAppend
<1> QED
  BY <1>3, <1>4 DEF T, s

\* A chunk that is closed, after those there are.
LEMMA ClosedAfter ==
  ASSUME NEW T, NEW h \in Seq(Seq(T)), NEW c \in Seq(Seq(T)), NEW x \in Seq(T)
  PROVE  FlattenSeq(h \o Append(c, x)) \o <<>> = FlattenSeq(h \o c) \o x
<1> DEFINE a == h \o c
<1>1. a \in Seq(Seq(T))
  BY ConcatProperties
<1>2. h \o Append(c, x) = Append(a, x)
  BY ConcatAppend
<1> HIDE DEF a
<1>3. FlattenSeq(Append(a, x)) = FlattenSeq(a) \o x
  BY <1>1, FlattenAppend
<1> DEFINE f == FlattenSeq(Append(a, x))
<1>4. f \in Seq(T)
  <2>1. Append(a, x) \in Seq(Seq(T))
    BY <1>1, AppendProperties
  <2> QED BY <2>1, FlattenIsSeq
<1>5. f \o <<>> = f
  <2> HIDE DEF f
  <2> QED BY <1>4, ConcatEmptySeq
<1> QED
  BY <1>2, <1>3, <1>5 DEF a

\* The chunks, from the first that was written to the one being filled, hold
\* what has been pushed: pushing adds to it, and closing, deflating, writing
\* and clearing move it from one place to the next.
LEMMA NoneIsLost == ASSUME PackInv, [Next]_vars PROVE NothingLost'
<1> DEFINE d(i) == DrawnTo(along, mesh, i)
           h == HoldsOf(manifest.chunks)
           P == stage' # "failed" =>
                  /\ FlattenSeq(AllChunks') \o chunk' = d(pushed')
                  /\ manifest'.marks = Firsts(d(pushed'))
<1>0. /\ NothingLost /\ InItsPlace /\ Given /\ PackTypeOK
      /\ along' = along /\ mesh' = mesh
      /\ chunk \in Seq(Pairs)
      /\ closed \in Seq(Seq(Pairs)) /\ Len(closed) \in Nat
      /\ h \in Seq(Seq(Pairs))
  <2>1. /\ closed \in Seq(Seq(Pairs)) /\ chunk \in Seq(Pairs)
    BY DEF PackInv, PackTypeOK
  <2> QED BY <2>1, InputsStay, HoldsAreChunks, LenProperties DEF PackInv
<1>1. P => NothingLost'
  <2>1. \A i : DrawnTo(along, mesh, i)' = d(i)
    BY <1>0
  <2>2. DrawnTo(along, mesh, pushed)' = d(pushed')
    BY <1>0
  <2> HIDE DEF d
  <2> QED BY <2>2 DEF NothingLost
<1>2. stage # "failed" =>
        /\ FlattenSeq(AllChunks) \o chunk = d(pushed)
        /\ manifest.marks = Firsts(d(pushed))
  BY <1>0 DEF NothingLost
<1>3. stage # "writing" => AllChunks = h \o closed
  BY DEF AllChunks, Unwritten
<1>4. stage' # "writing" => AllChunks' = HoldsOf(manifest'.chunks) \o closed'
  BY DEF AllChunks, Unwritten
<1> SUFFICES P
  BY <1>1
<1> HIDE DEF d
<1>5. CASE /\ ~PushNothing /\ ~Push /\ stage # "failed"
           /\ UNCHANGED <<chunk, closed>>
           /\ manifest'.chunks = manifest.chunks /\ manifest'.marks = manifest.marks
           /\ stage # "writing" /\ stage' # "writing"
  <2>1. pushed' = pushed
    BY <1>5, PushedStays
  <2>2. AllChunks' = AllChunks
    BY <1>3, <1>4, <1>5
  <2> QED BY <1>2, <1>5, <2>1, <2>2
<1>6. CASE ~PushNothing /\ ~Push /\ UNCHANGED <<chunk, closed, manifest, stage, stored>>
  <2>1. pushed' = pushed
    BY <1>6, PushedStays
  <2>2. AllChunks' = AllChunks
    BY <1>6 DEF AllChunks, Unwritten
  <2> QED BY <1>2, <1>6, <2>1, <2>2
<1>7. CASE PushNothing
  <2>1. /\ stage = "pushing" /\ stage' = stage /\ meshes # <<>> /\ mesh[meshes[1]] = Hollow
        /\ UNCHANGED <<chunk, closed, manifest>> /\ pushed' = pushed + 1
    BY <1>7, PushedGrows DEF PushNothing
  <2>2. pushed + 1 \in 1..Places /\ meshes[1] = Order(along, mesh)[pushed + 1] /\ pushed \in Nat
    BY <2>1, ZippedIs, PushedIs
  <2>3. d(pushed + 1) = d(pushed)
    <3>1. (pushed + 1) - 1 = pushed
      BY <2>2
    <3> DEFINE n == pushed + 1
    <3>2. n \in 1..Places /\ mesh[Order(along, mesh)[n]] = Hollow /\ n - 1 = pushed
      BY <2>1, <2>2, <3>1
    <3> HIDE DEF n
    <3>3. d(n) = d(n - 1)
      BY <1>0, <3>2, DrawnUnfolds DEF d
    <3> QED BY <3>2, <3>3 DEF n
  <2>4. AllChunks' = AllChunks
    BY <1>3, <1>4, <2>1
  <2> QED BY <1>2, <2>1, <2>3, <2>4
<1>8. CASE Push
  <2> DEFINE z == <<Zipped, Zipped>>
             f == FlattenSeq(AllChunks)
  <2>1. /\ stage = "pushing" /\ stage' # "writing" /\ meshes # <<>>
        /\ mesh[meshes[1]] # Hollow
        /\ manifest'.chunks = manifest.chunks
        /\ manifest'.marks = manifest.marks \union {Zipped}
        /\ pushed' = pushed + 1
    BY <1>0, <1>8, PushedGrows DEF Push, PackTypeOK
  <2>2. /\ pushed + 1 \in 1..Places /\ meshes[1] = Order(along, mesh)[pushed + 1]
        /\ pushed \in Nat /\ Zipped = meshes[1]
    BY <2>1, ZippedIs, PushedIs
  <2>3. z \in Pairs /\ Pushed = Append(chunk, z) /\ Pushed \in Seq(Pairs) /\ z[1] = Zipped
    BY <2>1, PushedChunk
  <2>4. d(pushed + 1) = Append(d(pushed), z) /\ d(pushed) \in Seq(Pairs)
    <3> DEFINE n == pushed + 1
               e == Order(along, mesh)[n]
    <3>1. n \in 1..Places /\ n - 1 = pushed /\ n - 1 \in 0..Places
      BY <2>2, OrderFacts, <1>0
    <3>2. e = Zipped /\ mesh[e] # Hollow
      BY <2>1, <2>2
    <3> HIDE DEF n
    <3>3. d(n) = Append(d(n - 1), <<e, e>>) /\ d(n - 1) \in Seq(Pairs)
      BY <1>0, <3>1, <3>2, DrawnUnfolds DEF d
    <3> HIDE DEF e
    <3> QED BY <3>1, <3>2, <3>3 DEF n
  <2>5. f \o chunk = d(pushed) /\ manifest.marks = Firsts(d(pushed))
    BY <1>2, <2>1
  <2> HIDE DEF z
  <2>6. f \in Seq(Pairs)
    <3>1. AllChunks \in Seq(Seq(Pairs))
      <4> HIDE DEF h
      <4>1. h \o closed \in Seq(Seq(Pairs))
        BY <1>0, ConcatProperties
      <4> QED BY <1>3, <2>1, <4>1
    <3> QED BY <3>1, FlattenIsSeq
  <2>7. f \o Pushed = d(pushed')
    <3> HIDE DEF f
    <3>1. f \o Append(chunk, z) = Append(f \o chunk, z)
      BY <1>0, <2>3, <2>6, ConcatAppend
    <3> QED BY <2>1, <2>3, <2>4, <2>5, <3>1
  <2>8. FlattenSeq(AllChunks') \o chunk' = f \o Pushed
    <3>1. AllChunks' = h \o closed' /\ AllChunks = h \o closed
      BY <1>3, <1>4, <2>1
    <3>2. CASE Full(Pushed)
      <4>1. closed' = Append(closed, Pushed) /\ chunk' = <<>>
        BY <1>8, <3>2 DEF Push
      <4> DEFINE p == Pushed
      <4>2. FlattenSeq(h \o Append(closed, p)) \o <<>> = FlattenSeq(h \o closed) \o p
        <5>1. p \in Seq(Pairs) /\ h \in Seq(Seq(Pairs)) /\ closed \in Seq(Seq(Pairs))
          BY <1>0, <2>3
        <5> HIDE DEF h, p
        <5> QED BY <5>1, ClosedAfter
      <4> HIDE DEF h
      <4> QED BY <3>1, <4>1, <4>2
    <3>3. CASE ~Full(Pushed)
      <4>1. closed' = closed /\ chunk' = Pushed
        BY <1>8, <3>3 DEF Push
      <4> QED BY <3>1, <4>1
    <3> QED BY <3>2, <3>3
  <2>9. manifest'.marks = Firsts(d(pushed'))
    <3>1. Firsts(Append(d(pushed), z)) = Firsts(d(pushed)) \union {Zipped}
      BY <2>3, <2>4, FirstsGrow
    <3> QED BY <2>1, <2>4, <2>5, <3>1
  <2> QED BY <2>7, <2>8, <2>9
<1>9. CASE CloseLast
  <2>1. /\ stage = "batching" /\ stage' # "writing" /\ manifest' = manifest
        /\ closed' = WithLast /\ chunk' = <<>> /\ pushed' = pushed
    BY <1>9, PushedStays DEF CloseLast, PushNothing, Push
  <2>2. AllChunks' = h \o WithLast /\ AllChunks = h \o closed
    BY <1>3, <1>4, <2>1
  <2>3. FlattenSeq(AllChunks') \o chunk' = FlattenSeq(AllChunks) \o chunk
    <3>1. CASE chunk = <<>>
      BY <2>1, <2>2, <3>1 DEF WithLast
    <3>2. CASE chunk # <<>>
      <4>1. WithLast = Append(closed, chunk)
        BY <3>2 DEF WithLast
      <4> HIDE DEF h
      <4>2. FlattenSeq(h \o Append(closed, chunk)) \o <<>> = FlattenSeq(h \o closed) \o chunk
        BY <1>0, ClosedAfter
      <4> QED BY <2>1, <2>2, <4>1, <4>2
    <3> QED BY <3>1, <3>2
  <2> QED BY <1>2, <2>1, <2>3
<1>10. CASE HaveChunks
  <2>1. /\ stage = "deflating" /\ stage' = "writing" /\ stored' = joined
        /\ UNCHANGED <<manifest, closed, chunk>> /\ pushed' = pushed
    BY <1>10, PushedStays DEF HaveChunks, PushNothing, Push
  <2>2. joined = [i \in 1..Len(closed) |-> i]
    <3>1. joined = [i \in DOMAIN closed |-> i]
      BY <1>10, Taken DEF HaveChunks, PackInv, Deflated
    <3> QED BY <1>0, <3>1, LenProperties
  <2>3. Len(joined) = Len(closed)
    BY <1>0, <2>2
  <2>4. SubSeq(closed, (Len(closed) - Len(joined)) + 1, Len(closed)) = closed
    <3>1. (Len(closed) - Len(joined)) + 1 = 1
      BY <1>0, <2>3
    <3>2. SubSeq(closed, 1, Len(closed)) = closed
      BY <1>0
    <3> QED BY <3>1, <3>2
  <2>5. AllChunks' = AllChunks
    BY <1>3, <2>1, <2>4 DEF AllChunks, Unwritten
  <2> QED BY <1>2, <2>1, <2>5
<1>11. CASE WriteChunk
  <2> DEFINE k == Len(closed) - Len(stored)
             r == [at |-> Span, holds |-> Noted]
             n == Len(closed)
  <2>1. /\ stage = "writing" /\ stage' = "writing" /\ stored # <<>> /\ stored' = Tail(stored)
        /\ UNCHANGED <<closed, chunk>> /\ pushed' = pushed
        /\ manifest'.chunks = Append(manifest.chunks, r)
        /\ manifest'.marks = manifest.marks
    BY <1>0, <1>11, PushedStays DEF WriteChunk, PackTypeOK, PushNothing, Push
  <2>2. Len(stored) \in Nat \ {0} /\ Len(stored') = Len(stored) - 1
    <3>1. stored \in Seq(Nat)
      BY <1>0 DEF PackTypeOK
    <3> QED BY <2>1, <3>1, EmptySeq, LenProperties, HeadTailProperties
  <2>3. k \in 0..(n - 1) /\ n - Len(stored') = k + 1 /\ Noted = closed[k + 1]
    BY <1>0, <2>1, <2>2 DEF PackInv, Deflated, Noted
  <2>4. r \in Noting
    <3>1. closed[k + 1] \in Seq(Pairs)
      BY <1>0, <2>3, ElementOfSeq
    <3>2. Span \in Nat
      <4>1. file \in Seq(Section)
        BY <1>0 DEF PackTypeOK
      <4> QED BY <4>1, LenProperties DEF Span, At
    <3> QED BY <2>3, <3>1, <3>2 DEF Noting
  <2>5. r.holds = closed[k + 1]
    BY <2>3
  <2>6. HoldsOf(Append(manifest.chunks, r)) = Append(h, closed[k + 1])
    <3> HIDE DEF r
    <3> QED BY <1>0, <2>4, <2>5, HoldsAreChunks
  <2>7. AllChunks = h \o SubSeq(closed, k + 1, n)
    BY <2>1 DEF AllChunks, Unwritten
  <2>8. AllChunks' = Append(h, closed[k + 1]) \o SubSeq(closed, k + 2, n)
    <3>1. AllChunks' = HoldsOf(manifest'.chunks) \o SubSeq(closed, (n - Len(stored')) + 1, n)
      BY <2>1 DEF AllChunks, Unwritten
    <3>2. (n - Len(stored')) + 1 = k + 2
      BY <1>0, <2>2, <2>3
    <3> HIDE DEF k, n, h, r
    <3> QED BY <2>1, <2>6, <3>1, <3>2
  <2>9. h \o SubSeq(closed, k + 1, n) = Append(h, closed[k + 1]) \o SubSeq(closed, k + 2, n)
    <3> HIDE DEF k, h
    <3> QED BY <1>0, <2>3, OneOver
  <2> QED BY <1>2, <2>1, <2>7, <2>8, <2>9
<1>12. CASE Flushed
  <2>1. /\ stage = "writing" /\ stage' # "writing" /\ stored = <<>> /\ Len(<<>>) = 0
        /\ UNCHANGED <<manifest, chunk>> /\ closed' = <<>> /\ pushed' = pushed
    BY <1>12, PushedStays DEF Flushed, Cleared, PushNothing, Push
  <2>2. SubSeq(closed, (Len(closed) - Len(stored)) + 1, Len(closed)) = <<>>
    <3>1. (Len(closed) - Len(stored)) + 1 = Len(closed) + 1
      BY <1>0, <2>1
    <3>2. SubSeq(closed, Len(closed) + 1, Len(closed)) = <<>>
      BY <1>0
    <3> QED BY <3>1, <3>2
  <2>3. AllChunks' = AllChunks
    BY <1>4, <2>1, <2>2 DEF AllChunks, Unwritten
  <2> QED BY <1>2, <2>1, <2>3
<1>13. CASE WriteBounds
  <2>1. manifest'.chunks = manifest.chunks /\ manifest'.marks = manifest.marks
    BY <1>0, <1>13 DEF WriteBounds, PackTypeOK
  <2> QED BY <1>5, <1>13, <2>1 DEF WriteBounds, chunkVars, PushNothing, Push
<1>14. CASE WriteBlock
  <2>1. manifest'.chunks = manifest.chunks /\ manifest'.marks = manifest.marks
    BY <1>0, <1>14 DEF WriteBlock, PackTypeOK
  <2> QED BY <1>5, <1>14, <2>1 DEF WriteBlock, PushNothing, Push
<1>15. CASE \/ Open \/ Tessellate \/ HaveMeshes \/ BatchDone \/ DeflateChunks
            \/ DeflateBlocks \/ HaveBlocks \/ WriteManifest \/ WriteTrailer
  BY <1>5, <1>15 DEF Open, Tessellate, HaveMeshes, BatchDone, DeflateChunks, DeflateBlocks,
     HaveBlocks, WriteManifest, WriteTrailer, chunkVars, PushNothing, Push
<1>16. CASE Share \/ UNCHANGED vars
  <2>1. CASE PushNothing \/ Push
    BY <1>7, <1>8, <2>1
  <2> QED BY <1>6, <1>16, <2>1 DEF Share, vars, chunkVars
<1>17. CASE WriteFails
  BY <1>17 DEF WriteFails
<1> QED
  BY <1>7, <1>8, <1>9, <1>10, <1>11, <1>12, <1>13, <1>14, <1>15, <1>16, <1>17
  DEF Next, Pack

\* What was written stays where it is, and what is written is found at the end.
LEMMA FoundLater ==
  ASSUME NEW T, NEW f \in Seq(T), NEW x \in T
  PROVE  /\ \A at, s : FoundIn(f, at, s) => FoundIn(Append(f, x), at, s)
         /\ FoundIn(Append(f, x), Len(f), x)
         /\ Len(Append(f, x)) = Len(f) + 1 /\ Len(f) \in Nat
         /\ Append(f, x)[Len(Append(f, x))] = x
<1> DEFINE g == Append(f, x)
<1>1. /\ Len(f) \in Nat /\ Len(g) = Len(f) + 1 /\ g[Len(f) + 1] = x
      /\ \A i \in 1..Len(f) : g[i] = f[i]
  BY Appended1
<1> HIDE DEF g
<1>2. ASSUME NEW at, NEW s, FoundIn(f, at, s) PROVE FoundIn(g, at, s)
  <2>1. at \in Nat /\ at + 1 \in 1..Len(f) /\ at < Len(g)
    BY <1>1, <1>2 DEF FoundIn
  <2> QED BY <1>1, <1>2, <2>1 DEF FoundIn
<1>3. FoundIn(g, Len(f), x)
  BY <1>1 DEF FoundIn
<1>4. g[Len(g)] = x
  BY <1>1
<1> QED
  BY <1>1, <1>2, <1>3, <1>4 DEF g

\* What the manifest notes is where it says, because a file only grows and
\* every note is taken before its section is written.
LEMMA FileKept == ASSUME PackInv, [Next]_vars PROVE Filed'
<1>0. /\ Filed /\ Given /\ PackTypeOK /\ InItsPlace /\ along' = along
      /\ file \in Seq(Section) /\ Len(file) \in Nat
      /\ manifest.chunks \in Seq(Noting) /\ Len(manifest.chunks) \in Nat
      /\ manifest.blocks \in Seq(Nat) /\ Len(manifest.blocks) \in Nat
  <2>1. /\ file \in Seq(Section) /\ manifest.chunks \in Seq(Noting)
        /\ manifest.blocks \in Seq(Nat)
    BY DEF PackInv, PackTypeOK
  <2> QED BY <2>1, InputsStay, LenProperties DEF PackInv
<1> DEFINE Closing == {"properties", "packing", "blocks", "trailer", "done"}
           ChunksFound(f, cs) == \A j \in 1..Len(cs) : FoundIn(f, cs[j].at, Chunk(cs[j].holds))
           BlocksFound(f, bs) == \A j \in 1..Len(bs) : FoundIn(f, bs[j], Block(BlockOf(j)))
           End(f) == f # <<>> /\ f[Len(f)].is = "trailer"
           P == /\ ChunksFound(file', manifest'.chunks)
                /\ BlocksFound(file', manifest'.blocks)
                /\ stage' \in Closing => FoundIn(file', manifest'.bounds, Bounds)
                /\ stage' = "trailer" => FoundIn(file', Len(file') - 1, Manifest)
                /\ stage' = "done" => /\ Len(file') >= 2
                                      /\ file'[Len(file')] = Trailer(Len(file') - 2)
                                      /\ FoundIn(file', Len(file') - 2, Manifest)
                /\ stage' # "done" => ~End(file')
<1>1. P => Filed'
  <2>1. \A j : BlockOf(j)' = BlockOf(j)
    BY <1>0 DEF BlockOf
  <2> QED BY <2>1 DEF Filed, HasTrailer
<1>2. /\ ChunksFound(file, manifest.chunks)
      /\ BlocksFound(file, manifest.blocks)
      /\ stage \in Closing => FoundIn(file, manifest.bounds, Bounds)
      /\ stage = "trailer" => FoundIn(file, Len(file) - 1, Manifest)
      /\ stage = "done" => /\ Len(file) >= 2
                           /\ file[Len(file)] = Trailer(Len(file) - 2)
                           /\ FoundIn(file, Len(file) - 2, Manifest)
      /\ stage # "done" => ~End(file)
  BY <1>0 DEF Filed, HasTrailer
<1> SUFFICES P
  BY <1>1
<1>3. ASSUME NEW x \in Section, file' = Append(file, x)
      PROVE  /\ \A at, s : FoundIn(file, at, s) => FoundIn(file', at, s)
             /\ FoundIn(file', Len(file), x)
             /\ Len(file') = Len(file) + 1
             /\ file'[Len(file')] = x
             /\ x.is # "trailer" => ~End(file')
             /\ ChunksFound(file', manifest.chunks)
             /\ BlocksFound(file', manifest.blocks)
  <2>1. /\ \A at, s : FoundIn(file, at, s) => FoundIn(file', at, s)
        /\ FoundIn(file', Len(file), x)
        /\ Len(file') = Len(file) + 1
        /\ file'[Len(file')] = x
    BY <1>0, <1>3, FoundLater
  <2> QED BY <1>2, <2>1
<1>4. /\ Heading \in Section /\ Bounds \in Section /\ Manifest \in Section /\ Torn \in Section
      /\ Heading.is # "trailer" /\ Bounds.is # "trailer" /\ Manifest.is # "trailer"
      /\ Torn.is # "trailer"
      /\ \A c : Chunk(c).is # "trailer" /\ Block(c).is # "trailer"
  BY DEF Section, Heading, Bounds, Manifest, Torn, Chunk, Block
<1> HIDE DEF ChunksFound, BlocksFound, End
<1>5. CASE /\ file' = file
           /\ manifest'.chunks = manifest.chunks /\ manifest'.blocks = manifest.blocks
           /\ manifest'.bounds = manifest.bounds
           /\ stage' \in Closing => stage \in Closing
           /\ stage' = "trailer" => stage = "trailer"
           /\ stage' = "done" <=> stage = "done"
  BY <1>2, <1>5
<1>6. CASE Open
  <2>1. file' = Append(file, Heading) /\ manifest' = manifest /\ stage' = "batching"
    BY <1>6 DEF Open, Writes
  <2> QED BY <1>3, <1>4, <2>1
<1>7. CASE Push
  <2>1. /\ manifest'.chunks = manifest.chunks /\ manifest'.blocks = manifest.blocks
        /\ manifest'.bounds = manifest.bounds
        /\ file' = file /\ stage = "pushing" /\ stage' \in {"pushing", "flushing"}
    BY <1>0, <1>7 DEF Push, PackTypeOK
  <2> QED BY <1>5, <2>1
<1>8. CASE WriteChunk
  <2> DEFINE c == closed[stored[1]]
             r == [at |-> Span, holds |-> Noted]
             cs == manifest.chunks
  <2>1. /\ stage = "writing" /\ stage' = "writing" /\ stored # <<>>
        /\ file' = Append(file, Chunk(c))
        /\ manifest'.chunks = Append(cs, r)
        /\ manifest'.blocks = manifest.blocks
    BY <1>0, <1>8 DEF WriteChunk, Writes, PackTypeOK
  <2>2. Len(stored) \in Nat \ {0} /\ closed \in Seq(Seq(Pairs)) /\ Len(closed) \in Nat
    <3>1. stored \in Seq(Nat) /\ closed \in Seq(Seq(Pairs))
      BY <1>0 DEF PackTypeOK
    <3> QED BY <2>1, <3>1, EmptySeq, LenProperties
  <2>3. Len(stored) <= Len(closed) /\ stored[1] = (Len(closed) - Len(stored)) + 1
    BY <2>1, <2>2 DEF PackInv, Deflated
  <2>4. stored[1] \in 1..Len(closed) /\ Noted = c
    BY <2>2, <2>3 DEF Noted
  <2>5. c \in Seq(Pairs)
    BY <2>2, <2>4, ElementOfSeq
  <2>6. Chunk(c) \in Section
    BY <2>5 DEF Section
  <2>7. r \in Noting /\ r.at = Len(file) /\ r.holds = c
    BY <1>0, <2>4, <2>5 DEF Noting, Span, At
  <2> HIDE DEF c, r
  <2>8. /\ FoundIn(file', Len(file), Chunk(c)) /\ ~End(file')
        /\ ChunksFound(file', cs) /\ BlocksFound(file', manifest.blocks)
    BY <1>3, <1>4, <2>1, <2>6
  <2>9. /\ Len(Append(cs, r)) = Len(cs) + 1
        /\ \A j \in 1..Len(cs) : Append(cs, r)[j] = cs[j]
        /\ Append(cs, r)[Len(cs) + 1] = r
    BY <1>0, <2>7, AppendProperties
  <2> DEFINE ds == Append(cs, r)
  <2>10. Len(cs) \in Nat
    BY <1>0
  <2> HIDE DEF ds, cs
  <2>11. ChunksFound(file', ds)
    <3> SUFFICES ASSUME NEW j \in 1..Len(ds)
                 PROVE  FoundIn(file', ds[j].at, Chunk(ds[j].holds))
      BY DEF ChunksFound
    <3>1. j \in 1..Len(cs) \/ j = Len(cs) + 1
      BY <2>9, <2>10 DEF ds
    <3>2. CASE j \in 1..Len(cs)
      BY <2>8, <2>9, <3>2 DEF ChunksFound, ds
    <3>3. CASE j = Len(cs) + 1
      BY <2>7, <2>8, <2>9, <3>3 DEF ds
    <3> QED BY <3>1, <3>2, <3>3
  <2> QED BY <2>1, <2>8, <2>11 DEF ds
<1>9. CASE WriteBounds
  <2>1. /\ file' = Append(file, Bounds) /\ stage' = "properties"
        /\ manifest'.chunks = manifest.chunks /\ manifest'.blocks = manifest.blocks
        /\ manifest'.bounds = Len(file)
    BY <1>0, <1>9 DEF WriteBounds, Writes, Span, At, PackTypeOK
  <2> QED BY <1>3, <1>4, <2>1
<1>10. CASE WriteBlock
  <2> DEFINE b == BlockOf(stored[1])
             bs == manifest.blocks
  <2>1. /\ stage = "blocks" /\ stage' = "blocks" /\ stored # <<>>
        /\ file' = Append(file, Block(b))
        /\ manifest'.blocks = Append(bs, Len(file))
        /\ manifest'.chunks = manifest.chunks /\ manifest'.bounds = manifest.bounds
    BY <1>0, <1>10 DEF WriteBlock, Writes, Span, At, PackTypeOK
  <2>2. stored \in Seq(Nat) /\ Len(stored) \in Nat \ {0}
    <3>1. stored \in Seq(Nat)
      BY <1>0 DEF PackTypeOK
    <3> QED BY <2>1, <3>1, EmptySeq, LenProperties
  <2>3. stored[1] = Len(bs) + 1
    BY <2>1, <2>2 DEF PackInv, Deflated
  <2>4. b \in SUBSET Int
    BY <1>0, <2>3, GivenFacts, PackBounds DEF BlockOf, Smaller
  <2>5. Block(b) \in Section
    BY <2>4 DEF Section
  <2> HIDE DEF b
  <2>6. /\ FoundIn(file', Len(file), Block(b)) /\ ~End(file')
        /\ ChunksFound(file', manifest.chunks) /\ BlocksFound(file', bs)
        /\ FoundIn(file, manifest.bounds, Bounds) => FoundIn(file', manifest.bounds, Bounds)
    BY <1>3, <1>4, <2>1, <2>5
  <2>7. /\ Len(Append(bs, Len(file))) = Len(bs) + 1
        /\ \A j \in 1..Len(bs) : Append(bs, Len(file))[j] = bs[j]
        /\ Append(bs, Len(file))[Len(bs) + 1] = Len(file)
    BY <1>0, AppendProperties
  <2> DEFINE ds == Append(bs, Len(file))
  <2>8. Len(bs) \in Nat
    BY <1>0
  <2>9. b = BlockOf(Len(bs) + 1)
    BY <2>3 DEF b
  <2> HIDE DEF ds, bs
  <2>10. BlocksFound(file', ds)
    <3> SUFFICES ASSUME NEW j \in 1..Len(ds)
                 PROVE  FoundIn(file', ds[j], Block(BlockOf(j)))
      BY DEF BlocksFound
    <3>1. j \in 1..Len(bs) \/ j = Len(bs) + 1
      BY <2>7, <2>8 DEF ds
    <3>2. CASE j \in 1..Len(bs)
      BY <2>6, <2>7, <3>2 DEF BlocksFound, ds
    <3>3. CASE j = Len(bs) + 1
      BY <2>6, <2>7, <2>9, <3>3 DEF ds
    <3> QED BY <3>1, <3>2, <3>3
  <2> QED BY <1>2, <2>1, <2>6, <2>10 DEF ds
<1>11. CASE WriteManifest
  <2>1. file' = Append(file, Manifest) /\ manifest' = manifest
        /\ stage = "blocks" /\ stage' = "trailer"
    BY <1>11 DEF WriteManifest, Writes
  <2>2. FoundIn(file', Len(file), Manifest) /\ Len(file') - 1 = Len(file)
    BY <1>0, <1>3, <1>4, <2>1
  <2> QED BY <1>2, <1>3, <1>4, <2>1, <2>2
<1>12. CASE WriteTrailer
  <2> DEFINE x == Trailer(Len(file) - 1)
  <2>1. file' = Append(file, x) /\ manifest' = manifest
        /\ stage = "trailer" /\ stage' = "done"
    BY <1>12 DEF WriteTrailer, Writes, At
  <2>2. x \in Section
    BY <1>0 DEF Section
  <2>3. FoundIn(file, Len(file) - 1, Manifest)
    BY <1>2, <2>1
  <2> HIDE DEF x
  <2>4. /\ FoundIn(file', Len(file) - 1, Manifest) /\ Len(file') = Len(file) + 1
        /\ file'[Len(file')] = x
        /\ ChunksFound(file', manifest.chunks) /\ BlocksFound(file', manifest.blocks)
        /\ FoundIn(file, manifest.bounds, Bounds) => FoundIn(file', manifest.bounds, Bounds)
    BY <1>3, <2>1, <2>2, <2>3
  <2>5. Len(file') - 2 = Len(file) - 1 /\ Len(file') >= 2
    BY <1>0, <2>3, <2>4 DEF FoundIn
  <2> QED BY <1>2, <2>1, <2>4, <2>5 DEF x
<1>13. CASE WriteFails
  <2>1. /\ file' = file \/ file' = Append(file, Torn)
        /\ manifest' = manifest /\ stage' = "failed" /\ stage # "done"
    BY <1>13 DEF WriteFails
  <2>2. CASE file' = file
    BY <1>2, <2>1, <2>2
  <2>3. CASE file' = Append(file, Torn)
    BY <1>3, <1>4, <2>1, <2>3
  <2> QED BY <2>1, <2>2, <2>3
<1>14. CASE \/ Tessellate \/ HaveMeshes \/ PushNothing \/ BatchDone \/ CloseLast
            \/ DeflateChunks \/ HaveChunks \/ Flushed \/ DeflateBlocks \/ HaveBlocks \/ Share
  <2>1. /\ UNCHANGED <<file, manifest>>
        /\ stage' \in Closing => stage \in Closing
        /\ stage' = "trailer" => stage = "trailer"
        /\ stage' = "done" <=> stage = "done"
    BY <1>14 DEF Tessellate, HaveMeshes, PushNothing, BatchDone, CloseLast, DeflateChunks,
       HaveChunks, Flushed, DeflateBlocks, HaveBlocks, Share
  <2> QED BY <1>5, <2>1
<1>15. CASE UNCHANGED vars
  BY <1>5, <1>15 DEF vars
<1> QED
  BY <1>6, <1>7, <1>8, <1>9, <1>10, <1>11, <1>12, <1>13, <1>14, <1>15 DEF Next, Pack

-----------------------------------------------------------------------------
(* The invariant holds, whatever happens.                                  *)

LEMMA PackInitIsFine == Init => PackInv
<1> SUFFICES ASSUME Init PROVE PackInv
  OBVIOUS
<1>1. IInv
  BY InitIsFine DEF Init
<1>2. Given
  BY DEF Init, Given
<1>3. Places \in Nat /\ DrawnTo(along, mesh, 0) = <<>>
  BY <1>2, OrderFacts, DrawnUnfolds
<1>4. /\ next = 0 /\ meshes = <<>> /\ stored = <<>> /\ chunk = <<>> /\ closed = <<>>
      /\ final = FALSE /\ file = <<>> /\ stage = "opening"
      /\ manifest = [chunks |-> <<>>, blocks |-> <<>>, bounds |-> 0, marks |-> {}]
      /\ Len(<<>>) = 0
  BY DEF Init
<1>5. PackTypeOK
  <2>1. \A T : <<>> \in Seq(T)
    BY EmptySeq
  <2>2. manifest \in [chunks : Seq(Noting), blocks : Seq(Nat), bounds : Nat,
                      marks : SUBSET Elements]
    BY <1>4, <2>1
  <2>3. stage \in Stages
    BY <1>4 DEF Stages
  <2>4. next \in 0..Places
    BY <1>3, <1>4
  <2>5. final \in BOOLEAN
    BY <1>4
  <2> QED BY <1>4, <2>1, <2>2, <2>3, <2>4, <2>5 DEF PackTypeOK
<1>6. InItsPlace
  BY <1>4 DEF InItsPlace, Early, Late
<1>7. pushed = 0
  <2>1. stage # "meshing" /\ next = 0 /\ Len(meshes) = 0
    BY <1>4
  <2>2. pushed = next - Len(meshes)
    BY <2>1 DEF pushed
  <2> QED BY <2>1, <2>2
<1>8. Batched
  BY <1>4, <1>7 DEF Batched, IsBatch
<1>9. Deflated
  BY <1>4 DEF Deflated
<1>10. Budgeted
  <2>1. Triangles(mesh, <<>>) = 0
    BY <1>2, TrianglesAre
  <2>2. LastFills(<<>>) /\ ~Fills(<<>>)
    BY <2>1, FrontOfNone, PackBounds DEF LastFills, Fills
  <2> QED BY <1>4, <2>2 DEF Budgeted
<1>11. NothingLost
  <2>1. HoldsOf(manifest.chunks) = <<>>
    BY <1>4 DEF HoldsOf
  <2>2. AllChunks = <<>>
    BY <1>4, <2>1 DEF AllChunks, Unwritten
  <2>3. FlattenSeq(AllChunks) \o chunk = <<>>
    BY <1>4, <2>2, FlattenEmpty
  <2>4. Firsts(<<>>) = {}
    BY DEF Firsts
  <2> QED BY <1>3, <1>4, <1>7, <2>3, <2>4 DEF NothingLost
<1>12. Filed
  BY <1>4 DEF Filed, HasTrailer
<1> QED
  BY <1>1, <1>2, <1>5, <1>6, <1>8, <1>9, <1>10, <1>11, <1>12 DEF PackInv

LEMMA PackStepsKeep == PackInv /\ [Next]_vars => PackInv'
<1> SUFFICES ASSUME PackInv, [Next]_vars PROVE PackInv'
  OBVIOUS
<1>1. Given'
  BY GivenStays DEF PackInv
<1> QED
  BY <1>1, SharingKept, TypeKept, PlaceKept, BatchedKept, DeflatedKept, BudgetKept,
     NoneIsLost, FileKept DEF PackInv

LEMMA PackIsFine == Spec => []PackInv
BY PackInitIsFine, PackStepsKeep, PTL DEF Spec

-----------------------------------------------------------------------------
(* What follows of write_scene.                                            *)

\* The block an element's properties are in.
LEMMA ElementsBlock ==
  ASSUME NEW n \in Nat, NEW p \in Nat \ {0}, NEW e \in 1..n
  PROVE  \E b \in 1..DivCeil(n, p) : (b - 1) * p < e /\ e <= b * p
<1> DEFINE a == e + p - 1
           b == a \div p
           c == n + p - 1
           q == c \div p
<1>1. a \in Nat /\ c \in Nat /\ a <= c /\ e \in Nat /\ e >= 1
  OBVIOUS
<1>2. b \in Int /\ p * b <= a /\ a < p * b + p
  <2> HIDE DEF a
  <2> QED BY <1>1, Z3
<1>3. q \in Int /\ p * q <= c /\ c < p * q + p
  <2> HIDE DEF c
  <2> QED BY <1>1, Z3
<1>4. b <= q
  <2>1. SUFFICES ASSUME b >= q + 1 PROVE FALSE
    <3> HIDE DEF b, q
    <3> QED BY <1>2, <1>3
  <2>2. p * b >= p * q + p /\ p * b \in Int /\ p * q \in Int
    <3> HIDE DEF b, q
    <3> QED BY <1>2, <1>3, <2>1, Z3
  <2> DEFINE x == p * b
             y == p * q
  <2> HIDE DEF x, y, a, c
  <2> QED BY <1>1, <1>2, <1>3, <2>2 DEF x, y
<1>5. b >= 1
  <2>1. SUFFICES ASSUME b <= 0 PROVE FALSE
    <3> HIDE DEF b
    <3> QED BY <1>2
  <2>2. p * b <= 0 /\ p * b \in Int
    <3> HIDE DEF b
    <3> QED BY <1>2, <2>1, Z3
  <2> DEFINE x == p * b
  <2>3. x <= 0 /\ a < x + p /\ a >= p /\ x \in Int
    BY <1>1, <1>2, <2>2
  <2> HIDE DEF x, a
  <2> QED BY <1>1, <2>3
<1>6. (b - 1) * p = p * b - p /\ b * p = p * b /\ p * b \in Int
  <2> HIDE DEF b
  <2> QED BY <1>2, Z3
<1>7. (b - 1) * p < e /\ e <= b * p
  <2> DEFINE x == p * b
             y == (b - 1) * p
             z == b * p
  <2>1. y = x - p /\ z = x /\ x \in Int /\ x <= e + p - 1 /\ e + p - 1 < x + p
    BY <1>2, <1>6
  <2> HIDE DEF x, y, z
  <2>2. y < e /\ e <= z
    BY <1>1, <2>1
  <2> QED BY <2>2 DEF y, z
<1>8. DivCeil(n, p) = q
  BY DEF DivCeil
<1>9. b \in 1..DivCeil(n, p)
  <2> HIDE DEF b, q
  <2> QED BY <1>2, <1>3, <1>4, <1>5, <1>8
<1> HIDE DEF b
<1> QED
  BY <1>7, <1>9

LEMMA DrawnIs == Given => Drawn = DrawnTo(along, mesh, Places)
<1> SUFFICES ASSUME Given PROVE Drawn = DrawnTo(along, mesh, Places)
  OBVIOUS
<1>1. spatial_order = Order(along, mesh)
  BY OrderFacts
<1>2. Without(Hollow, spatial_order)[Len(spatial_order)]
        = Kept(mesh, Hollow, Order(along, mesh))[Places]
  BY <1>1, InTermsOfMeshes DEF Places
<1> QED
  BY <1>2 DEF Drawn, DrawnTo, Doubled

\* What a file with a trailer means.
LEMMA WholeFollows == PackInv => TrailerMeansWhole
<1> SUFFICES ASSUME PackInv, HasTrailer PROVE
      /\ Read(file[Len(file)].holds) = Manifest
      /\ FlattenSeq([i \in DOMAIN manifest.chunks |->
                       Read(manifest.chunks[i].at).holds]) = Drawn
      /\ manifest.marks = {Drawn[i][1] : i \in DOMAIN Drawn}
      /\ Read(manifest.bounds) = Bounds
      /\ \A e \in Elements : \E b \in DOMAIN manifest.blocks :
           /\ (b - 1) * PropertyBlock < e /\ e <= b * PropertyBlock
           /\ e \in Read(manifest.blocks[b]).holds
  BY DEF TrailerMeansWhole
<1>1. stage = "done" /\ Filed /\ Given /\ PackTypeOK /\ file \in Seq(Section)
  BY DEF PackInv, Filed, PackTypeOK
<1>2. final /\ closed = <<>> /\ chunk = <<>> /\ next = Places /\ meshes = <<>> /\ Len(<<>>) = 0
  BY <1>1 DEF PackInv, InItsPlace, Late
<1>3. pushed = Places
  BY <1>1, <1>2, PushedIs
<1>4. Read(file[Len(file)].holds) = Manifest
  <2>1. file[Len(file)] = Trailer(Len(file) - 2) /\ FoundIn(file, Len(file) - 2, Manifest)
    BY <1>1 DEF Filed
  <2>2. file[Len(file)].holds = Len(file) - 2
    BY <2>1 DEF Trailer
  <2> QED BY <2>1, <2>2 DEF FoundIn, Read
<1>5. Read(manifest.bounds) = Bounds
  BY <1>1 DEF Filed, FoundIn, Read
<1>6. Drawn = DrawnTo(along, mesh, pushed)
  BY <1>1, <1>3, DrawnIs
<1>7. FlattenSeq([i \in DOMAIN manifest.chunks |-> Read(manifest.chunks[i].at).holds]) = Drawn
  <2> DEFINE h == HoldsOf(manifest.chunks)
             g == [i \in DOMAIN manifest.chunks |-> Read(manifest.chunks[i].at).holds]
  <2>1. manifest.chunks \in Seq(Noting) /\ DOMAIN manifest.chunks = 1..Len(manifest.chunks)
    <3>1. manifest.chunks \in Seq(Noting)
      BY <1>1 DEF PackTypeOK
    <3> QED BY <3>1, LenProperties
  <2>2. \A i \in DOMAIN manifest.chunks :
          Read(manifest.chunks[i].at).holds = manifest.chunks[i].holds
    <3> SUFFICES ASSUME NEW i \in DOMAIN manifest.chunks
                 PROVE  Read(manifest.chunks[i].at).holds = manifest.chunks[i].holds
      OBVIOUS
    <3> DEFINE r == manifest.chunks[i]
    <3>1. FoundIn(file, r.at, Chunk(r.holds))
      BY <1>1, <2>1 DEF Filed
    <3>2. Read(r.at) = Chunk(r.holds)
      BY <3>1 DEF FoundIn, Read
    <3> HIDE DEF r
    <3>3. Read(r.at).holds = r.holds
      BY <3>2 DEF Chunk
    <3> QED BY <3>3 DEF r
  <2>3. g = h
    BY <2>2 DEF HoldsOf
  <2>4. h \in Seq(Seq(Pairs))
    BY <1>1, HoldsAreChunks
  <2>5. AllChunks = h \o <<>>
    BY <1>1, <1>2 DEF AllChunks, Unwritten
  <2> HIDE DEF h, g
  <2>6. h \o <<>> = h
    BY <2>4, ConcatEmptySeq
  <2>7. FlattenSeq(h) \in Seq(Pairs)
    BY <2>4, FlattenIsSeq
  <2> DEFINE f == FlattenSeq(h)
  <2>8. f \o <<>> = Drawn
    BY <1>1, <1>2, <1>6, <2>5, <2>6 DEF PackInv, NothingLost
  <2>9. f \o <<>> = f
    <3> HIDE DEF f
    <3>1. f \in Seq(Pairs)
      BY <2>7 DEF f
    <3> QED BY <3>1, ConcatEmptySeq
  <2> QED BY <2>3, <2>8, <2>9 DEF g
<1>8. manifest.marks = {Drawn[i][1] : i \in DOMAIN Drawn}
  BY <1>1, <1>6 DEF PackInv, NothingLost, Firsts
<1>9. ASSUME NEW e \in Elements
      PROVE  \E b \in DOMAIN manifest.blocks :
               /\ (b - 1) * PropertyBlock < e /\ e <= b * PropertyBlock
               /\ e \in Read(manifest.blocks[b]).holds
  <2> DEFINE n == Len(along)
  <2>1. n \in Nat /\ e \in 1..n /\ PropertyBlock \in Nat \ {0}
    BY <1>1, GivenFacts, PackBounds
  <2>2. PICK b \in 1..DivCeil(n, PropertyBlock) :
          (b - 1) * PropertyBlock < e /\ e <= b * PropertyBlock
    <3> HIDE DEF n
    <3> QED BY <2>1, ElementsBlock
  <2>3. b \in DOMAIN manifest.blocks /\ b \in 1..Len(manifest.blocks)
    <3>1. manifest.blocks \in Seq(Nat)
      BY <1>1 DEF PackTypeOK
    <3>2. Len(manifest.blocks) = DivCeil(n, PropertyBlock)
      BY <1>1 DEF PackInv, Deflated
    <3> QED BY <2>2, <3>1, <3>2, LenProperties
  <2>4. Read(manifest.blocks[b]) = Block(BlockOf(b))
    BY <1>1, <2>3 DEF Filed, FoundIn, Read
  <2>5. Read(manifest.blocks[b]).holds = BlockOf(b)
    BY <2>4 DEF Block
  <2>6. e \in BlockOf(b)
    <3> DEFINE x == (b - 1) * PropertyBlock
               y == b * PropertyBlock
    <3>1. x \in Int /\ y \in Int
      <4>1. DivCeil(n, PropertyBlock) \in Nat
        BY <1>1, BlocksAreFew
      <4>2. b \in Int
        BY <2>2, <4>1
      <4> QED BY <2>1, <4>2, Z3
    <3>2. x < e /\ e <= y
      BY <2>2
    <3>3. BlockOf(b) = (x + 1)..Smaller(y, n)
      BY DEF BlockOf
    <3> HIDE DEF x, y, n
    <3> QED BY <2>1, <3>1, <3>2, <3>3 DEF Smaller
  <2> QED BY <2>2, <2>3, <2>5, <2>6
<1> QED
  BY <1>4, <1>5, <1>7, <1>8, <1>9

\* A scene file that ends with a trailer is a whole scene, for every model, any
\* threads and wherever writing breaks off (write_scene).
THEOREM TrailersAreEarned == Spec => []TrailerMeansWhole
BY WholeFollows, PackIsFine, PTL

\* Chunks keep to their triangle budget whichever elements mesh to nothing and
\* wherever batches and flushes fall (ChunkWriter).
THEOREM BudgetsAreKept == Spec => []ChunksKeepTheirBudget
BY BudgetFollows, PackIsFine, PTL

\* The passes of the packing use map_in_order one call at a time, so that each
\* call is a plain loop to them.
THEOREM PackingCallsALoop == Spec => LoopSpec
<1>1. SharingInit => Loop!Init
  BY DEF SharingInit, Loop!Init, phase
<1>2. Init => SharingInit
  BY DEF Init
<1>3. PackInv => IInv
  BY DEF PackInv
<1> QED
  BY <1>1, <1>2, <1>3, StepsShare, PackIsFine, PackStepsKeep, StepIsALoops, PTL
  DEF Spec, LoopSpec, Loop!Spec
=============================================================================

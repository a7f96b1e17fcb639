------------------------- MODULE JQueryEffectsProofs -------------------------
(***************************************************************************)
(* Queues and animations, for any number of elements, animations and       *)
(* promises, and any calls of the page: an animation that runs is ticked,  *)
(* a queue in progress will be dequeued, and promise() waits for the       *)
(* queues and no longer, whatever functions of the page stop, finish,      *)
(* clear, queue or throw in the middle of each other.                      *)
(***************************************************************************)
EXTENDS JQueryEffects, FiniteSetTheorems, TLAPS

-----------------------------------------------------------------------------
(* What runs.                                                              *)

Places == Nat \ {0}
Items == Anims \cup {"delay", "inprogress"}

FireFrames == [code : {"fire"}, list : ListIds]
CallFrames == [code : {"callback"}, list : ListIds, then : {NoDeferred}]
DequeueFrames == [code : {"dequeue"}, elem : Elems]
EmptyFrames == [code : {"empty"}, waiters : Seq(Counted)]
AnimFrames == [code : {"begin", "attach", "begun"}, anim : Anims]
TickFrames == [code : {"tick"}, at : Places]
TimerFrames == [code : {"timer", "ticked"}, at : Places, anim : Anims]
StopFrames == [code : {"stop"}, elem : Elems, gotoEnd : BOOLEAN]
LoopFrames == [code : {"loop"}, elem : Elems, gotoEnd : BOOLEAN, at : Nat,
               dequeue : BOOLEAN]
SpliceFrames == [code : {"splice"}, elem : Elems, gotoEnd : BOOLEAN, at : Places,
                 anim : Anims]
FinishFrames == [code : {"finish"}, elem : Elems, rest : Seq(Items)]

Frames == FireFrames \cup CallFrames \cup DequeueFrames \cup EmptyFrames \cup AnimFrames
          \cup TickFrames \cup TimerFrames \cup StopFrames \cup LoopFrames
          \cup SpliceFrames \cup FinishFrames

\* Code that nothing of the page interrupts: the next animation, the promises that
\* are told.  Above it at most the deferred settles that it is about.
Delicate(f) == f.code \in {"begin", "attach", "empty"}
Settler(g, f) ==
    /\ g.code = "fire" /\ g.list[2] = "done"
    /\ f.code = "attach" => g.list[1] = f.anim
    /\ f.code = "empty" => g.list[1] \in Counted
    /\ f.code # "begin"

Still(fs) == \A i \in DOMAIN fs : ~Delicate(fs[i])
Calm(fs) ==
    \A i \in DOMAIN fs : Delicate(fs[i]) => i = 1 \/ (i = 2 /\ Settler(fs[1], fs[2]))

\* The animations that a frame is going to begin.
Held(f) == CASE f.code = "begin"  -> {f.anim}
             [] f.code = "finish" -> Range(f.rest) \cap Anims
             [] OTHER             -> {}

\* No animation is in the queue twice.
Once(q) == \A i, j \in DOMAIN q : q[i] = q[j] /\ q[i] \in Anims => i = j

Distinct(s) == \A i, j \in DOMAIN s : s[i] = s[j] => i = j
Apart(fs) == \A i, j \in DOMAIN fs : i # j => Held(fs[i]) \cap Held(fs[j]) = {}

-----------------------------------------------------------------------------
(* The invariant: types.                                                   *)

ListOK(l) ==
    /\ l.next >= 1 /\ l.next <= l.length + 1
    /\ l.on => l.length <= Len(l.fns)

ListsOK(ls) == ls \in [ListIds -> List] /\ \A id \in ListIds : ListOK(ls[id])

DeferredTypes ==
    /\ state \in [Deferreds -> {"pending", "resolved", "rejected"}]
    /\ made \in SUBSET Deferreds /\ IsFiniteSet(made)
    /\ remaining \in [Deferreds -> Int]
    /\ functions \in 0 .. MaxObjects
    /\ parts \in [Deferreds -> SUBSET Deferreds]
    /\ follows \in [Deferreds -> Deferreds]
    /\ registered \in [ListIds -> Seq(Fns)]
    /\ called \in [ListIds -> Seq(Fns)]
    /\ threw \in BOOLEAN

Datum == [queue : Seq(Items), hooks : BOOLEAN, stop : {"none", "runs", "cleared"},
          waiters : Seq(Counted), finish : BOOLEAN]

EffectTypes ==
    /\ data \in [Elems -> Datum]
    /\ Asked \in SUBSET Anims /\ target \in [Asked -> Elems]
    /\ timers \in Seq(made \cap Asked)
    /\ interval \in BOOLEAN
    /\ timeouts \in [Elems -> Nat]
    /\ instant \in SUBSET Asked /\ stopped \in SUBSET Asked
    /\ calls \in 0 .. MaxCalls
    /\ lost \in SUBSET Asked /\ dropped \in SUBSET Counted /\ forgotten \in SUBSET Elems
    /\ made \cap Anims \subseteq Asked

TypeInv == frames \in Seq(Frames) /\ ListsOK(lists) /\ DeferredTypes /\ EffectTypes

-----------------------------------------------------------------------------
(* The invariant: callback lists.                                          *)

\* What a list of the kind k holds.
Allowed(e, k) ==
    CASE k = "done"     -> e = SettleEntry \/ e = Internal("complete")
      [] k = "fail"     -> e = SettleEntry \/ e.kind = "user"
      [] k = "progress" -> e.kind = "user"
      [] k = "complete" -> FALSE

\* The list l of the kind k, of a deferred whose state is s: it settles at the first
\* entry of the list that fires first.
Good(k, l, s) ==
    /\ \A i \in DOMAIN l.fns : Allowed(l.fns[i], k)
    /\ k \in {"done", "fail"} =>
          /\ ~l.open
          /\ l.on => l.memory = l.fired
          /\ l.on /\ l.firing => l.length = Len(l.fns)
          /\ s = "pending" =>
                /\ l.on /\ l.next = 1 /\ l.fns # <<>> /\ l.fns[1] = SettleEntry
                /\ l.fired = l.firing
          /\ s = Outcome(k) => l.on /\ l.fired
          /\ s \notin {"pending", Outcome(k)} => ~l.on

Settling == Deferreds \X {"done", "fail"}

\* A deferred that is pending while a list of it fires is about to settle.
PendingOK(ls, st, fs) ==
    \A id \in Settling :
        st[id[1]] = "pending" /\ ls[id].fired => fs # <<>> /\ Head(fs) = FireFrame(id)

\* The loop of a list of done that fires is on the stack, unless a throw took it away.
LoopsOK(ls, fs, th) ==
    \A d \in Deferreds :
        ls[<<d, "done">>].firing /\ ~th => FireFrame(<<d, "done">>) \in Range(fs)

ListInv ==
    /\ \A id \in ListIds : Good(id[2], lists[id], state[id[1]])
    /\ PendingOK(lists, state, frames)
    /\ LoopsOK(lists, frames, threw)

-----------------------------------------------------------------------------
(* The invariant: the stack and the queues.                                *)

\* The deferred of the animation has settled, or is about to.
Ends(a) == state[a] # "pending" \/ lists[<<a, "done">>].fired \/ lists[<<a, "fail">>].fired

\* The function of the page that ends in dequeue is in the list.
Completes(l) == \E i \in DOMAIN l.fns : l.fns[i] = Internal("complete")

FrameOK(f) ==
    /\ f.code = "fire" => lists[f.list].fired
    /\ f.code \in {"begin", "attach", "begun", "timer", "ticked", "splice"} => f.anim \in Asked
    /\ f.code = "begin" => f.anim \notin made
    /\ f.code \in {"attach", "begun", "timer"} => f.anim \in made
    /\ f.code = "attach" =>
          ~lists[<<f.anim, "fail">>].fired /\ ~Completes(lists[<<f.anim, "done">>])
    /\ f.code \in {"ticked", "splice"} => Ends(f.anim)
    /\ f.code = "finish" => Held(f) \subseteq Asked \ made /\ Once(f.rest)
    /\ f.code = "empty" => Range(f.waiters) \subseteq made /\ Distinct(f.waiters)

StackInv ==
    /\ Calm(frames) /\ Apart(frames)
    /\ \A f \in Range(frames) : FrameOK(f)

QueueOK(e, q) ==
    /\ \A i \in DOMAIN q : i # 1 => q[i] # "inprogress"
    /\ \A i \in DOMAIN q : q[i] \in Anims => q[i] \in Asked \ made /\ target[q[i]] = e
    /\ Once(q)
    /\ \A f \in Range(frames) : Held(f) \cap Range(q) = {}

DatumOK(e, d) ==
    /\ ~d.hooks => d.queue = <<>> /\ d.stop = "none" /\ d.waiters = <<>>
    /\ d.stop = "runs" => timeouts[e] > 0 \/ (On("dequeue") /\ Top.elem = e)
    /\ ~threw /\ d.queue # <<>> /\ ~Sentinel(d.queue) => DequeueFrame(e) \in Range(frames)
    /\ ~threw /\ d.finish => \E f \in Range(frames) : f.code = "finish" /\ f.elem = e
    /\ Range(d.waiters) \subseteq made /\ Distinct(d.waiters)

QueueInv == \A e \in Elems : QueueOK(e, data[e].queue) /\ DatumOK(e, data[e])

-----------------------------------------------------------------------------
(* The invariant: animations.                                              *)

AnimOK(a) ==
    /\ state[a] = "pending" /\ a \in made /\ AttachFrame(a) \notin Range(frames) =>
          Completes(lists[<<a, "done">>])
    /\ a \notin made => ~Ends(a)
    /\ a \in stopped => a \in made /\ Ends(a)
    /\ state[a] = "pending" /\ lists[<<a, "fail">>].fired =>
          \E f \in Range(frames) : f.code = "splice" /\ f.elem = target[a] /\ ~f.gotoEnd
    /\ a \in made \ lost /\ state[a] = "pending" =>
          a \in Range(timers) \/ lists[<<a, "done">>].fired

AnimInv ==
    /\ timers # <<>> => interval
    /\ \A a \in Anims : AnimOK(a)
    /\ \A d \in Deferreds : Completes(lists[<<d, "done">>]) => d \in made \cap Anims

\* The loop of the list l comes to the function of the page that ends in dequeue.
ToComplete(l) ==
    l.on /\ \E i \in DOMAIN l.fns : l.next <= i /\ i <= l.length /\ l.fns[i] = Internal("complete")

\* The frame f leads to dequeue of e.
LeadsTo(f, e) ==
    \/ f.code \in {"dequeue", "stop"} /\ f.elem = e
    \/ f.code \in {"begin", "attach"} /\ target[f.anim] = e
    \/ /\ f.code = "fire" /\ f.list[2] = "done" /\ f.list[1] \in Asked
       /\ target[f.list[1]] = e /\ ToComplete(lists[f.list])
    \/ f.code = "loop" /\ f.elem = e /\ (f.dequeue \/ ~f.gotoEnd)
    \/ f.code = "splice" /\ f.elem = e /\ ~f.gotoEnd
    \/ f.code = "finish" /\ \E a \in Held(f) : target[a] = e

Wakes(e) ==
    \/ timeouts[e] > 0
    \/ \E a \in made \cap Anims : target[a] = e /\ state[a] = "pending"
    \/ \E f \in Range(frames) : LeadsTo(f, e)

\* The queue is in progress, or has been emptied and not by a finish that told nobody.
Due(e) == Sentinel(data[e].queue) \/ (data[e].hooks /\ e \notin forgotten)

WakeInv == ~threw => \A e \in Elems : Due(e) => Wakes(e)

-----------------------------------------------------------------------------
(* The invariant: promises.                                                *)

Waits(p) == {e \in Elems : p \in Range(data[e].waiters)}
Told(p) == \E f \in Range(frames) : f.code = "empty" /\ p \in Range(f.waiters)

PromiseOK(p) ==
    /\ ~lists[<<p, "fail">>].fired
    /\ p \notin made => ~lists[<<p, "done">>].fired
    /\ p \in made \ dropped =>
          /\ remaining[p] = Cardinality(Waits(p)) + (IF Told(p) THEN 1 ELSE 0)
          /\ lists[<<p, "done">>].fired <=> remaining[p] = 0

PromiseInv == \A p \in Counted : PromiseOK(p)

EffectsInv ==
    TypeInv /\ ListInv /\ StackInv /\ QueueInv /\ AnimInv /\ WakeInv /\ PromiseInv

-----------------------------------------------------------------------------
(* Lemmas about stacks of frames.                                          *)

\* A frame is put on a stack.
LEMMA PushFacts ==
    ASSUME NEW F, NEW s \in Seq(F), NEW f \in F
    PROVE  /\ <<f>> \o s \in Seq(F) /\ <<f>> \o s # <<>>
           /\ Head(<<f>> \o s) = f /\ Tail(<<f>> \o s) = s
           /\ Range(<<f>> \o s) = {f} \cup Range(s)
           /\ DOMAIN (<<f>> \o s) = 1 .. Len(s) + 1 /\ DOMAIN s = 1 .. Len(s)
           /\ (<<f>> \o s)[1] = f
           /\ \A i \in DOMAIN (<<f>> \o s) :
                 i # 1 => i - 1 \in DOMAIN s /\ (<<f>> \o s)[i] = s[i - 1]
<1>1. PICK t : t = <<f>> \o s
  OBVIOUS
<1>2. t \in Seq(F) /\ Len(t) = Len(s) + 1 /\ Len(s) \in Nat
  BY <1>1
<1>3. DOMAIN t = 1 .. Len(s) + 1 /\ DOMAIN s = 1 .. Len(s)
  BY <1>2
<1>4. t[1] = f /\ \A i \in 1 .. Len(s) : t[i + 1] = s[i]
  BY <1>1
<1>5. \A i \in DOMAIN t : i # 1 => i - 1 \in DOMAIN s /\ t[i] = s[i - 1]
  BY <1>1, <1>2, <1>3
<1>6. Head(t) = f /\ Tail(t) = s /\ t # <<>>
  BY <1>1
<1>7. Range(t) = {f} \cup Range(s)
  <2>1. \A i \in DOMAIN t : t[i] \in {f} \cup Range(s)
    BY <1>4, <1>5 DEF Range
  <2>2. f \in Range(t)
    BY <1>2, <1>3, <1>4 DEF Range
  <2>3. \A i \in DOMAIN s : s[i] \in Range(t)
    <3> TAKE i \in DOMAIN s
    <3>1. i \in 1 .. Len(s) /\ i + 1 \in DOMAIN t
      BY <1>2, <1>3
    <3> QED BY <1>4, <3>1 DEF Range
  <2> QED BY <2>1, <2>2, <2>3 DEF Range
<1> QED BY <1>1, <1>2, <1>3, <1>4, <1>5, <1>6, <1>7

\* A stack is its top on the rest.
LEMMA PopFacts ==
    ASSUME NEW F, NEW s \in Seq(F), s # <<>>
    PROVE  /\ Head(s) \in F /\ Tail(s) \in Seq(F) /\ s = <<Head(s)>> \o Tail(s)
           /\ Range(s) = {Head(s)} \cup Range(Tail(s))
           /\ 1 \in DOMAIN s /\ s[1] = Head(s)
           /\ \A i \in DOMAIN Tail(s) : i + 1 \in DOMAIN s /\ Tail(s)[i] = s[i + 1]
<1>1. Head(s) \in F /\ Tail(s) \in Seq(F)
  OBVIOUS
<1>2. s = <<Head(s)>> \o Tail(s)
  BY <1>1
<1>3. Range(s) = {Head(s)} \cup Range(Tail(s))
  BY <1>1, <1>2, PushFacts
<1>4. 1 \in DOMAIN s /\ s[1] = Head(s)
  OBVIOUS
<1>5. \A i \in DOMAIN Tail(s) : i + 1 \in DOMAIN s /\ Tail(s)[i] = s[i + 1]
  OBVIOUS
<1> QED BY <1>1, <1>2, <1>3, <1>4, <1>5

\* What is in a sequence is of its type.
LEMMA RangeType ==
    ASSUME NEW F, NEW s \in Seq(F)
    PROVE  Range(s) \subseteq F /\ Range(<<>>) = {}
BY DEF Range

\* What may run on a stack that is still.
LEMMA StillPush ==
    ASSUME NEW F, NEW s \in Seq(F), NEW f \in F, Still(s)
    PROVE  Calm(<<f>> \o s) /\ (~Delicate(f) => Still(<<f>> \o s))
<1>1. PICK t : t = <<f>> \o s
  OBVIOUS
<1>2. /\ t[1] = f
      /\ \A i \in DOMAIN t : i # 1 => i - 1 \in DOMAIN s /\ t[i] = s[i - 1]
  BY <1>1, PushFacts
<1>3. \A i \in DOMAIN t : i # 1 => ~Delicate(t[i])
  BY <1>2 DEF Still
<1>4. Calm(t)
  BY <1>3 DEF Calm
<1>5. ~Delicate(f) => Still(t)
  BY <1>2, <1>3 DEF Still
<1> QED BY <1>1, <1>4, <1>5

\* A loop in which the deferred settles that the frame below is about.
LEMMA SettlerPush ==
    ASSUME NEW F, NEW s \in Seq(F), NEW f \in F, NEW g \in F, Still(s), Settler(g, f)
    PROVE  Calm(<<g>> \o (<<f>> \o s))
<1>1. PICK t : t = <<f>> \o s
  OBVIOUS
<1>2. PICK u : u = <<g>> \o t
  OBVIOUS
<1>3. /\ t \in Seq(F) /\ t[1] = f
      /\ \A i \in DOMAIN t : i # 1 => i - 1 \in DOMAIN s /\ t[i] = s[i - 1]
  BY <1>1, PushFacts
<1>4. /\ u[1] = g
      /\ \A i \in DOMAIN u : i # 1 => i - 1 \in DOMAIN t /\ u[i] = t[i - 1]
      /\ DOMAIN u = 1 .. Len(t) + 1 /\ Len(t) \in Nat
  BY <1>2, <1>3, PushFacts
<1>5. ASSUME NEW i \in DOMAIN u, Delicate(u[i]), i # 1
      PROVE  i = 2 /\ Settler(u[1], u[2])
  <2>1. i - 1 \in DOMAIN t /\ u[i] = t[i - 1]
    BY <1>4, <1>5
  <2>2. i - 1 = 1
    BY <1>3, <1>5, <2>1 DEF Still
  <2>3. i = 2
    BY <1>4, <2>2
  <2> QED BY <1>3, <1>4, <2>1, <2>2, <2>3
<1>6. Calm(u)
  BY <1>5 DEF Calm
<1> QED BY <1>1, <1>2, <1>6

\* What is below the top of a calm stack.
LEMMA CalmFacts ==
    ASSUME NEW F, NEW s \in Seq(F), s # <<>>, Calm(s)
    PROVE  /\ Calm(Tail(s))
           /\ Head(s).code # "fire" => Still(Tail(s))
           /\ Head(s).code # "fire" /\ ~Delicate(Head(s)) => Still(s)
           /\ \A f \in Range(Tail(s)) : Delicate(f) =>
                 Settler(Head(s), f) /\ Tail(s) # <<>> /\ Head(Tail(s)) = f
                 /\ Still(Tail(Tail(s)))
<1>1. PICK t : t = Tail(s)
  OBVIOUS
<1>2. /\ t \in Seq(F) /\ s[1] = Head(s)
      /\ \A i \in DOMAIN t : i + 1 \in DOMAIN s /\ t[i] = s[i + 1] /\ i \in Nat /\ i >= 1
  BY <1>1, PopFacts
<1>3. \A i \in DOMAIN t : Delicate(t[i]) => i = 1 /\ Settler(Head(s), t[1])
  <2> TAKE i \in DOMAIN t
  <2> HAVE Delicate(t[i])
  <2>1. i + 1 = 2 /\ Settler(s[1], s[2])
    BY <1>2 DEF Calm
  <2>2. i = 1 /\ t[i] = s[2]
    BY <1>2, <2>1
  <2> QED BY <1>2, <2>1, <2>2
<1>4. Calm(t)
  BY <1>3 DEF Calm
<1>5. Head(s).code # "fire" => Still(t)
  BY <1>3 DEF Still, Settler
<1>6. Head(s).code # "fire" /\ ~Delicate(Head(s)) => Still(s)
  BY <1>2 DEF Still, Calm, Settler
<1>7. ASSUME NEW f \in Range(t), Delicate(f)
      PROVE  Settler(Head(s), f) /\ t # <<>> /\ Head(t) = f /\ Still(Tail(t))
  <2>1. PICK i \in DOMAIN t : f = t[i]
    BY DEF Range
  <2>2. i = 1 /\ Settler(Head(s), f)
    BY <1>3, <1>7, <2>1
  <2>3. t # <<>> /\ Head(t) = f
    BY <1>2, <2>1, <2>2
  <2>4. ASSUME NEW j \in DOMAIN Tail(t), Delicate(Tail(t)[j])
        PROVE  FALSE
    <3>1. j + 1 \in DOMAIN t /\ Tail(t)[j] = t[j + 1] /\ j \in Nat /\ j >= 1
      BY <1>2, <2>3, PopFacts
    <3>2. j + 1 = 1
      BY <1>3, <2>4, <3>1
    <3> QED BY <3>1, <3>2
  <2> QED BY <2>2, <2>3, <2>4 DEF Still
<1> QED BY <1>1, <1>4, <1>5, <1>6, <1>7

\* The animations that frames hold stay apart.
LEMMA ApartPush ==
    ASSUME NEW F, NEW s \in Seq(F), NEW f \in F, Apart(s),
           \A g \in Range(s) : Held(f) \cap Held(g) = {}
    PROVE  Apart(<<f>> \o s)
<1>1. PICK t : t = <<f>> \o s
  OBVIOUS
<1>2. /\ t[1] = f /\ DOMAIN t = 1 .. Len(s) + 1 /\ Len(s) \in Nat
      /\ \A i \in DOMAIN t : i # 1 => i - 1 \in DOMAIN s /\ t[i] = s[i - 1]
  BY <1>1, PushFacts
<1>3. \A i \in DOMAIN t : i # 1 => Held(f) \cap Held(t[i]) = {}
  BY <1>2 DEF Range
<1>4. ASSUME NEW i \in DOMAIN t, NEW j \in DOMAIN t, i # j
      PROVE  Held(t[i]) \cap Held(t[j]) = {}
  <2>1. CASE i = 1
    BY <1>2, <1>3, <1>4, <2>1
  <2>2. CASE j = 1
    BY <1>2, <1>3, <1>4, <2>2
  <2>3. CASE i # 1 /\ j # 1
    <3>1. i - 1 \in DOMAIN s /\ j - 1 \in DOMAIN s /\ t[i] = s[i - 1] /\ t[j] = s[j - 1]
      BY <1>2, <2>3
    <3>2. i - 1 # j - 1
      BY <1>2, <1>4
    <3> QED BY <3>1, <3>2 DEF Apart
  <2> QED BY <2>1, <2>2, <2>3
<1> QED BY <1>1, <1>4 DEF Apart

LEMMA ApartPop ==
    ASSUME NEW F, NEW s \in Seq(F), s # <<>>, Apart(s)
    PROVE  /\ Apart(Tail(s))
           /\ \A f \in Range(Tail(s)) : Held(Head(s)) \cap Held(f) = {}
<1>1. PICK t : t = Tail(s)
  OBVIOUS
<1>2. /\ t \in Seq(F) /\ s[1] = Head(s) /\ 1 \in DOMAIN s
      /\ \A i \in DOMAIN t : i + 1 \in DOMAIN s /\ t[i] = s[i + 1] /\ i \in Nat /\ i >= 1
  BY <1>1, PopFacts
<1>3. ASSUME NEW i \in DOMAIN t, NEW j \in DOMAIN t, i # j
      PROVE  Held(t[i]) \cap Held(t[j]) = {}
  <2>1. i + 1 # j + 1
    BY <1>2, <1>3
  <2> QED BY <1>2, <2>1 DEF Apart
<1>4. ASSUME NEW i \in DOMAIN t
      PROVE  Held(Head(s)) \cap Held(t[i]) = {}
  <2>1. i + 1 # 1
    BY <1>2
  <2> QED BY <1>2, <2>1 DEF Apart
<1> QED BY <1>1, <1>3, <1>4 DEF Apart, Range

-----------------------------------------------------------------------------
(* Lemmas about the operations of Callbacks.                               *)

\* A finite set as a sequence: each element once.
LEMMA SetAsSeq ==
    ASSUME NEW S, IsFiniteSet(S)
    PROVE  /\ SetToSeq(S) \in Seq(S)
           /\ \A x \in S : \E i \in DOMAIN SetToSeq(S) : SetToSeq(S)[i] = x
           /\ \A i, j \in DOMAIN SetToSeq(S) : SetToSeq(S)[i] = SetToSeq(S)[j] => i = j
<1>1. PICK n : n = Cardinality(S)
  OBVIOUS
<1>2. n \in Nat /\ ExistsBijection(1 .. n, S)
  BY <1>1, FS_CardinalityType
<1>3. PICK g : g \in Bijection(1 .. n, S)
  BY <1>2 DEF ExistsBijection
<1>4. g \in [1 .. n -> S] /\ IsInjective(g)
  BY <1>3 DEF Bijection, Injection, IsInjective
<1>5. PICK f : f = SetToSeq(S)
  OBVIOUS
<1>6. f \in [1 .. n -> S] /\ IsInjective(f)
  BY <1>1, <1>4, <1>5 DEF SetToSeq
<1>7. f \in Injection(1 .. n, S) /\ IsFiniteSet(1 .. n) /\ Cardinality(1 .. n) = n
  BY <1>2, <1>6, FS_Interval DEF Injection, IsInjective
<1>8. f \in Surjection(1 .. n, S)
  BY <1>1, <1>7, FS_Injection
<1> QED BY <1>2, <1>5, <1>6, <1>8 DEF Surjection, IsInjective

\* The fields of a list.
LEMMA ListFields ==
    ASSUME NEW l \in List
    PROVE  /\ l = [on |-> l.on, open |-> l.open, memory |-> l.memory, fired |-> l.fired,
                   firing |-> l.firing, next |-> l.next, length |-> l.length,
                   queued |-> l.queued, fns |-> l.fns]
           /\ l.on \in BOOLEAN /\ l.open \in BOOLEAN /\ l.memory \in BOOLEAN
           /\ l.fired \in BOOLEAN /\ l.firing \in BOOLEAN
           /\ l.next \in Nat /\ l.length \in Nat /\ l.queued \in Nat /\ l.fns \in Seq(Entry)
BY DEF List

\* A list that starts is one.
LEMMA StartedOK ==
    ASSUME NEW l \in List, NEW n \in 1 .. Len(l.fns) + 1
    PROVE  /\ Started(l, n) \in List /\ ListOK(Started(l, n))
           /\ Started(l, n) = [l EXCEPT !.memory = TRUE, !.fired = TRUE, !.firing = TRUE,
                                        !.next = n, !.length = Len(l.fns)]
<1>1. l.fns \in Seq(Entry) /\ Len(l.fns) \in Nat
  BY ListFields
<1>2. Started(l, n) \in List
  <2>1. PICK k : k = Len(l.fns)
    OBVIOUS
  <2>2. [l EXCEPT !.memory = TRUE, !.fired = TRUE, !.firing = TRUE, !.next = n,
                  !.length = k] \in List
    <3>1. n \in Nat /\ k \in Nat
      BY <1>1, <2>1
    <3> QED BY <3>1 DEF List
  <2> QED BY <2>1, <2>2 DEF Started
<1>3. Started(l, n).next = n /\ Started(l, n).length = Len(l.fns) /\ Started(l, n).fns = l.fns
  BY ListFields DEF Started, List
<1> QED BY <1>1, <1>2, <1>3 DEF Started, ListOK

\* A list to which an entry is added is one.
LEMMA AddedOK ==
    ASSUME NEW l \in List, ListOK(l), NEW e \in Entry
    PROVE  Added(l, e) \in List /\ ListOK(Added(l, e))
<1>1. /\ l.fns \in Seq(Entry) /\ Len(l.fns) \in Nat
      /\ l.next \in Nat /\ l.length \in Nat
  BY ListFields
<1>2. PICK n : n = Len(l.fns)
  OBVIOUS
<1>3. Append(l.fns, e) \in Seq(Entry) /\ Len(Append(l.fns, e)) = n + 1 /\ n \in Nat
  BY <1>1, <1>2
<1>4. /\ Pushed(l, e) \in List
      /\ Pushed(l, e) = [l EXCEPT !.fns = Append(l.fns, e)]
      /\ Pushed(l, e).fns = Append(l.fns, e) /\ Pushed(l, e).next = l.next
      /\ Pushed(l, e).length = l.length /\ Pushed(l, e).on = l.on
  BY <1>3 DEF Pushed, List
<1>5. PICK q : q = Pushed(l, e)
  OBVIOUS
<1>6. q \in List /\ q.fns \in Seq(Entry) /\ Len(q.fns) = n + 1 /\ q.next = l.next
      /\ q.length = l.length
  BY <1>3, <1>4, <1>5
<1>7. CASE ~l.on
  BY <1>7 DEF Added
<1>8. CASE l.on /\ l.firing
  <2>1. Added(l, e) = [q EXCEPT !.length = n + 1]
    BY <1>2, <1>5, <1>8 DEF Added
  <2>2. [q EXCEPT !.length = n + 1] \in List
    BY <1>3, <1>6 DEF List
  <2>3. [q EXCEPT !.length = n + 1].next = l.next /\ [q EXCEPT !.length = n + 1].length = n + 1
        /\ [q EXCEPT !.length = n + 1].fns = q.fns
    BY <1>6 DEF List
  <2>4. l.next >= 1 /\ l.next <= n + 2
    BY <1>1, <1>2, <1>3, <1>8 DEF ListOK
  <2>5. PICK m : m = [q EXCEPT !.length = n + 1]
    OBVIOUS
  <2>6. m \in List /\ m.next = l.next /\ m.length = n + 1 /\ Len(m.fns) = n + 1
    BY <1>6, <2>2, <2>3, <2>5
  <2>7. ListOK(m)
    BY <1>1, <1>3, <2>4, <2>6 DEF ListOK
  <2> QED BY <2>1, <2>5, <2>6, <2>7
<1>9. CASE l.on /\ ~l.firing /\ l.memory
  <2>1. Added(l, e) = Started(q, n + 1)
    BY <1>2, <1>5, <1>9 DEF Added
  <2>2. n + 1 \in 1 .. Len(q.fns) + 1
    BY <1>3, <1>6
  <2>3. Started(q, n + 1) \in List /\ ListOK(Started(q, n + 1))
    BY <1>6, <2>2, StartedOK
  <2> QED BY <2>1, <2>3
<1>10. CASE l.on /\ ~l.firing /\ ~l.memory
  BY <1>1, <1>2, <1>3, <1>5, <1>6, <1>10 DEF Added, ListOK
<1>11. l.on \in BOOLEAN /\ l.firing \in BOOLEAN /\ l.memory \in BOOLEAN
  BY ListFields
<1> QED BY <1>7, <1>8, <1>9, <1>10, <1>11

\* A list that is switched off, or locked, is one.
LEMMA DisabledOK ==
    ASSUME NEW l \in List, ListOK(l)
    PROVE  /\ Disabled(l) \in List /\ ListOK(Disabled(l))
           /\ Locked(l) \in List /\ ListOK(Locked(l))
<1>1. <<>> \in Seq(Entry)
  OBVIOUS
<1>2. Disabled(l) \in List
  BY <1>1 DEF Disabled, List
<1>3. Disabled(l).next = l.next /\ Disabled(l).length = l.length /\ ~Disabled(l).on
  BY DEF Disabled, List
<1>4. [l EXCEPT !.open = FALSE, !.queued = 0] \in List
  BY DEF List
<1>5. ListOK([l EXCEPT !.open = FALSE, !.queued = 0])
  BY DEF List, ListOK
<1> QED BY <1>2, <1>3, <1>4, <1>5 DEF Locked, ListOK

\* A list whose loop goes on to the next entry is one.
LEMMA SteppedOK ==
    ASSUME NEW l \in List, ListOK(l), l.on, l.next <= l.length
    PROVE  [l EXCEPT !.next = @ + 1] \in List /\ ListOK([l EXCEPT !.next = @ + 1])
BY DEF List, ListOK

\* A list for which one more pass waits is one.
LEMMA QueuedOK ==
    ASSUME NEW l \in List, ListOK(l)
    PROVE  [l EXCEPT !.queued = @ + 1] \in List /\ ListOK([l EXCEPT !.queued = @ + 1])
<1>1. l.queued + 1 \in Nat
  BY DEF List
<1>2. PICK n : n = l.queued + 1
  OBVIOUS
<1>3. [l EXCEPT !.queued = n] \in List
  BY <1>1, <1>2 DEF List
<1>4. ListOK([l EXCEPT !.queued = n])
  BY DEF List, ListOK
<1> QED BY <1>2, <1>3, <1>4

\* A list whose pass has ended is one.
LEMMA EndedOK ==
    ASSUME NEW l \in List
    PROVE  LET m == [l EXCEPT !.firing = FALSE, !.fns = IF l.open THEN l.fns ELSE <<>>,
                              !.next = 1, !.length = 0]
           IN  m \in List /\ ListOK(m)
<1>1. PICK f : f = IF l.open THEN l.fns ELSE <<>>
  OBVIOUS
<1>2. f \in Seq(Entry) /\ Len(f) \in Nat
  BY <1>1, ListFields
<1> DEFINE m == [l EXCEPT !.firing = FALSE, !.fns = f, !.next = 1, !.length = 0]
<1>3. m \in List /\ m.next = 1 /\ m.length = 0 /\ m.fns = f
  BY <1>2 DEF List
<1>4. m \in List /\ ListOK(m)
  BY <1>2, <1>3 DEF ListOK
<1> QED BY <1>1, <1>4

-----------------------------------------------------------------------------
(* What they do to a list that is good.                                    *)

\* A pass over the whole list starts.
LEMMA StartedFacts ==
    ASSUME NEW l \in List, ListOK(l), NEW k, NEW s, Good(k, l, s), l.on,
           NEW m, m = Started(l, 1)
    PROVE  /\ m \in List /\ ListOK(m) /\ Good(k, m, s)
           /\ m.on /\ m.fired /\ m.firing /\ m.next = 1 /\ m.fns = l.fns
           /\ m.length = Len(m.fns)
<1>1. l.fns \in Seq(Entry) /\ Len(l.fns) \in Nat
  BY ListFields
<1>2. 1 \in 1 .. Len(l.fns) + 1
  BY <1>1
<1>3. /\ m \in List /\ ListOK(m)
      /\ m = [l EXCEPT !.memory = TRUE, !.fired = TRUE, !.firing = TRUE,
                       !.next = 1, !.length = Len(l.fns)]
  BY <1>2, StartedOK
<1>4. /\ m.on = l.on /\ m.fired /\ m.firing /\ m.memory /\ m.next = 1 /\ m.fns = l.fns
      /\ m.length = Len(m.fns) /\ m.open = l.open
  BY <1>3 DEF List
<1> HIDE <1>3
<1>5. Good(k, m, s)
  BY <1>4 DEF Good
<1> QED BY <1>3, <1>4, <1>5

\* The list id of ls is m after fireWith, called by the code whose frames are rest.
FiresAs(ls, id, rest, s, m) ==
    /\ lists' = [ls EXCEPT ![id] = m]
    /\ ListOK(m) /\ Good(id[2], m, s) /\ m.on = ls[id].on /\ m.fns = ls[id].fns
    /\ \/ /\ frames' = rest /\ m.fired = ls[id].fired /\ m.firing = ls[id].firing
          /\ m.next = ls[id].next /\ m.length = ls[id].length
          /\ id \in Settling => ~ls[id].on \/ ls[id].fired
       \/ /\ frames' = <<FireFrame(id)>> \o rest /\ ls[id].on
          /\ m.fired /\ m.firing /\ m.next = 1 /\ m.length = Len(m.fns)
          /\ id \in Settling => ~ls[id].fired

\* fireWith: another pass is counted, a pass starts, or nothing happens.
LEMMA FireFacts ==
    ASSUME NEW ls, ListsOK(ls), NEW id \in ListIds, NEW s, Good(id[2], ls[id], s), NEW rest,
           FireWith(ls, id, rest)
    PROVE  \E m \in List : FiresAs(ls, id, rest, s, m)
<1>0. PICK l : l = ls[id]
  OBVIOUS
<1>1. l \in List /\ ListOK(l) /\ ls \in [ListIds -> List] /\ Good(id[2], l, s)
  BY <1>0 DEF ListsOK
<1>2. id \in Settling => id[2] \in {"done", "fail"}
  BY DEF Settling
<1>3. CASE ~l.on \/ (l.fired /\ ~l.open)
  <2>1. lists' = ls /\ frames' = rest
    BY <1>0, <1>3 DEF FireWith
  <2>2. lists' = [ls EXCEPT ![id] = l]
    BY <1>0, <1>1, <2>1
  <2> QED BY <1>0, <1>1, <1>3, <2>1, <2>2 DEF FiresAs
<1>4. CASE l.on /\ ~(l.fired /\ ~l.open) /\ l.firing
  <2>1. lists' = [ls EXCEPT ![id].queued = @ + 1] /\ frames' = rest
    BY <1>0, <1>4 DEF FireWith
  <2>2. PICK m : m = [l EXCEPT !.queued = @ + 1]
    OBVIOUS
  <2>3. m \in List /\ ListOK(m)
    BY <1>1, <2>2, QueuedOK
  <2>4. lists' = [ls EXCEPT ![id] = m]
    BY <1>0, <1>1, <2>1, <2>2
  <2>5. /\ m.on = l.on /\ m.fns = l.fns /\ m.fired = l.fired /\ m.firing = l.firing
        /\ m.next = l.next /\ m.length = l.length /\ m.open = l.open /\ m.memory = l.memory
    BY <1>1, <2>2 DEF List
  <2> HIDE <2>2
  <2>6. Good(id[2], m, s)
    BY <1>1, <2>5 DEF Good
  <2>7. id[2] \in {"done", "fail"} => l.fired
    <3>1. s = "pending" => l.fired = l.firing \/ id[2] \notin {"done", "fail"}
      BY <1>1 DEF Good
    <3> QED BY <1>1, <1>4, <3>1 DEF Good
  <2> QED BY <1>0, <1>2, <2>1, <2>3, <2>4, <2>5, <2>6, <2>7 DEF FiresAs
<1>5. CASE l.on /\ ~(l.fired /\ ~l.open) /\ ~l.firing
  <2>1. lists' = [ls EXCEPT ![id] = Started(l, 1)] /\ frames' = <<FireFrame(id)>> \o rest
    BY <1>0, <1>5 DEF FireWith
  <2>2. PICK m : m = Started(l, 1)
    OBVIOUS
  <2>3. /\ m \in List /\ ListOK(m) /\ Good(id[2], m, s)
        /\ m.on /\ m.fired /\ m.firing /\ m.next = 1 /\ m.fns = l.fns
        /\ m.length = Len(m.fns)
    BY <1>1, <1>5, <2>2, StartedFacts
  <2>4. id[2] \in {"done", "fail"} => ~l.fired
    BY <1>1, <1>5 DEF Good
  <2>5. l.on \in BOOLEAN /\ m.on \in BOOLEAN
    BY <1>1, <2>3, ListFields
  <2> QED BY <1>0, <1>2, <1>5, <2>1, <2>2, <2>3, <2>4, <2>5 DEF FiresAs
<1>6. l.on \in BOOLEAN /\ l.fired \in BOOLEAN /\ l.open \in BOOLEAN /\ l.firing \in BOOLEAN
  BY <1>1, ListFields
<1> QED BY <1>3, <1>4, <1>5, <1>6

\* add: the entry joins the pass, is called at once, or waits.
LEMMA AddedFacts ==
    ASSUME NEW l \in List, ListOK(l), NEW k, NEW s, Good(k, l, s), NEW e \in Entry,
           Allowed(e, k), NEW m, m = Added(l, e)
    PROVE  /\ m \in List /\ ListOK(m) /\ Good(k, m, s) /\ m.on = l.on
           /\ k \in {"done", "fail"} => m.fired = l.fired
           /\ l.fired => m.fired
           /\ l.on => m.fns = Append(l.fns, e)
           /\ ~l.on => m = l
           /\ ~(l.on /\ ~l.firing /\ l.memory) => m.firing = l.firing /\ m.next = l.next
           /\ l.on /\ ~l.firing /\ l.memory => m.fired /\ m.firing /\ m.next = Len(l.fns) + 1
           /\ l.on /\ (l.firing \/ l.memory) => m.length = Len(m.fns)
<1>1. m \in List /\ ListOK(m)
  BY AddedOK
<1>2. l.fns \in Seq(Entry) /\ Len(l.fns) \in Nat
  BY ListFields
<1>3. PICK g : g = Append(l.fns, e)
  OBVIOUS
<1>4. /\ g \in Seq(Entry) /\ Len(g) = Len(l.fns) + 1
      /\ \A i \in DOMAIN g : g[i] = e \/ (i \in DOMAIN l.fns /\ g[i] = l.fns[i])
      /\ l.fns # <<>> => g # <<>> /\ g[1] = l.fns[1]
  BY <1>2, <1>3
<1>5. \A i \in DOMAIN g : Allowed(g[i], k)
  BY <1>4 DEF Good
<1>6. Pushed(l, e) = [l EXCEPT !.fns = g]
  BY <1>3 DEF Pushed
<1>7. CASE ~l.on
  <2>1. m = l
    BY <1>7 DEF Added
  <2> QED BY <1>1, <1>7, <2>1
<1>8. CASE l.on /\ l.firing
  <2>1. m = [[l EXCEPT !.fns = g] EXCEPT !.length = Len(l.fns) + 1]
    BY <1>6, <1>8 DEF Added
  <2>2. /\ m.on = l.on /\ m.fired = l.fired /\ m.firing = l.firing /\ m.next = l.next
        /\ m.fns = g /\ m.length = Len(g) /\ m.open = l.open /\ m.memory = l.memory
    BY <1>2, <1>4, <2>1 DEF List
  <2> HIDE <2>1
  <2>3. Good(k, m, s)
    BY <1>4, <1>5, <1>8, <2>2 DEF Good
  <2> QED BY <1>1, <1>3, <1>8, <2>2, <2>3
<1>9. CASE l.on /\ ~l.firing /\ l.memory
  <2>1. m = Started([l EXCEPT !.fns = g], Len(l.fns) + 1)
    BY <1>6, <1>9 DEF Added
  <2>2. [l EXCEPT !.fns = g].fns = g
    BY DEF List
  <2>3. m = [[l EXCEPT !.fns = g] EXCEPT !.memory = TRUE, !.fired = TRUE, !.firing = TRUE,
                                         !.next = Len(l.fns) + 1, !.length = Len(g)]
    BY <2>1, <2>2 DEF Started
  <2>4. /\ m.on = l.on /\ m.fired /\ m.firing /\ m.next = Len(l.fns) + 1 /\ m.memory
        /\ m.fns = g /\ m.length = Len(g) /\ m.open = l.open
    BY <2>3 DEF List
  <2> HIDE <2>1, <2>3
  <2>5. k \in {"done", "fail"} => l.fired /\ s # "pending"
    BY <1>9 DEF Good
  <2>6. Good(k, m, s)
    BY <1>4, <1>5, <1>9, <2>4, <2>5 DEF Good
  <2>7. l.fired \in BOOLEAN /\ m.fired \in BOOLEAN
    BY <1>1, ListFields
  <2> QED BY <1>1, <1>3, <1>9, <2>4, <2>5, <2>6, <2>7
<1>10. CASE l.on /\ ~l.firing /\ ~l.memory
  <2>1. m = [l EXCEPT !.fns = g]
    BY <1>6, <1>10 DEF Added
  <2>2. /\ m.on = l.on /\ m.fired = l.fired /\ m.firing = l.firing /\ m.next = l.next
        /\ m.fns = g /\ m.length = l.length /\ m.open = l.open /\ m.memory = l.memory
    BY <2>1 DEF List
  <2> HIDE <2>1
  <2>3. Good(k, m, s)
    BY <1>4, <1>5, <1>10, <2>2 DEF Good
  <2> QED BY <1>1, <1>3, <1>10, <2>2, <2>3
<1>11. l.on \in BOOLEAN /\ l.firing \in BOOLEAN /\ l.memory \in BOOLEAN
  BY ListFields
<1> QED BY <1>7, <1>8, <1>9, <1>10, <1>11

\* The list l after a step of its loop, and after a pass.
Further(l) == [l EXCEPT !.next = @ + 1]
Over(l) == [l EXCEPT !.firing = FALSE, !.fns = IF l.open THEN l.fns ELSE <<>>,
                     !.next = 1, !.length = 0]

\* The list l, of the kind k, has settled its deferred, or does so now.
Settled(k, l, t) == k \in {"done", "fail"} => t = Outcome(k) /\ l.fired

\* The loop goes on to the next entry, of a list that has settled or does so now.
LEMMA SteppedFacts ==
    ASSUME NEW l \in List, ListOK(l), l.on, l.next <= l.length, NEW k, NEW s, NEW t,
           Good(k, l, s), Settled(k, l, t),
           NEW m, m = Further(l)
    PROVE  /\ m \in List /\ ListOK(m) /\ Good(k, m, t)
           /\ m.next = l.next + 1 /\ m.on = l.on /\ m.fired = l.fired /\ m.firing = l.firing
           /\ m.length = l.length /\ m.fns = l.fns
<1>1. m \in List /\ ListOK(m)
  BY SteppedOK DEF Further
<1>2. /\ m.next = l.next + 1 /\ m.on = l.on /\ m.fired = l.fired /\ m.firing = l.firing
      /\ m.length = l.length /\ m.fns = l.fns /\ m.open = l.open /\ m.memory = l.memory
  BY DEF List, Further
<1>3. k \in {"done", "fail"} => t \in {"resolved", "rejected"}
  BY DEF Outcome, Settled
<1>4. Good(k, m, t)
  BY <1>2, <1>3 DEF Good, Settled
<1> QED BY <1>1, <1>2, <1>4

\* A list that is switched off, or locked.
LEMMA OffFacts ==
    ASSUME NEW l \in List, ListOK(l), NEW k, NEW s, NEW t, Good(k, l, s),
           NEW m, m = Disabled(l), NEW n, n = Locked(l)
    PROVE  /\ m \in List /\ ListOK(m) /\ ~m.on /\ m.fired = l.fired /\ m.firing = l.firing
           /\ k \in {"done", "fail"} /\ t \notin {"pending", Outcome(k)} => Good(k, m, t)
           /\ n \in List /\ ListOK(n) /\ n.fired = l.fired
           /\ k = "progress" => Good(k, n, t)
<1>1. m \in List /\ ListOK(m) /\ n \in List /\ ListOK(n)
  BY DisabledOK
<1>2. ~m.on /\ m.fired = l.fired /\ m.firing = l.firing /\ m.fns = <<>> /\ ~m.open
  BY DEF Disabled, List
<1>3. n.fired = l.fired /\ (n.fns = l.fns \/ n.fns = <<>>)
  BY DEF Locked, Disabled, List
<1>4. k \in {"done", "fail"} /\ t \notin {"pending", Outcome(k)} => Good(k, m, t)
  BY <1>2 DEF Good
<1>5. k = "progress" => Good(k, n, t)
  BY <1>3 DEF Good
<1> QED BY <1>1, <1>2, <1>3, <1>4, <1>5

\* The end of a pass.
LEMMA EndedFacts ==
    ASSUME NEW l \in List, ListOK(l), NEW k, NEW s, Good(k, l, s),
           k \in {"done", "fail"} => s # "pending",
           NEW m, m = Over(l)
    PROVE  /\ m \in List /\ ListOK(m) /\ Good(k, m, s)
           /\ m.on = l.on /\ m.fired = l.fired /\ ~m.firing
<1>1. m \in List /\ ListOK(m)
  BY EndedOK DEF Over
<1>2. /\ m.on = l.on /\ m.fired = l.fired /\ ~m.firing /\ m.open = l.open
      /\ m.memory = l.memory /\ (m.fns = l.fns \/ m.fns = <<>>)
  BY DEF List, Over
<1>3. \A i \in DOMAIN m.fns : Allowed(m.fns[i], k)
  <2>1. CASE m.fns = l.fns
    BY <2>1 DEF Good
  <2>2. CASE m.fns = <<>>
    BY <2>2
  <2> QED BY <1>2, <2>1, <2>2
<1>4. /\ k \in {"done", "fail"} =>
            /\ ~l.open /\ (l.on => l.memory = l.fired)
            /\ (s = Outcome(k) => l.on /\ l.fired)
            /\ (s \notin {"pending", Outcome(k)} => ~l.on)
  BY DEF Good
<1>5. Good(k, m, s)
  BY <1>2, <1>3, <1>4 DEF Good
<1> QED BY <1>1, <1>2, <1>5


-----------------------------------------------------------------------------
(* Lemmas about frames.                                                    *)

\* The frames that the actions put on the stack.
LEMMA FrameTypes ==
    /\ \A id \in ListIds : FireFrame(id) \in Frames /\ CallFrame(id, NoDeferred) \in Frames
    /\ \A e \in Elems : DequeueFrame(e) \in Frames
    /\ \A ps \in Seq(Counted) : EmptyFrame(ps) \in Frames
    /\ \A a \in Anims : BeginFrame(a) \in Frames /\ AttachFrame(a) \in Frames
                        /\ BegunFrame(a) \in Frames
    /\ \A i \in Places : TickFrame(i) \in Frames
    /\ \A i \in Places, a \in Anims : TimerFrame(i, a) \in Frames /\ TickedFrame(i, a) \in Frames
    /\ \A e \in Elems, g \in BOOLEAN : StopFrame(e, g) \in Frames
    /\ \A e \in Elems, g \in BOOLEAN, i \in Nat, dq \in BOOLEAN : LoopFrame(e, g, i, dq) \in Frames
    /\ \A e \in Elems, g \in BOOLEAN, i \in Places, a \in Anims : SpliceFrame(e, g, i, a) \in Frames
    /\ \A e \in Elems, q \in Seq(Items) : FinishFrame(e, q) \in Frames
<1>1. \A id \in ListIds : FireFrame(id) \in Frames /\ CallFrame(id, NoDeferred) \in Frames
  BY DEF FireFrame, CallFrame, FireFrames, CallFrames, Frames
<1>2. \A e \in Elems : DequeueFrame(e) \in Frames
  BY DEF DequeueFrame, DequeueFrames, Frames
<1>3. \A ps \in Seq(Counted) : EmptyFrame(ps) \in Frames
  BY DEF EmptyFrame, EmptyFrames, Frames
<1>4. \A a \in Anims : BeginFrame(a) \in Frames /\ AttachFrame(a) \in Frames
                       /\ BegunFrame(a) \in Frames
  BY DEF BeginFrame, AttachFrame, BegunFrame, AnimFrames, Frames
<1>5. \A i \in Places : TickFrame(i) \in Frames
  BY DEF TickFrame, TickFrames, Frames
<1>6. \A i \in Places, a \in Anims : TimerFrame(i, a) \in Frames /\ TickedFrame(i, a) \in Frames
  BY DEF TimerFrame, TickedFrame, TimerFrames, Frames
<1>7. \A e \in Elems, g \in BOOLEAN : StopFrame(e, g) \in Frames
  BY DEF StopFrame, StopFrames, Frames
<1>8. \A e \in Elems, g \in BOOLEAN, i \in Nat, dq \in BOOLEAN : LoopFrame(e, g, i, dq) \in Frames
  BY DEF LoopFrame, LoopFrames, Frames
<1>9. \A e \in Elems, g \in BOOLEAN, i \in Places, a \in Anims : SpliceFrame(e, g, i, a) \in Frames
  BY DEF SpliceFrame, SpliceFrames, Frames
<1>10. \A e \in Elems, q \in Seq(Items) : FinishFrame(e, q) \in Frames
  BY DEF FinishFrame, FinishFrames, Frames
<1> QED BY <1>1, <1>2, <1>3, <1>4, <1>5, <1>6, <1>7, <1>8, <1>9, <1>10

\* What a frame is made of, by its code.
LEMMA FrameParts ==
    ASSUME NEW f \in Frames
    PROVE  /\ f.code \in EffectCodes
           /\ f.code = "fire" => f.list \in ListIds /\ f = FireFrame(f.list)
           /\ f.code = "callback" => f.then = NoDeferred
           /\ f.code = "dequeue" => f.elem \in Elems /\ f = DequeueFrame(f.elem)
           /\ f.code = "empty" => f.waiters \in Seq(Counted) /\ f = EmptyFrame(f.waiters)
           /\ f.code \in {"begin", "attach", "begun"} => f.anim \in Anims
           /\ f.code = "attach" => f = AttachFrame(f.anim)
           /\ f.code = "tick" => f.at \in Places
           /\ f.code \in {"timer", "ticked"} => f.at \in Places /\ f.anim \in Anims
           /\ f.code = "stop" => f.elem \in Elems /\ f.gotoEnd \in BOOLEAN
           /\ f.code = "loop" => f.elem \in Elems /\ f.gotoEnd \in BOOLEAN /\ f.at \in Nat
                                 /\ f.dequeue \in BOOLEAN
           /\ f.code = "splice" => f.elem \in Elems /\ f.gotoEnd \in BOOLEAN /\ f.at \in Places
                                   /\ f.anim \in Anims
           /\ f.code = "finish" => f.elem \in Elems /\ f.rest \in Seq(Items)
<1>1. CASE f \in FireFrames
  BY <1>1 DEF FireFrames, FireFrame, EffectCodes
<1>2. CASE f \in CallFrames
  BY <1>2 DEF CallFrames, EffectCodes
<1>3. CASE f \in DequeueFrames
  BY <1>3 DEF DequeueFrames, DequeueFrame, EffectCodes
<1>4. CASE f \in EmptyFrames
  BY <1>4 DEF EmptyFrames, EmptyFrame, EffectCodes
<1>5. CASE f \in AnimFrames
  BY <1>5 DEF AnimFrames, AttachFrame, EffectCodes
<1>6. CASE f \in TickFrames
  BY <1>6 DEF TickFrames, EffectCodes
<1>7. CASE f \in TimerFrames
  BY <1>7 DEF TimerFrames, EffectCodes
<1>8. CASE f \in StopFrames
  BY <1>8 DEF StopFrames, EffectCodes
<1>9. CASE f \in LoopFrames
  BY <1>9 DEF LoopFrames, EffectCodes
<1>10. CASE f \in SpliceFrames
  BY <1>10 DEF SpliceFrames, EffectCodes
<1>11. CASE f \in FinishFrames
  BY <1>11 DEF FinishFrames, EffectCodes
<1> QED BY <1>1, <1>2, <1>3, <1>4, <1>5, <1>6, <1>7, <1>8, <1>9, <1>10, <1>11 DEF Frames

\* The animations that a frame holds.
LEMMA HeldFacts ==
    /\ \A f \in Frames : f.code \notin {"begin", "finish"} => Held(f) = {}
    /\ \A f \in Frames : f.code = "begin" => Held(f) = {f.anim}
    /\ \A f \in Frames : f.code = "finish" => Held(f) = Range(f.rest) \cap Anims
BY FrameParts DEF Held, EffectCodes

\* What runs now, and what waits below it.
LEMMA TopFacts ==
    ASSUME TypeInv, StackInv, frames # <<>>
    PROVE  /\ Top \in Frames /\ Below \in Seq(Frames) /\ frames = <<Top>> \o Below
           /\ Range(frames) = {Top} \cup Range(Below) /\ Range(frames) \subseteq Frames
           /\ Calm(Below) /\ Apart(Below)
           /\ \A f \in Range(Below) : Held(Top) \cap Held(f) = {}
           /\ FrameOK(Top) /\ \A f \in Range(Below) : FrameOK(f)
           /\ Top.code # "fire" => Still(Below)
           /\ Top.code # "fire" /\ ~Delicate(Top) => Still(frames)
<1>1. frames \in Seq(Frames) /\ Calm(frames) /\ Apart(frames)
      /\ \A f \in Range(frames) : FrameOK(f)
  BY DEF TypeInv, StackInv
<1>2. /\ Top \in Frames /\ Below \in Seq(Frames) /\ frames = <<Top>> \o Below
      /\ Range(frames) = {Top} \cup Range(Below)
  BY <1>1, PopFacts DEF Top, Below
<1>3. Range(frames) \subseteq Frames
  BY <1>1, RangeType
<1>4. /\ Calm(Below)
      /\ Top.code # "fire" => Still(Below)
      /\ Top.code # "fire" /\ ~Delicate(Top) => Still(frames)
  BY <1>1, CalmFacts DEF Top, Below
<1>5. Apart(Below) /\ \A f \in Range(Below) : Held(Top) \cap Held(f) = {}
  BY <1>1, ApartPop DEF Top, Below
<1> QED BY <1>1, <1>2, <1>3, <1>4, <1>5

\* Where the page runs, nothing delicate is on the stack, and no loop on top.
LEMMA PageTop ==
    ASSUME TypeInv, StackInv, PageRuns
    PROVE  /\ Still(frames) /\ ~On("fire") /\ ~On("dequeue")
           /\ Idle \/ On("callback")
           /\ frames \in Seq(Frames) /\ Range(frames) \subseteq Frames
<1>1. frames \in Seq(Frames) /\ Range(frames) \subseteq Frames
  BY RangeType DEF TypeInv
<1>2. CASE Idle
  <2>1. frames = <<>>
    BY <1>2 DEF Idle
  <2> QED BY <1>1, <1>2, <2>1 DEF Still, On
<1>3. CASE ~Idle
  <2>1. frames # <<>> /\ Top.code \in {"callback", "hook"}
    BY <1>3 DEF PageRuns, On, Idle
  <2>2. Top \in Frames
    BY <2>1, TopFacts
  <2>3. Top.code = "callback"
    BY <2>1, <2>2, FrameParts DEF EffectCodes
  <2>4. Still(frames)
    BY <2>1, <2>3, TopFacts DEF Delicate
  <2> QED BY <1>1, <2>1, <2>3, <2>4 DEF On
<1> QED BY <1>2, <1>3

\* A frame stays as it should be, whatever else is asked for, made or fired.
LEMMA FrameKeeps ==
    ASSUME NEW f \in Frames, FrameOK(f), Asked \subseteq Asked', made \subseteq made',
           made' \cap Held(f) = {} \/ made' = made,
           \A id \in ListIds : lists[id].fired => lists'[id].fired,
           \A a \in Anims : state[a] # "pending" => state'[a] # "pending",
           f.code = "attach" =>
              ~lists'[<<f.anim, "fail">>].fired /\ ~Completes(lists'[<<f.anim, "done">>]),
           Asked \subseteq Anims, Anims \subseteq Deferreds
    PROVE  FrameOK(f)'
<1>1. f.code = "fire" => lists'[f.list].fired
  BY FrameParts DEF FrameOK
<1>2. f.code \in {"begin", "attach", "begun", "timer", "ticked", "splice"} => f.anim \in Asked'
  BY DEF FrameOK
<1>3. f.code = "begin" => f.anim \notin made'
  BY HeldFacts DEF FrameOK
<1>4. f.code \in {"attach", "begun", "timer"} => f.anim \in made'
  BY DEF FrameOK
<1>5. f.code \in {"ticked", "splice"} => Ends(f.anim)'
  <2> HAVE f.code \in {"ticked", "splice"}
  <2>1. f.anim \in Asked /\ Ends(f.anim)
    BY DEF FrameOK
  <2>2. <<f.anim, "done">> \in ListIds /\ <<f.anim, "fail">> \in ListIds /\ f.anim \in Anims
    BY <2>1 DEF ListIds, Kinds
  <2> QED BY <2>1, <2>2 DEF Ends
<1>6. f.code = "finish" => Held(f) \subseteq Asked' \ made' /\ Once(f.rest)
  BY HeldFacts DEF FrameOK
<1>7. f.code = "empty" => Range(f.waiters) \subseteq made' /\ Distinct(f.waiters)
  BY DEF FrameOK
<1> QED BY <1>1, <1>2, <1>3, <1>4, <1>5, <1>6, <1>7 DEF FrameOK

-----------------------------------------------------------------------------
(* Lemmas about the lists of the model.                                    *)

\* The sets of deferreds are apart, and no animation is named like another item.
LEMMA Names ==
    /\ Anims \subseteq Deferreds /\ Counted \subseteq Deferreds /\ Anims \cap Counted = {}
    /\ "inprogress" \notin Anims /\ "delay" \notin Anims /\ NoDeferred \notin Deferreds
    /\ \A d \in Deferreds : /\ <<d, "done">> \in ListIds /\ <<d, "fail">> \in ListIds
                            /\ <<d, "progress">> \in ListIds /\ <<d, "complete">> \in ListIds
                            /\ <<d, "done">> \in Settling /\ <<d, "fail">> \in Settling
    /\ Settling \subseteq ListIds
BY EffectsAssumption, DeferredAssumption DEF ListIds, Kinds, Settling

\* Where no loop is on top, nothing is about to settle.
LEMMA Quiet ==
    ASSUME ListInv, ~On("fire")
    PROVE  \A id \in Settling : state[id[1]] = "pending" => ~lists[id].fired
<1> SUFFICES ASSUME NEW id \in Settling, state[id[1]] = "pending", lists[id].fired
             PROVE  FALSE
  OBVIOUS
<1>1. frames # <<>> /\ Top = FireFrame(id)
  BY DEF ListInv, PendingOK, Top
<1>2. FireFrame(id).code = "fire"
  BY DEF FireFrame
<1> QED BY <1>1, <1>2 DEF On

\* The facts of a list of the model.
LEMMA ListOf ==
    ASSUME TypeInv, ListInv, NEW id \in ListIds
    PROVE  /\ lists[id] \in List /\ ListOK(lists[id]) /\ Good(id[2], lists[id], state[id[1]])
           /\ lists \in [ListIds -> List] /\ id[1] \in Deferreds /\ id[2] \in Kinds
           /\ state[id[1]] \in {"pending", "resolved", "rejected"}
BY DEF TypeInv, ListInv, ListsOK, ListIds, DeferredTypes

\* What has changed in the lists after a list has fired or been added to: id is the
\* list, l what it was.
Fired(id, l, rest) ==
    \/ /\ frames' = rest /\ lists'[id].fired = l.fired /\ lists'[id].firing = l.firing
       /\ lists'[id].next = l.next /\ lists'[id].length = l.length
       /\ id \in Settling => ~l.on \/ l.fired
    \/ /\ frames' = <<FireFrame(id)>> \o rest /\ l.on
       /\ lists'[id].fired /\ lists'[id].firing /\ lists'[id].next = 1
       /\ lists'[id].length = Len(lists'[id].fns)
       /\ id \in Settling => ~l.fired

\* When fireWith may run on the lists ls: no loop is on top.
CanFire(ls, id, rest) ==
    /\ TypeInv /\ ListInv /\ ~On("fire") /\ ListsOK(ls)
    /\ \A x \in ListIds : Good(x[2], ls[x], state[x[1]])
    /\ \A x \in Settling : ls[x] = lists[x]
    /\ id \in ListIds /\ rest \in Seq(Frames) /\ FireWith(ls, id, rest)
    /\ \A f \in Range(frames) : f.code = "fire" => f \in Range(rest)
    /\ state' = state /\ threw' = threw

HasFired(ls, id, rest) ==
    /\ frames' \in Seq(Frames) /\ ListsOK(lists') /\ ListInv'
    /\ \A x \in ListIds : x # id => lists'[x] = ls[x]
    /\ lists'[id].on = ls[id].on /\ lists'[id].fns = ls[id].fns
    /\ ls[id].fired => lists'[id].fired
    /\ Fired(id, ls[id], rest)
    /\ Range(frames') \subseteq {FireFrame(id)} \cup Range(rest)
    /\ Range(rest) \subseteq Range(frames')

\* fireWith, where no loop is on top.
LEMMA FireMoves ==
    ASSUME NEW ls, NEW id, NEW rest, CanFire(ls, id, rest)
    PROVE  HasFired(ls, id, rest)
<1> SUFFICES
     ASSUME TypeInv, ListInv, ~On("fire"), ListsOK(ls),
            \A x \in ListIds : Good(x[2], ls[x], state[x[1]]),
            \A x \in Settling : ls[x] = lists[x],
            id \in ListIds, rest \in Seq(Frames), FireWith(ls, id, rest),
            \A f \in Range(frames) : f.code = "fire" => f \in Range(rest),
            state' = state, threw' = threw
     PROVE  /\ frames' \in Seq(Frames) /\ ListsOK(lists') /\ ListInv'
            /\ \A x \in ListIds : x # id => lists'[x] = ls[x]
            /\ lists'[id].on = ls[id].on /\ lists'[id].fns = ls[id].fns
            /\ ls[id].fired => lists'[id].fired
            /\ Fired(id, ls[id], rest)
            /\ Range(frames') \subseteq {FireFrame(id)} \cup Range(rest)
            /\ Range(rest) \subseteq Range(frames')
  BY DEF CanFire, HasFired
<1>1. PICK l : l = ls[id]
  OBVIOUS
<1>0. PICK s : s = state[id[1]]
  OBVIOUS
<1>2. ls \in [ListIds -> List] /\ l \in List /\ Good(id[2], ls[id], s)
  BY <1>0, <1>1 DEF ListsOK
<1>20. PICK m \in List : FiresAs(ls, id, rest, s, m)
  BY <1>2, FireFacts
<1>3. /\ lists' = [ls EXCEPT ![id] = m]
      /\ ListOK(m) /\ Good(id[2], m, s) /\ m.on = l.on /\ m.fns = l.fns
      /\ \/ /\ frames' = rest /\ m.fired = l.fired /\ m.firing = l.firing
            /\ m.next = l.next /\ m.length = l.length
            /\ id \in Settling => ~l.on \/ l.fired
         \/ /\ frames' = <<FireFrame(id)>> \o rest /\ l.on
            /\ m.fired /\ m.firing /\ m.next = 1 /\ m.length = Len(m.fns)
            /\ id \in Settling => ~l.fired
  BY <1>1, <1>20 DEF FiresAs
<1>4. lists'[id] = m /\ \A x \in ListIds : x # id => lists'[x] = ls[x]
  <2>1. lists' = [ls EXCEPT ![id] = m]
    BY <1>3
  <2> QED BY <1>2, <2>1
<1>5. lists' \in [ListIds -> List]
  BY <1>2, <1>3
<1>6. ListsOK(lists')
  BY <1>3, <1>4, <1>5 DEF ListsOK
<1>7. \A x \in ListIds : Good(x[2], lists'[x], state[x[1]])
  BY <1>0, <1>3, <1>4
<1>8. /\ frames' \in Seq(Frames)
      /\ Range(frames') \subseteq {FireFrame(id)} \cup Range(rest)
      /\ Range(rest) \subseteq Range(frames')
      /\ frames' # rest => frames' # <<>> /\ Head(frames') = FireFrame(id)
                           /\ FireFrame(id) \in Range(frames')
  <2>1. CASE frames' = rest
    BY <2>1
  <2>2. CASE frames' = <<FireFrame(id)>> \o rest
    <3>1. FireFrame(id) \in Frames
      BY FrameTypes
    <3> QED BY <2>2, <3>1, PushFacts
  <2> QED BY <1>3, <2>1, <2>2
<1>9. Fired(id, l, rest)
  BY <1>3, <1>4 DEF Fired
<1>10. \A x \in Settling : state[x[1]] = "pending" => ~lists[x].fired
  BY Quiet
<1>11. l.fired \in BOOLEAN /\ m.fired \in BOOLEAN /\ l.on \in BOOLEAN
  BY <1>2, <1>3, ListFields
<1>12. PendingOK(lists', state, frames')
  <2> SUFFICES ASSUME NEW x \in Settling, state[x[1]] = "pending", lists'[x].fired
               PROVE  frames' # <<>> /\ Head(frames') = FireFrame(x)
    BY DEF PendingOK
  <2>1. x = id
    BY <1>4, <1>10, Names
  <2>2. frames' # rest
    BY <1>1, <1>3, <1>4, <1>10, <1>11, <2>1
  <2> QED BY <1>8, <2>1, <2>2
<1>13. LoopsOK(lists', frames', threw)
  <2> SUFFICES ASSUME NEW d \in Deferreds, lists'[<<d, "done">>].firing, ~threw
               PROVE  FireFrame(<<d, "done">>) \in Range(frames')
    BY DEF LoopsOK
  <2>1. CASE lists[<<d, "done">>].firing
    <3>1. FireFrame(<<d, "done">>) \in Range(frames)
      BY <2>1 DEF ListInv, LoopsOK
    <3>2. FireFrame(<<d, "done">>) \in Range(rest)
      BY <3>1 DEF FireFrame
    <3> QED BY <1>8, <3>2
  <2>2. CASE ~lists[<<d, "done">>].firing
    <3>1. id = <<d, "done">> /\ lists[id] = l
      BY <1>1, <1>4, <2>2, Names
    <3>2. frames' # rest \/ (m.firing = l.firing /\ lists'[id] = m)
      BY <1>3, <1>4
    <3> QED BY <1>8, <2>2, <3>1, <3>2
  <2> QED BY <2>1, <2>2
<1>14. ListInv'
  BY <1>7, <1>12, <1>13 DEF ListInv
<1> QED BY <1>1, <1>3, <1>4, <1>6, <1>8, <1>9, <1>11, <1>14

\* When add may put a callback on a list: no loop is on top.

CanAddTo(id, e, rest) ==
    /\ TypeInv /\ ListInv /\ ~On("fire")
    /\ id \in ListIds /\ e \in Entry /\ Allowed(e, id[2]) /\ id[2] # "complete"
    /\ rest \in Seq(Frames) /\ AddAll([x \in {id} |-> e], rest)
    /\ \A f \in Range(frames) : f.code = "fire" => f \in Range(rest)
    /\ state' = state /\ threw' = threw

HasAddedTo(id, e, rest) ==
    /\ frames' \in Seq(Frames) /\ ListsOK(lists') /\ ListInv'
    /\ \A x \in ListIds : x # id => lists'[x] = lists[x]
    /\ lists'[id].on = lists[id].on
    /\ lists[id].on => lists'[id].fns = Append(lists[id].fns, e)
    /\ ~lists[id].on => lists'[id] = lists[id]
    /\ lists[id].fired => lists'[id].fired
    /\ id \in Settling => lists'[id].fired = lists[id].fired
    /\ \/ /\ frames' = rest /\ lists'[id].next = lists[id].next
          /\ lists[id].on => ~lists[id].memory \/ lists[id].firing
          /\ lists[id].on /\ lists[id].firing => lists'[id].length = Len(lists'[id].fns)
          /\ lists'[id].firing = lists[id].firing
       \/ /\ frames' = <<FireFrame(id)>> \o rest /\ lists[id].on /\ lists'[id].fired
          /\ lists'[id].next = Len(lists[id].fns) + 1
          /\ lists'[id].length = Len(lists'[id].fns)
          /\ lists[id].memory
    /\ Range(frames') \subseteq {FireFrame(id)} \cup Range(rest)
    /\ Range(rest) \subseteq Range(frames')

\* What adding a callback does to the lists and the stack.
LEMMA AddMoves ==
    ASSUME NEW id, NEW e, NEW rest, CanAddTo(id, e, rest)
    PROVE  HasAddedTo(id, e, rest)
<1> SUFFICES
       ASSUME TypeInv, ListInv, ~On("fire"),
              id \in ListIds, e \in Entry, Allowed(e, id[2]), id[2] # "complete",
              rest \in Seq(Frames), AddAll([x \in {id} |-> e], rest),
              \A f \in Range(frames) : f.code = "fire" => f \in Range(rest),
              state' = state, threw' = threw
       PROVE  /\ frames' \in Seq(Frames) /\ ListsOK(lists') /\ ListInv'
              /\ \A x \in ListIds : x # id => lists'[x] = lists[x]
              /\ lists'[id].on = lists[id].on
              /\ lists[id].on => lists'[id].fns = Append(lists[id].fns, e)
              /\ ~lists[id].on => lists'[id] = lists[id]
              /\ lists[id].fired => lists'[id].fired
              /\ id \in Settling => lists'[id].fired = lists[id].fired
              /\ \/ /\ frames' = rest /\ lists'[id].next = lists[id].next
                    /\ lists[id].on => ~lists[id].memory \/ lists[id].firing
                    /\ lists[id].on /\ lists[id].firing => lists'[id].length = Len(lists'[id].fns)
                    /\ lists'[id].firing = lists[id].firing
                 \/ /\ frames' = <<FireFrame(id)>> \o rest /\ lists[id].on /\ lists'[id].fired
                    /\ lists'[id].next = Len(lists[id].fns) + 1
                    /\ lists'[id].length = Len(lists'[id].fns)
                    /\ lists[id].memory
              /\ Range(frames') \subseteq {FireFrame(id)} \cup Range(rest)
              /\ Range(rest) \subseteq Range(frames')
  BY DEF CanAddTo, HasAddedTo
<1>0. PICK s : s = state[id[1]]
  OBVIOUS
<1>1. PICK l : l = lists[id]
  OBVIOUS
<1>2. l \in List /\ ListOK(l) /\ Good(id[2], l, s) /\ lists \in [ListIds -> List]
  BY <1>0, <1>1, ListOf
<1>3. PICK m : m = Added(l, e)
  OBVIOUS
<1>4. /\ m \in List /\ ListOK(m) /\ Good(id[2], m, s) /\ m.on = l.on
      /\ id[2] \in {"done", "fail"} => m.fired = l.fired
      /\ l.fired => m.fired
      /\ l.on => m.fns = Append(l.fns, e)
      /\ ~l.on => m = l
      /\ ~(l.on /\ ~l.firing /\ l.memory) => m.firing = l.firing /\ m.next = l.next
      /\ l.on /\ ~l.firing /\ l.memory => m.fired /\ m.firing /\ m.next = Len(l.fns) + 1
      /\ l.on /\ (l.firing \/ l.memory) => m.length = Len(m.fns)
  BY <1>2, <1>3, AddedFacts
<1>5. PICK ps : /\ ps = {x \in {id} : lists[x].on /\ ~lists[x].firing /\ lists[x].memory}
                /\ frames' = SetToSeq({FireFrame(x) : x \in ps}) \o rest
                /\ lists' = [x \in ListIds |-> IF x \in {id} THEN Added(lists[x], e) ELSE lists[x]]
  BY DEF AddAll
<1>6. lists'[id] = m /\ \A x \in ListIds : x # id => lists'[x] = lists[x]
  BY <1>1, <1>3, <1>5
<1>7. lists' \in [ListIds -> List]
  <2>1. \A x \in ListIds : lists'[x] \in List
    BY <1>2, <1>4, <1>6
  <2> QED BY <1>5, <2>1
<1>8. ListsOK(lists')
  BY <1>4, <1>6, <1>7, ListOf DEF ListsOK
<1>9. \A x \in ListIds : Good(x[2], lists'[x], state[x[1]])
  BY <1>0, <1>4, <1>6, ListOf
<1>10. l.on \in BOOLEAN /\ l.memory \in BOOLEAN /\ l.firing \in BOOLEAN /\ l.fired \in BOOLEAN
       /\ m.fired \in BOOLEAN /\ m.firing \in BOOLEAN
  BY <1>2, <1>4, ListFields
<1>11. CASE ~(l.on /\ ~l.firing /\ l.memory)
  <2>1. {FireFrame(x) : x \in ps} = {}
    BY <1>1, <1>5, <1>11
  <2>2. SetToSeq({FireFrame(x) : x \in ps}) = <<>>
    <3>1. PICK E : E = {FireFrame(x) : x \in ps}
      OBVIOUS
    <3>2. IsFiniteSet(E) /\ E = {}
      BY <2>1, <3>1, FS_EmptySet
    <3>3. PICK q : q = SetToSeq(E)
      OBVIOUS
    <3>4. q \in Seq(E)
      BY <3>2, <3>3, SetAsSeq
    <3>5. q = <<>>
      BY <3>2, <3>4
    <3> QED BY <3>1, <3>3, <3>5
  <2>3. frames' = rest
    <3>1. PICK q : q = SetToSeq({FireFrame(x) : x \in ps})
      OBVIOUS
    <3>2. frames' = q \o rest /\ q = <<>>
      BY <1>5, <2>2, <3>1
    <3> QED BY <3>2
  <2>4. PendingOK(lists', state, frames')
    <3> SUFFICES ASSUME NEW x \in Settling, state[x[1]] = "pending", lists'[x].fired
                 PROVE  FALSE
      BY DEF PendingOK
    <3>1. ~lists[x].fired /\ x \in ListIds
      BY Quiet, Names
    <3>2. x = id
      BY <1>6, <3>1
    <3>3. x[2] \in {"done", "fail"}
      BY DEF Settling
    <3> QED BY <1>1, <1>4, <1>6, <3>1, <3>2, <3>3
  <2>5. LoopsOK(lists', frames', threw)
    <3> SUFFICES ASSUME NEW d \in Deferreds, lists'[<<d, "done">>].firing, ~threw
                 PROVE  FireFrame(<<d, "done">>) \in Range(rest)
      BY <2>3 DEF LoopsOK
    <3>1. lists[<<d, "done">>].firing
      BY <1>1, <1>4, <1>6, <1>11, Names
    <3>2. FireFrame(<<d, "done">>) \in Range(frames)
      BY <3>1 DEF ListInv, LoopsOK
    <3> QED BY <3>2 DEF FireFrame
  <2>6. ListInv'
    BY <1>9, <2>4, <2>5 DEF ListInv
  <2>7. id \in Settling => m.fired = l.fired
    BY <1>4 DEF Settling
  <2> QED BY <1>1, <1>4, <1>6, <1>8, <1>10, <1>11, <2>3, <2>6, <2>7
<1>12. CASE l.on /\ ~l.firing /\ l.memory
  <2>1. {FireFrame(x) : x \in ps} = {FireFrame(id)}
    BY <1>1, <1>5, <1>12
  <2>2. SetToSeq({FireFrame(x) : x \in ps}) = <<FireFrame(id)>>
    <3>1. PICK F : F = FireFrame(id)
      OBVIOUS
    <3>2. IsFiniteSet({F})
      BY FS_Singleton
    <3>3. PICK q : q = SetToSeq({F})
      OBVIOUS
    <3>4. /\ q \in Seq({F}) /\ \E i \in DOMAIN q : q[i] = F
          /\ \A i, j \in DOMAIN q : q[i] = q[j] => i = j
      BY <3>2, <3>3, SetAsSeq
    <3>5. Len(q) = 1
      <4>1. Len(q) \in Nat /\ DOMAIN q = 1 .. Len(q) /\ \A i \in DOMAIN q : q[i] = F
        BY <3>4
      <4>2. Len(q) >= 1
        BY <3>4, <4>1
      <4>3. ~(Len(q) >= 2)
        <5> SUFFICES ASSUME Len(q) >= 2 PROVE FALSE
          OBVIOUS
        <5>1. 1 \in DOMAIN q /\ 2 \in DOMAIN q
          BY <4>1
        <5> QED BY <3>4, <4>1, <5>1
      <4> QED BY <4>1, <4>2, <4>3
    <3>6. q = <<F>>
      BY <3>4, <3>5
    <3> QED BY <2>1, <3>1, <3>3, <3>6
  <2>3. frames' = <<FireFrame(id)>> \o rest
    BY <1>5, <2>2
  <2>4. FireFrame(id) \in Frames
    BY FrameTypes
  <2>5. /\ frames' \in Seq(Frames) /\ Range(frames') = {FireFrame(id)} \cup Range(rest)
    BY <2>3, <2>4, PushFacts
  <2>6. id \in Settling => m.fired = l.fired /\ l.fired /\ s # "pending"
    <3> HAVE id \in Settling
    <3>1. id[2] \in {"done", "fail"}
      BY DEF Settling
    <3> QED BY <1>2, <1>4, <1>12, <3>1 DEF Good
  <2>7. PendingOK(lists', state, frames')
    <3> SUFFICES ASSUME NEW x \in Settling, state[x[1]] = "pending", lists'[x].fired
                 PROVE  FALSE
      BY DEF PendingOK
    <3>1. ~lists[x].fired /\ x \in ListIds
      BY Quiet, Names
    <3>2. x = id
      BY <1>6, <3>1
    <3> QED BY <1>0, <2>6, <3>2
  <2>8. LoopsOK(lists', frames', threw)
    <3> SUFFICES ASSUME NEW d \in Deferreds, lists'[<<d, "done">>].firing, ~threw
                 PROVE  FireFrame(<<d, "done">>) \in Range(frames')
      BY DEF LoopsOK
    <3>1. CASE <<d, "done">> = id
      BY <2>5, <3>1
    <3>2. CASE <<d, "done">> # id
      <4>1. lists[<<d, "done">>].firing
        BY <1>6, <3>2, Names
      <4>2. FireFrame(<<d, "done">>) \in Range(frames)
        BY <4>1 DEF ListInv, LoopsOK
      <4> QED BY <2>5, <4>2 DEF FireFrame
    <3> QED BY <3>1, <3>2
  <2>9. ListInv'
    BY <1>9, <2>7, <2>8 DEF ListInv
  <2> QED BY <1>1, <1>4, <1>6, <1>8, <1>10, <1>12, <2>3, <2>5, <2>6, <2>9
<1> QED BY <1>11, <1>12

\* The lists stay, and the frames change where no loop is on top.
LEMMA StayMoves ==
    ASSUME TypeInv, ListInv, lists' = lists, state' = state, ~On("fire"),
           threw' \/ (~threw /\ \A f \in Range(frames) : f.code = "fire" => f \in Range(frames'))
    PROVE  ListsOK(lists') /\ ListInv'
<1>1. ListsOK(lists')
  BY DEF TypeInv
<1>2. \A id \in ListIds : Good(id[2], lists'[id], state'[id[1]])
  BY DEF ListInv
<1>3. PendingOK(lists', state', frames')
  BY Quiet DEF PendingOK
<1>4. LoopsOK(lists', frames', threw')
  <2> SUFFICES ASSUME NEW d \in Deferreds, lists'[<<d, "done">>].firing, ~threw'
               PROVE  FireFrame(<<d, "done">>) \in Range(frames')
    BY DEF LoopsOK
  <2>1. FireFrame(<<d, "done">>) \in Range(frames)
    BY DEF ListInv, LoopsOK
  <2> QED BY <2>1 DEF FireFrame
<1> QED BY <1>1, <1>2, <1>3, <1>4 DEF ListInv

-----------------------------------------------------------------------------
(* What keeps each part of the invariant.                                  *)

\* A loop on a stack, when a list has fired or been added to.
LEMMA FiredStack ==
    ASSUME NEW rest \in Seq(Frames), NEW id \in ListIds, Calm(rest), Apart(rest),
           Still(rest) \/ (rest # <<>> /\ Still(Tail(rest)) /\ Settler(FireFrame(id), Head(rest))),
           frames' = rest \/ frames' = <<FireFrame(id)>> \o rest
    PROVE  Calm(frames') /\ Apart(frames')
<1>1. PICK f \in Frames : f = FireFrame(id)
  BY FrameTypes
<1>2. f.code = "fire" /\ Held(f) = {} /\ ~Delicate(f)
  BY <1>1, HeldFacts DEF FireFrame, Delicate
<1>3. Apart(<<f>> \o rest)
  BY <1>2, ApartPush
<1>4. Calm(<<f>> \o rest)
  <2>1. CASE Still(rest)
    BY <2>1, StillPush
  <2>2. CASE ~Still(rest)
    <3>1. /\ rest = <<Head(rest)>> \o Tail(rest) /\ Head(rest) \in Frames
          /\ Tail(rest) \in Seq(Frames) /\ Still(Tail(rest)) /\ Settler(f, Head(rest))
      BY <1>1, <2>2, PopFacts
    <3>2. PICK h \in Frames, t \in Seq(Frames) : h = Head(rest) /\ t = Tail(rest)
      BY <3>1
    <3>3. Calm(<<f>> \o (<<h>> \o t))
      BY <3>1, <3>2, SettlerPush
    <3> QED BY <3>1, <3>2, <3>3
  <2> QED BY <2>1, <2>2
<1>5. CASE frames' = rest
  BY <1>5
<1>6. CASE frames' = <<FireFrame(id)>> \o rest
  BY <1>1, <1>3, <1>4, <1>6
<1> QED BY <1>5, <1>6

\* Of a new stack: N is new, O was there.
LEMMA StackKept ==
    ASSUME TypeInv, StackInv, Calm(frames'), Apart(frames'),
           NEW N, \A f \in N : FrameOK(f)',
           NEW O \in SUBSET Range(frames), Range(frames') \subseteq N \cup O,
           Asked \subseteq Asked', made \subseteq made', \A f \in O : made' \cap Held(f) \subseteq made,
           \A id \in ListIds : lists[id].fired => lists'[id].fired,
           \A a \in Anims : state[a] # "pending" => state'[a] # "pending",
           \A f \in O : f.code = "attach" =>
              ~lists'[<<f.anim, "fail">>].fired /\ ~Completes(lists'[<<f.anim, "done">>])
    PROVE  StackInv'
<1>1. ASSUME NEW f \in O PROVE FrameOK(f)'
  <2>1. f \in Frames /\ FrameOK(f)
    BY RangeType DEF TypeInv, StackInv
  <2>2. Held(f) \cap made = {}
    <3>1. CASE f.code = "begin"
      BY <2>1, <3>1, HeldFacts DEF FrameOK
    <3>2. CASE f.code = "finish"
      BY <2>1, <3>2, HeldFacts DEF FrameOK
    <3>3. CASE f.code \notin {"begin", "finish"}
      BY <2>1, <3>3, HeldFacts
    <3> QED BY <3>1, <3>2, <3>3
  <2>3. made' \cap Held(f) = {}
    BY <2>2
  <2>4. Asked \subseteq Anims
    BY DEF TypeInv, EffectTypes
  <2> QED BY <2>1, <2>3, <2>4, Names, FrameKeeps
<1> QED BY <1>1 DEF StackInv

\* A queue that stays, of an element or where it is handed on.
LEMMA QueueStays ==
    ASSUME NEW e, NEW q, QueueOK(e, q), Asked \subseteq Asked',
           \A a \in Asked : target'[a] = target[a],
           made' \cap Range(q) \subseteq made,
           \A f \in Range(frames') : Held(f) \cap Range(q) = {}
    PROVE  QueueOK(e, q)'
<1>1. \A i \in DOMAIN q : q[i] \in Anims => q[i] \in Asked' \ made' /\ target'[q[i]] = e
  <2> SUFFICES ASSUME NEW i \in DOMAIN q, q[i] \in Anims
               PROVE  q[i] \in Asked' \ made' /\ target'[q[i]] = e
    OBVIOUS
  <2>1. q[i] \in Asked \ made /\ target[q[i]] = e
    BY DEF QueueOK
  <2>2. q[i] \in Range(q)
    BY DEF Range
  <2> QED BY <2>1, <2>2
<1>2. \A i \in DOMAIN q : i # 1 => q[i] # "inprogress"
  BY DEF QueueOK
<1>3. Once(q)
  BY DEF QueueOK
<1> QED BY <1>1, <1>2, <1>3 DEF QueueOK

\* The queues and their hooks, where they are left alone.
LEMMA QueueKept ==
    ASSUME TypeInv, QueueInv, UNCHANGED <<data, timeouts, target>>, ~On("dequeue"),
           made \subseteq made',
           \A e \in Elems : made' \cap Range(data[e].queue) \subseteq made,
           \A f \in Range(frames') : Held(f) = {} \/ f \in Range(frames),
           threw' \/ (~threw /\ \A f \in Range(frames) :
                                   f.code \in {"dequeue", "finish"} => f \in Range(frames'))
    PROVE  QueueInv'
<1> SUFFICES ASSUME NEW e \in Elems
             PROVE  QueueOK(e, data[e].queue)' /\ DatumOK(e, data[e])'
  BY DEF QueueInv
<1>1. QueueOK(e, data[e].queue) /\ DatumOK(e, data[e])
  BY DEF QueueInv
<1>2. QueueOK(e, data[e].queue)'
  <2>1. PICK q : q = data[e].queue
    OBVIOUS
  <2>2. \A f \in Range(frames') : Held(f) \cap Range(q) = {}
    BY <1>1, <2>1 DEF QueueOK
  <2>3. Asked' = Asked
    BY DEF Asked
  <2>4. QueueOK(e, q)'
    BY <1>1, <2>1, <2>2, <2>3, QueueStays
  <2> QED BY <2>1, <2>4 DEF QueueOK
<1>3. DatumOK(e, data[e])'
  <2>1. PICK d : d = data[e]
    OBVIOUS
  <2>2. data'[e] = d /\ DatumOK(e, d) /\ timeouts'[e] = timeouts[e]
    BY <1>1, <2>1
  <2>3. d.stop = "runs" => timeouts'[e] > 0
    BY <2>2 DEF DatumOK
  <2>4. ~threw' /\ d.queue # <<>> /\ ~Sentinel(d.queue) => DequeueFrame(e) \in Range(frames')
    <3>1. DequeueFrame(e).code = "dequeue"
      BY DEF DequeueFrame
    <3> QED BY <2>2, <3>1 DEF DatumOK
  <2>5. ~threw' /\ d.finish => \E f \in Range(frames') : f.code = "finish" /\ f.elem = e
    BY <2>2 DEF DatumOK
  <2>6. /\ ~d.hooks => d.queue = <<>> /\ d.stop = "none" /\ d.waiters = <<>>
        /\ Range(d.waiters) \subseteq made' /\ Distinct(d.waiters)
    BY <2>2 DEF DatumOK
  <2> QED BY <2>2, <2>3, <2>4, <2>5, <2>6 DEF DatumOK
<1> QED BY <1>2, <1>3

\* An animation that is left alone.
LEMMA AnimKept ==
    ASSUME NEW a, AnimOK(a), target'[a] = target[a], a \in made' <=> a \in made,
           state'[a] = state[a],
           state[a] = "pending" =>
              /\ Completes(lists[<<a, "done">>]) => Completes(lists'[<<a, "done">>])
              /\ AttachFrame(a) \in Range(frames) =>
                    AttachFrame(a) \in Range(frames') \/ Completes(lists'[<<a, "done">>])
              /\ lists[<<a, "fail">>].fired => \A f \in Range(frames) :
                    f.code = "splice" => f \in Range(frames'),
           lists'[<<a, "done">>].fired = lists[<<a, "done">>].fired,
           lists'[<<a, "fail">>].fired = lists[<<a, "fail">>].fired,
           a \in stopped' => a \in stopped, a \in lost => a \in lost',
           a \in Range(timers) => a \in Range(timers') \/ state[a] # "pending" \/ a \in lost'
    PROVE  AnimOK(a)'
<1>1. Ends(a)' <=> Ends(a)
  BY DEF Ends
<1>2. state[a] = "pending" /\ a \in made /\ AttachFrame(a) \notin Range(frames') =>
          Completes(lists'[<<a, "done">>])
  BY DEF AnimOK
<1>3. state[a] = "pending" /\ lists[<<a, "fail">>].fired =>
          \E f \in Range(frames') : f.code = "splice" /\ f.elem = target[a] /\ ~f.gotoEnd
  BY DEF AnimOK
<1>4. a \in made' \ lost' /\ state[a] = "pending" =>
          a \in Range(timers') \/ lists[<<a, "done">>].fired
  BY DEF AnimOK
<1>5. /\ a \notin made => ~Ends(a)
      /\ a \in stopped => a \in made /\ Ends(a)
  BY DEF AnimOK
<1> QED BY <1>1, <1>2, <1>3, <1>4, <1>5 DEF AnimOK

\* What leads to dequeue, where the frame stays.
LEMMA LeadsKept ==
    ASSUME NEW f \in Frames, NEW e, LeadsTo(f, e), FrameOK(f), \A a \in Asked : target'[a] = target[a],
           Asked \subseteq Asked',
           f.code = "fire" /\ f.list[2] = "done" =>
              (ToComplete(lists[f.list]) => ToComplete(lists'[f.list]))
    PROVE  LeadsTo(f, e)'
BY DEF LeadsTo, FrameOK

\* A queue in progress goes on waiting for what will call dequeue.
LEMMA WakeKept ==
    ASSUME WakeInv, threw' \/ ~threw, \A e \in Elems : timeouts'[e] = timeouts[e],
           \A e \in Elems : Due(e)' => Due(e) \/ Wakes(e)',
           Asked \subseteq Asked', \A a \in Asked : target'[a] = target[a],
           made \cap Anims \subseteq Asked, made \subseteq made',
           \A a \in made \cap Anims : state[a] = "pending" =>
              state'[a] = "pending" \/ Wakes(target[a])',
           \A e \in Elems : \A f \in Range(frames) : LeadsTo(f, e) => Wakes(e)'
    PROVE  WakeInv'
<1> SUFFICES ASSUME ~threw', NEW e \in Elems, Due(e)'
             PROVE  Wakes(e)'
  BY DEF WakeInv
<1>1. Wakes(e) \/ Wakes(e)'
  BY DEF WakeInv
<1>2. CASE timeouts[e] > 0
  BY <1>2 DEF Wakes
<1>3. CASE \E a \in made \cap Anims : target[a] = e /\ state[a] = "pending"
  <2>1. PICK a \in made \cap Anims : target[a] = e /\ state[a] = "pending"
    BY <1>3
  <2>2. a \in Asked /\ target'[a] = e /\ a \in made' \cap Anims
    BY <2>1
  <2>3. state'[a] = "pending" \/ Wakes(e)'
    BY <2>1
  <2> QED BY <2>2, <2>3 DEF Wakes
<1>4. CASE \E f \in Range(frames) : LeadsTo(f, e)
  BY <1>4
<1> QED BY <1>1, <1>2, <1>3, <1>4 DEF Wakes

\* A promise whose waiting is left alone.
LEMMA PromiseKept ==
    ASSUME PromiseInv, \A e \in Elems : data'[e].waiters = data[e].waiters,
           UNCHANGED <<remaining, dropped>>, made' \cap Counted = made \cap Counted,
           \A f \in Range(frames') \cup Range(frames) :
              f.code = "empty" => f \in Range(frames') /\ f \in Range(frames),
           \A p \in Counted : /\ lists'[<<p, "done">>].fired = lists[<<p, "done">>].fired
                              /\ lists'[<<p, "fail">>].fired = lists[<<p, "fail">>].fired
    PROVE  PromiseInv'
<1> SUFFICES ASSUME NEW p \in Counted PROVE PromiseOK(p)'
  BY DEF PromiseInv
<1>1. PromiseOK(p)
  BY DEF PromiseInv
<1>2. Waits(p)' = Waits(p)
  BY DEF Waits
<1>3. Told(p)' <=> Told(p)
  BY DEF Told
<1>4. p \in made' <=> p \in made
  OBVIOUS
<1> QED BY <1>1, <1>2, <1>3, <1>4 DEF PromiseOK

-----------------------------------------------------------------------------
(* The walks of tick, stop and finish, which may settle an animation.      *)

\* The list fires at which the walk has arrived, or none does.
Fires(a, k, rest) ==
    a \in made \cap Anims /\ k \in {"done", "fail", "progress"} /\ FireWith(lists, <<a, k>>, rest)

\* What a walk does to the lists, with rest as the frames of the walk.
LEMMA WalkLists ==
    ASSUME EffectsInv, ~On("fire"), NEW rest \in Seq(Frames), Still(rest), Apart(rest),
           \A f \in Range(frames) : f.code = "fire" => f \in Range(rest),
           NEW a, NEW k, Fires(a, k, rest) \/ (lists' = lists /\ frames' = rest),
           UNCHANGED <<state, threw>>
    PROVE  /\ frames' \in Seq(Frames) /\ ListsOK(lists') /\ ListInv'
           /\ Calm(frames') /\ Apart(frames')
           /\ Range(rest) \subseteq Range(frames')
           /\ \A f \in Range(frames') : f \in Range(rest) \/ f.code = "fire"
           /\ \A f \in Range(frames') : f \in Range(rest) \/ (FrameOK(f)' /\ Held(f) = {})
           /\ \A x \in ListIds :
                 /\ lists[x].fired => lists'[x].fired
                 /\ lists'[x].fns = lists[x].fns
                 /\ ToComplete(lists[x]) => ToComplete(lists'[x])
                 /\ x # <<a, k>> \/ ~Fires(a, k, rest) => lists'[x].fired = lists[x].fired
           /\ Fires(a, k, rest) /\ k # "progress" =>
                 state[a] # "pending" \/ lists'[<<a, k>>].fired
<1> USE DEF EffectsInv
<1>1. \A f \in Range(rest) : f \in Frames
  BY RangeType
<1>2. CASE Fires(a, k, rest)
  <2>1. PICK id \in ListIds : id = <<a, k>>
    BY <1>2, Names DEF Fires, ListIds, Kinds
  <2>2. FireWith(lists, id, rest) /\ ListsOK(lists)
        /\ \A x \in ListIds : Good(x[2], lists[x], state[x[1]])
    BY <1>2, <2>1 DEF Fires, TypeInv, ListInv
  <2>3. /\ frames' \in Seq(Frames) /\ ListsOK(lists') /\ ListInv'
        /\ \A x \in ListIds : x # id => lists'[x] = lists[x]
        /\ lists'[id].on = lists[id].on /\ lists'[id].fns = lists[id].fns
        /\ lists[id].fired => lists'[id].fired
        /\ Fired(id, lists[id], rest)
        /\ Range(frames') \subseteq {FireFrame(id)} \cup Range(rest)
        /\ Range(rest) \subseteq Range(frames')
    <3>1. CanFire(lists, id, rest)
      BY <2>2 DEF CanFire
    <3>2. HasFired(lists, id, rest)
      BY <3>1, FireMoves
    <3> QED BY <3>2 DEF HasFired
  <2>4. Calm(rest)
    BY DEF Still, Calm
  <2>5. frames' = rest \/ frames' = <<FireFrame(id)>> \o rest
    BY <2>3 DEF Fired
  <2>6. Calm(frames') /\ Apart(frames')
    BY <2>4, <2>5, FiredStack
  <2>7. \A x \in ListIds : ToComplete(lists[x]) => ToComplete(lists'[x])
    <3> SUFFICES ASSUME ToComplete(lists[id]) PROVE ToComplete(lists'[id])
      BY <2>3
    <3>1. PICK l \in List : l = lists[id] /\ ListOK(l)
      BY ListOf
    <3>2. PICK m \in List : m = lists'[id]
      BY <2>3 DEF ListsOK
    <3>3. PICK i \in DOMAIN l.fns : l.on /\ l.next <= i /\ i <= l.length
                                    /\ l.fns[i] = Internal("complete")
      BY <3>1 DEF ToComplete
    <3>4. m.on /\ m.fns = l.fns /\ i \in DOMAIN m.fns /\ m.fns[i] = Internal("complete")
      BY <2>3, <3>1, <3>2, <3>3
    <3>5. m.next <= i /\ i <= m.length
      <4>1. CASE m.next = l.next /\ m.length = l.length
        BY <3>3, <4>1
      <4>2. CASE m.next = 1 /\ m.length = Len(m.fns)
        <5>1. m.fns \in Seq(Entry)
          BY ListFields
        <5> QED BY <3>4, <4>2, <5>1
      <4> QED BY <2>3, <3>1, <3>2, <4>1, <4>2 DEF Fired
    <3> QED BY <3>2, <3>4, <3>5 DEF ToComplete
  <2>8. k # "progress" => state[a] # "pending" \/ lists'[id].fired
    <3> HAVE k # "progress"
    <3>1. id \in Settling /\ id[1] = a /\ id[2] = k /\ k \in {"done", "fail"}
      BY <1>2, <2>1, Names DEF Fires, Settling
    <3>2. state[a] = "pending" => lists[id].on
      BY <2>2, <3>1 DEF Good
    <3> QED BY <2>3, <3>1, <3>2 DEF Fired
  <2>9. \A f \in Range(frames') : f \in Range(rest) \/ (f.code = "fire" /\ FrameOK(f)' /\ Held(f) = {})
    <3> SUFFICES ASSUME NEW f \in Range(frames'), f \notin Range(rest)
                 PROVE  f.code = "fire" /\ FrameOK(f)' /\ Held(f) = {}
      OBVIOUS
    <3>1. f = FireFrame(id) /\ frames' # rest
      BY <2>3
    <3>2. lists'[id].fired
      BY <2>3, <3>1 DEF Fired
    <3>3. f \in Frames /\ f.code = "fire" /\ f.list = id
      BY <3>1, FrameTypes DEF FireFrame
    <3> QED BY <3>2, <3>3, HeldFacts DEF FrameOK
  <2>10. \A x \in ListIds : /\ lists[x].fired => lists'[x].fired
                            /\ lists'[x].fns = lists[x].fns
                            /\ x # <<a, k>> => lists'[x].fired = lists[x].fired
    BY <2>1, <2>3
  <2> QED BY <1>2, <2>1, <2>3, <2>6, <2>7, <2>8, <2>9, <2>10
<1>3. CASE ~Fires(a, k, rest)
  <2>1. lists' = lists /\ frames' = rest
    BY <1>3
  <2>2. ListsOK(lists') /\ ListInv'
    BY <2>1, StayMoves DEF TypeInv, DeferredTypes
  <2>3. Calm(frames')
    BY <2>1 DEF Still, Calm
  <2> QED BY <1>3, <2>1, <2>2, <2>3
<1> QED BY <1>2, <1>3

\* The frames N are new on the stack of a walk, the others stay.
WalkFrames(N, a, k, rest) ==
    /\ Still(frames) /\ Still(rest) /\ Apart(rest)
    /\ Range(rest) \subseteq N \cup Range(frames)
    /\ \A f \in N :
          /\ f \in Frames /\ Held(f) = {} /\ ~Delicate(f)
          /\ FrameOK(f) \/ (/\ f.code \in {"ticked", "splice"} /\ f.anim = a
                            /\ Fires(a, k, rest) /\ k # "progress")
    /\ \A f \in Range(frames) : f.code \in {"fire", "dequeue", "finish"} => f \in Range(rest)
    /\ Fires(a, k, rest) /\ k = "fail" =>
          \E f \in Range(rest) : f.code = "splice" /\ f.elem = target[a] /\ ~f.gotoEnd
    /\ \A e \in Elems : \A f \in Range(frames) : LeadsTo(f, e) =>
          \/ f \in Range(rest)
          \/ \E g \in Range(rest) : g.code # "fire" /\ LeadsTo(g, e)
          \/ \E b \in made \cap Anims : target[b] = e /\ state[b] = "pending"

\* A step of a walk keeps the invariant, whatever it does to jQuery.timers, if no
\* animation that runs is taken out unnoticed.
LEMMA Walks ==
    ASSUME EffectsInv, ~On("fire"), ~On("dequeue"), NEW rest \in Seq(Frames),
           NEW a, NEW k, Fires(a, k, rest) \/ (lists' = lists /\ frames' = rest),
           NEW N, WalkFrames(N, a, k, rest),
           UNCHANGED <<state, made, remaining, threw, data, timeouts, target, dropped, forgotten>>,
           stopped' = stopped \/ (stopped' = stopped \cup {a} /\ Fires(a, k, rest) /\ k # "progress"),
           lost \subseteq lost',
           \A b \in Range(timers) : b \in Range(timers') \/ state[b] # "pending" \/ b \in lost',
           timers' # <<>> => interval'
    PROVE  /\ frames' \in Seq(Frames) /\ ListsOK(lists')
           /\ ListInv' /\ StackInv' /\ QueueInv' /\ AnimInv' /\ WakeInv' /\ PromiseInv'
<1> USE DEF EffectsInv
<1>0. /\ Still(frames) /\ Still(rest) /\ Apart(rest) /\ Range(rest) \subseteq N \cup Range(frames)
      /\ \A f \in N :
            /\ f \in Frames /\ Held(f) = {} /\ ~Delicate(f)
            /\ FrameOK(f) \/ (/\ f.code \in {"ticked", "splice"} /\ f.anim = a
                              /\ Fires(a, k, rest) /\ k # "progress")
      /\ \A f \in Range(frames) : f.code \in {"fire", "dequeue", "finish"} => f \in Range(rest)
  BY DEF WalkFrames
<1>1. /\ frames' \in Seq(Frames) /\ ListsOK(lists') /\ ListInv'
      /\ Calm(frames') /\ Apart(frames')
      /\ Range(rest) \subseteq Range(frames')
      /\ \A f \in Range(frames') : f \in Range(rest) \/ f.code = "fire"
      /\ \A f \in Range(frames') : f \in Range(rest) \/ (FrameOK(f)' /\ Held(f) = {})
      /\ \A x \in ListIds :
            /\ lists[x].fired => lists'[x].fired
            /\ lists'[x].fns = lists[x].fns
            /\ ToComplete(lists[x]) => ToComplete(lists'[x])
            /\ x # <<a, k>> \/ ~Fires(a, k, rest) => lists'[x].fired = lists[x].fired
      /\ Fires(a, k, rest) /\ k # "progress" => state[a] # "pending" \/ lists'[<<a, k>>].fired
  BY <1>0, WalkLists
<1>2. Fires(a, k, rest) => a \in made \cap Anims /\ k \in {"done", "fail", "progress"}
  BY DEF Fires
<1>3. Fires(a, k, rest) /\ k # "progress" => Ends(a)'
  BY <1>1, <1>2 DEF Ends
<1>4. /\ frames \in Seq(Frames) /\ made \cap Anims \subseteq Asked /\ Asked \subseteq Anims
      /\ Asked' = Asked
  BY DEF TypeInv, EffectTypes, Asked
<1>5. \A x \in Settling : state[x[1]] = "pending" => ~lists[x].fired
  BY Quiet
<1>6. \A f \in Range(frames) \cup Range(rest) : ~Delicate(f)
  BY <1>0 DEF Still, Range
<1>7. StackInv'
  <2>1. PICK O : O = Range(frames) \cap Range(rest)
    OBVIOUS
  <2>2. PICK M : M = {f \in Range(frames') : f \notin O}
    OBVIOUS
  <2>3. \A f \in M : FrameOK(f)'
    <3> SUFFICES ASSUME NEW f \in Range(frames'), f \notin O PROVE FrameOK(f)'
      BY <2>2
    <3>1. CASE f \notin Range(rest)
      BY <1>1, <3>1
    <3>2. CASE f \in N /\ FrameOK(f)
      <4>1. f.code # "attach" /\ f \in Frames /\ Held(f) = {}
        BY <1>0, <3>2 DEF Delicate
      <4>3. f \in Frames /\ FrameOK(f) /\ (f.code # "attach")
        BY <3>2, <4>1
      <4>2. /\ Asked \subseteq Asked' /\ made \subseteq made' /\ made' \cap Held(f) = {}
            /\ \A id \in ListIds : lists[id].fired => lists'[id].fired
            /\ \A b \in Anims : state[b] # "pending" => state'[b] # "pending"
            /\ Asked \subseteq Anims /\ Anims \subseteq Deferreds
        BY <1>1, <1>4, <4>1, Names
      <4> HIDE DEF EffectsInv
      <4> QED BY <4>2, <4>3, FrameKeeps
    <3>3. CASE f \in N /\ ~FrameOK(f)
      <4>1. /\ f.code \in {"ticked", "splice"} /\ f.anim = a /\ Fires(a, k, rest)
            /\ k # "progress"
        BY <1>0, <3>3
      <4>2. Ends(f.anim)' /\ f.anim \in Asked'
        BY <1>2, <1>3, <1>4, <4>1
      <4> QED BY <4>1, <4>2 DEF FrameOK
    <3> QED BY <1>0, <2>1, <3>1, <3>2, <3>3
  <2>4. \A f \in O : f.code # "attach"
    BY <1>6, <2>1 DEF Delicate
  <2>5. /\ Asked \subseteq Asked' /\ made \subseteq made' /\ O \in SUBSET Range(frames)
        /\ \A f \in O : made' \cap Held(f) \subseteq made
        /\ \A id \in ListIds : lists[id].fired => lists'[id].fired
        /\ \A b \in Anims : state[b] # "pending" => state'[b] # "pending"
        /\ \A f \in O : f.code = "attach" =>
              ~lists'[<<f.anim, "fail">>].fired /\ ~Completes(lists'[<<f.anim, "done">>])
        /\ Range(frames') \subseteq M \cup O
    BY <1>1, <1>4, <2>1, <2>2, <2>4
  <2>6. TypeInv /\ StackInv /\ Calm(frames') /\ Apart(frames')
    BY <1>1
  <2> HIDE DEF EffectsInv
  <2> QED BY <2>3, <2>5, <2>6, StackKept
<1>8. QueueInv'
  <2>1. \A f \in Range(frames') : Held(f) = {} \/ f \in Range(frames)
    BY <1>0, <1>1
  <2>2. \A f \in Range(frames) : f.code \in {"dequeue", "finish"} => f \in Range(frames')
    BY <1>0, <1>1
  <2>3. threw' \/ (~threw /\ \A f \in Range(frames) :
                                   f.code \in {"dequeue", "finish"} => f \in Range(frames'))
    BY <2>2
  <2> QED BY <2>1, <2>3, QueueKept
<1>9. AnimInv'
  <2>0. \A d \in Deferreds : Completes(lists'[<<d, "done">>]) => d \in made' \cap Anims
    BY <1>1, Names DEF AnimInv, Completes
  <2> SUFFICES ASSUME NEW b \in Anims PROVE AnimOK(b)'
    BY <2>0 DEF AnimInv
  <2>1. AnimOK(b) /\ <<b, "done">> \in ListIds /\ <<b, "fail">> \in ListIds
        /\ <<b, "done">> \in Settling /\ <<b, "fail">> \in Settling
    BY Names DEF AnimInv
  <2>2. state[b] = "pending" /\ b \in made => Completes(lists'[<<b, "done">>])
    <3>1. AttachFrame(b) \notin Range(frames)
      BY <1>6 DEF Delicate, AttachFrame
    <3>2. lists'[<<b, "done">>].fns = lists[<<b, "done">>].fns
      BY <1>1, <2>1
    <3> QED BY <2>1, <3>1, <3>2 DEF AnimOK, Completes
  <2>3. b \notin made => ~Ends(b)'
    <3> HAVE b \notin made
    <3>1. ~Ends(b)
      BY <2>1 DEF AnimOK
    <3>2. ~Fires(a, k, rest) \/ a # b
      BY <1>2
    <3>3. lists'[<<b, "done">>].fired = lists[<<b, "done">>].fired
          /\ lists'[<<b, "fail">>].fired = lists[<<b, "fail">>].fired
      BY <1>1, <2>1, <3>2
    <3> QED BY <3>1, <3>3 DEF Ends
  <2>4. b \in stopped' => b \in made /\ Ends(b)'
    <3>1. CASE b \in stopped
      <4>1. b \in made /\ Ends(b)
        BY <2>1, <3>1 DEF AnimOK
      <4> QED BY <1>1, <2>1, <4>1 DEF Ends
    <3>2. CASE b \in stopped' /\ b \notin stopped
      BY <1>2, <1>3, <3>2
    <3> QED BY <3>1, <3>2
  <2>5. state[b] = "pending" /\ lists'[<<b, "fail">>].fired =>
            \E f \in Range(frames') : f.code = "splice" /\ f.elem = target[b] /\ ~f.gotoEnd
    <3> HAVE state[b] = "pending" /\ lists'[<<b, "fail">>].fired
    <3>1. ~lists[<<b, "fail">>].fired
      BY <1>5, <2>1
    <3>2. Fires(a, k, rest) /\ <<b, "fail">> = <<a, k>>
      BY <1>1, <2>1, <3>1
    <3> QED BY <1>1, <3>2 DEF WalkFrames
  <2>6. b \in made \ lost' /\ state[b] = "pending" =>
            b \in Range(timers') \/ lists'[<<b, "done">>].fired
    <3> HAVE b \in made \ lost' /\ state[b] = "pending"
    <3>1. b \in Range(timers) \/ lists[<<b, "done">>].fired
      BY <2>1 DEF AnimOK
    <3> QED BY <1>1, <2>1, <3>1
  <2> QED BY <2>2, <2>3, <2>4, <2>5, <2>6 DEF AnimOK
<1>10. WakeInv'
  <2>1. \A e \in Elems : \A f \in Range(frames) : LeadsTo(f, e) => Wakes(e)'
    <3> SUFFICES ASSUME NEW e \in Elems, NEW f \in Range(frames), LeadsTo(f, e)
                 PROVE  Wakes(e)'
      OBVIOUS
    <3>1. CASE \E b \in made \cap Anims : target[b] = e /\ state[b] = "pending"
      BY <3>1 DEF Wakes
    <3>2. CASE f \in Range(rest)
      <4>1. f \in Frames /\ FrameOK(f)
        BY RangeType DEF TypeInv, StackInv
      <4>2. f.code = "fire" => f.list \in ListIds
        BY <4>1, FrameParts
      <4>3. LeadsTo(f, e)'
        BY <1>1, <1>4, <4>1, <4>2, LeadsKept
      <4> QED BY <1>1, <3>2, <4>3 DEF Wakes
    <3>3. CASE \E g \in Range(rest) : g.code # "fire" /\ LeadsTo(g, e)
      <4>1. PICK g \in Range(rest) : g.code # "fire" /\ LeadsTo(g, e)
        BY <3>3
      <4>2. LeadsTo(g, e)'
        BY <4>1 DEF LeadsTo
      <4> QED BY <1>1, <4>1, <4>2 DEF Wakes
    <3> QED BY <3>1, <3>2, <3>3 DEF WalkFrames
  <2>2. \A b \in made \cap Anims : state[b] = "pending" => state'[b] = "pending"
    OBVIOUS
  <2>3. threw' \/ ~threw \/ threw
    OBVIOUS
  <2>4. CASE threw
    BY <2>4 DEF WakeInv
  <2>5. CASE ~threw
    BY <1>4, <2>1, <2>2, <2>5, WakeKept DEF Due
  <2> QED BY <2>4, <2>5
<1>11. PromiseInv'
  <2>1. \A p \in Counted : /\ lists'[<<p, "done">>].fired = lists[<<p, "done">>].fired
                           /\ lists'[<<p, "fail">>].fired = lists[<<p, "fail">>].fired
    <3> TAKE p \in Counted
    <3>1. <<p, "done">> \in ListIds /\ <<p, "fail">> \in ListIds /\ p \notin Anims
      BY Names
    <3> QED BY <1>1, <1>2, <3>1
  <2>2. \A f \in Range(frames') \cup Range(frames) :
              f.code = "empty" => f \in Range(frames') /\ f \in Range(frames)
    BY <1>1, <1>6 DEF Delicate
  <2> QED BY <2>1, <2>2, PromiseKept
<1> QED BY <1>1, <1>7, <1>8, <1>9, <1>10, <1>11

WalkCodes == {"callback", "tick", "timer", "ticked", "begun", "loop", "splice"}

\* The walk goes on with the frame f.
LEMMA WalkStep ==
    ASSUME EffectsInv, frames # <<>>, Top.code \in WalkCodes,
           NEW f \in Frames, f.code \in (WalkCodes \cup {"dequeue"}) \ {"begun"},
           NEW a, NEW k, NEW rest, rest = <<f>> \o Below,
           \/ FrameOK(f)
           \/ f.code \in {"ticked", "splice"} /\ f.anim = a /\ Fires(a, k, rest) /\ k # "progress",
           \A e \in Elems : LeadsTo(Top, e) =>
              \/ LeadsTo(f, e)
              \/ \E b \in made \cap Anims : target[b] = e /\ state[b] = "pending",
           Fires(a, k, rest) /\ k = "fail" => f.code = "splice" /\ f.elem = target[a] /\ ~f.gotoEnd
    PROVE  /\ rest \in Seq(Frames) /\ WalkFrames({f}, a, k, rest) /\ ~On("fire") /\ ~On("dequeue")
<1>1. /\ Top \in Frames /\ Below \in Seq(Frames) /\ Range(frames) = {Top} \cup Range(Below)
      /\ Apart(Below) /\ Still(Below) /\ Still(frames)
  BY TopFacts DEF EffectsInv, WalkCodes, Delicate
<1>2. Held(f) = {} /\ ~Delicate(f) /\ f.code # "fire"
  BY HeldFacts DEF WalkCodes, Delicate
<1>3. Apart(rest) /\ Still(rest)
  BY <1>1, <1>2, ApartPush, StillPush
<1>4. rest \in Seq(Frames) /\ Range(rest) = {f} \cup Range(Below)
  BY <1>1, PushFacts
<1>5. \A g \in Range(frames) : g.code \in {"fire", "dequeue", "finish"} => g \in Range(rest)
  BY <1>1, <1>4 DEF WalkCodes
<1>6. ASSUME NEW e \in Elems, NEW g \in Range(frames), LeadsTo(g, e)
      PROVE  \/ g \in Range(rest)
             \/ \E h \in Range(rest) : h.code # "fire" /\ LeadsTo(h, e)
             \/ \E b \in made \cap Anims : target[b] = e /\ state[b] = "pending"
  BY <1>1, <1>2, <1>4, <1>6
<1>7. Fires(a, k, rest) /\ k = "fail" =>
         \E g \in Range(rest) : g.code = "splice" /\ g.elem = target[a] /\ ~g.gotoEnd
  BY <1>4
<1>8. Range(rest) \subseteq {f} \cup Range(frames)
  BY <1>1, <1>4
<1>9. WalkFrames({f}, a, k, rest)
  BY <1>1, <1>2, <1>3, <1>5, <1>6, <1>7, <1>8 DEF WalkFrames
<1> QED BY <1>1, <1>4, <1>9 DEF On, WalkCodes

\* The walk is over.
LEMMA WalkEnds ==
    ASSUME EffectsInv, frames # <<>>, Top.code \in WalkCodes, NEW a, NEW k, k # "fail",
           \A e \in Elems : ~LeadsTo(Top, e)
    PROVE  /\ Below \in Seq(Frames) /\ WalkFrames({}, a, k, Below) /\ ~On("fire") /\ ~On("dequeue")
<1>1. /\ Top \in Frames /\ Below \in Seq(Frames) /\ Range(frames) = {Top} \cup Range(Below)
      /\ Apart(Below) /\ Still(Below) /\ Still(frames)
  BY TopFacts DEF EffectsInv, WalkCodes, Delicate
<1>2. \A g \in Range(frames) : g.code \in {"fire", "dequeue", "finish"} => g \in Range(Below)
  BY <1>1 DEF WalkCodes
<1>3. WalkFrames({}, a, k, Below)
  BY <1>1, <1>2 DEF WalkFrames
<1> QED BY <1>1, <1>3 DEF On, WalkCodes

\* The types of what walks do not touch.
LEMMA WalkTypes ==
    ASSUME TypeInv, frames' \in Seq(Frames), ListsOK(lists'),
           UNCHANGED <<state, made, remaining, threw, data, timeouts, target, dropped, forgotten>>,
           UNCHANGED <<parts, functions, registered, follows, called, instant, calls>>,
           stopped' = stopped \/ \E a \in made \cap Anims : stopped' = stopped \cup {a},
           lost' = lost \/ \E a \in Range(timers) : lost' = lost \cup {a},
           timers' = timers \/ timers' \in Seq(made \cap Asked), interval' \in BOOLEAN
    PROVE  TypeInv'
<1>1. Asked' = Asked
  BY DEF Asked
<1>2. DeferredTypes'
  BY DEF TypeInv, DeferredTypes
<1>3. made \cap Anims \subseteq Asked /\ timers \in Seq(made \cap Asked)
  BY DEF TypeInv, EffectTypes
<1>4. lost' \in SUBSET Asked
  <2>1. Range(timers) \subseteq Asked
    BY <1>3 DEF Range
  <2> QED BY <2>1 DEF TypeInv, EffectTypes
<1>5. stopped' \in SUBSET Asked
  BY <1>3 DEF TypeInv, EffectTypes
<1>6. timers' \in Seq(made' \cap Asked')
  BY <1>1, <1>3
<1>7. EffectTypes'
  BY <1>1, <1>4, <1>5, <1>6 DEF TypeInv, EffectTypes
<1> QED BY <1>2, <1>7 DEF TypeInv

\* The interval calls tick.
LEMMA TickKeeps == EffectsInv /\ Tick => EffectsInv'
<1> SUFFICES ASSUME EffectsInv, Tick PROVE EffectsInv'
  OBVIOUS
<1>1. /\ frames = <<>> /\ interval /\ frames' = <<TickFrame(1)>> /\ lists' = lists
      /\ UNCHANGED <<state, made, remaining, threw, data, timeouts, target, dropped, forgotten>>
      /\ UNCHANGED <<parts, functions, registered, follows, called, instant, calls>>
      /\ UNCHANGED <<stopped, lost, timers, interval>>
  BY DEF Tick, Idle, stillVars, effectVars
<1>2. PICK f \in Frames : f = TickFrame(1)
  BY FrameTypes DEF Places
<1>3. f.code = "tick" /\ Held(f) = {} /\ ~Delicate(f) /\ FrameOK(f)
  BY <1>2, HeldFacts DEF TickFrame, Delicate, FrameOK
<1>4. PICK rest : rest = <<f>>
  OBVIOUS
<1>5. rest \in Seq(Frames) /\ Range(rest) = {f} /\ frames' = rest /\ Still(frames)
  BY <1>1, <1>2, <1>4 DEF Range, Still
<1>6. Still(rest) /\ Apart(rest)
  BY <1>3, <1>4 DEF Still, Apart
<1>7. ~On("fire") /\ ~On("dequeue") /\ Range(frames) = {}
  BY <1>1 DEF On, Range
<1>10. PICK a, k2 : a = {} /\ k2 = "progress"
  OBVIOUS
<1>11. WalkFrames({f}, a, k2, rest)
  BY <1>3, <1>5, <1>6, <1>7, <1>10 DEF WalkFrames
<1>12. timers' # <<>> => interval'
  BY <1>1
<1>13. Fires(a, k2, rest) \/ (lists' = lists /\ frames' = rest)
  BY <1>1, <1>5
<1>14. lost \subseteq lost'
       /\ \A b \in Range(timers) : b \in Range(timers') \/ state[b] # "pending" \/ b \in lost'
  BY <1>1
<1>15. /\ frames' \in Seq(Frames) /\ ListsOK(lists')
       /\ ListInv' /\ StackInv' /\ QueueInv' /\ AnimInv' /\ WakeInv' /\ PromiseInv'
  BY <1>1, <1>5, <1>7, <1>11, <1>12, <1>13, <1>14, Walks
<1>16. interval' \in BOOLEAN
  BY <1>1 DEF EffectsInv, TypeInv, EffectTypes
<1>17. TypeInv'
  BY <1>1, <1>15, <1>16, WalkTypes DEF EffectsInv
<1> QED BY <1>15, <1>17 DEF EffectsInv

\* The timer has more to do.
LEMMA GoesOnKeeps == EffectsInv /\ GoesOn => EffectsInv'
<1> SUFFICES ASSUME EffectsInv, GoesOn PROVE EffectsInv'
  OBVIOUS
<1>1. /\ frames # <<>> /\ Top.code = "timer" /\ frames' = <<TickFrame(Top.at + 1)>> \o Below
      /\ lists' = lists
      /\ UNCHANGED <<state, made, remaining, threw, data, timeouts, target, dropped, forgotten>>
      /\ UNCHANGED <<parts, functions, registered, follows, called, instant, calls>>
      /\ UNCHANGED <<stopped, lost, timers, interval>>
  BY DEF GoesOn, On, stillVars, effectVars
<1>2. Top.at + 1 \in Places
  BY <1>1, TopFacts, FrameParts DEF EffectsInv, Places
<1>3. PICK f \in Frames : f = TickFrame(Top.at + 1)
  BY <1>2, FrameTypes
<1>4. f.code = "tick" /\ FrameOK(f)
  BY <1>3 DEF TickFrame, FrameOK
<1>5. PICK a, k : a = {} /\ k = "progress"
  OBVIOUS
<1>6. PICK rest : rest = <<f>> \o Below
  OBVIOUS
<1>7. \A e \in Elems : ~LeadsTo(Top, e)
  BY <1>1 DEF LeadsTo
<1>8. rest \in Seq(Frames) /\ WalkFrames({f}, a, k, rest) /\ ~On("fire") /\ ~On("dequeue")
  BY <1>1, <1>4, <1>5, <1>6, <1>7, WalkStep DEF WalkCodes
<1>9. timers # <<>> => interval /\ interval \in BOOLEAN
  BY DEF EffectsInv, AnimInv, TypeInv, EffectTypes
<1>10. /\ frames' \in Seq(Frames) /\ ListsOK(lists')
       /\ ListInv' /\ StackInv' /\ QueueInv' /\ AnimInv' /\ WakeInv' /\ PromiseInv'
  <2>1. Fires(a, k, rest) \/ (lists' = lists /\ frames' = rest)
    BY <1>1, <1>3, <1>6
  <2>2. /\ lost \subseteq lost' /\ stopped' = stopped /\ (timers' # <<>> => interval')
        /\ \A b \in Range(timers) : b \in Range(timers') \/ state[b] # "pending" \/ b \in lost'
    BY <1>1, <1>9
  <2> QED BY <1>1, <1>8, <2>1, <2>2, Walks
<1>11. TypeInv'
  <2>1. interval' \in BOOLEAN
    BY <1>1 DEF EffectsInv, TypeInv, EffectTypes
  <2> QED BY <1>1, <1>10, <2>1, WalkTypes DEF EffectsInv
<1> QED BY <1>10, <1>11 DEF EffectsInv

\* The timer resolves the animation.
LEMMA ExpiresKeeps == ASSUME NEW a \in Anims PROVE EffectsInv /\ Expires(a) => EffectsInv'
<1> SUFFICES ASSUME EffectsInv, Expires(a) PROVE EffectsInv'
  OBVIOUS
<1>1. PICK i : i = Top.at
  OBVIOUS
<1>2. PICK rest : rest = <<TickedFrame(i, a)>> \o Below
  OBVIOUS
<1>3. PICK k : k = "done"
  OBVIOUS
<1>4. /\ frames # <<>> /\ Top.code = "timer" /\ Top.anim = a
      /\ FireWith(lists, <<a, k>>, rest)
      /\ UNCHANGED <<state, made, remaining, threw, data, timeouts, target, dropped, forgotten>>
      /\ UNCHANGED <<parts, functions, registered, follows, called, instant, calls>>
      /\ UNCHANGED <<stopped, lost, timers, interval>>
  BY <1>1, <1>2, <1>3 DEF Expires, On, stillVars, effectVars
<1>5. i \in Places /\ a \in Asked
  BY <1>1, <1>4, TopFacts, FrameParts DEF EffectsInv, FrameOK
<1>6. PICK f \in Frames : f = TickedFrame(i, a)
  BY <1>5, FrameTypes
<1>7. f.code = "ticked" /\ f.anim = a
  BY <1>6 DEF TickedFrame
<1>8. a \in made
  BY <1>4, TopFacts DEF EffectsInv, FrameOK
<1>9. Fires(a, k, rest)
  BY <1>3, <1>4, <1>8 DEF Fires
<1>10. \A e \in Elems : ~LeadsTo(Top, e)
  BY <1>4 DEF LeadsTo
<1>11. rest \in Seq(Frames) /\ WalkFrames({f}, a, k, rest) /\ ~On("fire") /\ ~On("dequeue")
  <2>1. rest = <<f>> \o Below /\ k # "fail" /\ k # "progress"
    BY <1>2, <1>3, <1>6
  <2> QED BY <1>4, <1>7, <1>9, <1>10, <2>1, WalkStep DEF WalkCodes
<1>12. timers # <<>> => interval /\ interval \in BOOLEAN
  BY DEF EffectsInv, AnimInv, TypeInv, EffectTypes
<1>13. /\ frames' \in Seq(Frames) /\ ListsOK(lists')
       /\ ListInv' /\ StackInv' /\ QueueInv' /\ AnimInv' /\ WakeInv' /\ PromiseInv'
  <2>1. /\ lost \subseteq lost' /\ stopped' = stopped /\ (timers' # <<>> => interval')
        /\ \A b \in Range(timers) : b \in Range(timers') \/ state[b] # "pending" \/ b \in lost'
    BY <1>4, <1>12
  <2> QED BY <1>4, <1>9, <1>11, <2>1, Walks
<1>14. TypeInv'
  <2>1. interval' \in BOOLEAN
    BY <1>4 DEF EffectsInv, TypeInv, EffectTypes
  <2> QED BY <1>4, <1>13, <2>1, WalkTypes DEF EffectsInv
<1> QED BY <1>13, <1>14 DEF EffectsInv

\* The loop of tick goes on to the next timer, or ends.
LEMMA TickNextKeeps == EffectsInv /\ TickNext => EffectsInv'
<1> SUFFICES ASSUME EffectsInv, TickNext PROVE EffectsInv'
  OBVIOUS
<1>1. PICK i, a : i = Top.at /\ a = timers[i]
  OBVIOUS
<1>2. /\ frames # <<>> /\ Top.code = "tick"
      /\ UNCHANGED <<state, made, remaining, threw, data, timeouts, target, dropped, forgotten>>
      /\ UNCHANGED <<parts, functions, registered, follows, called, instant, calls>>
      /\ UNCHANGED <<stopped, lost, timers>>
  BY DEF TickNext, On, stillVars
<1>3. i \in Places
  BY <1>1, <1>2, TopFacts, FrameParts DEF EffectsInv
<1>4. timers \in Seq(made \cap Asked) /\ Asked \subseteq Anims
      /\ (timers # <<>> => interval) /\ interval \in BOOLEAN
  BY DEF EffectsInv, AnimInv, TypeInv, EffectTypes
<1>5. \A e \in Elems : ~LeadsTo(Top, e)
  BY <1>2 DEF LeadsTo
<1>6. /\ lost \subseteq lost' /\ stopped' = stopped
      /\ \A b \in Range(timers) : b \in Range(timers') \/ state[b] # "pending" \/ b \in lost'
  BY <1>2
<1>7. PICK k : k = "progress"
  OBVIOUS
<1>8. CASE i > Len(timers)
  <2>1. interval' = (interval /\ timers # <<>>) /\ frames' = Below /\ lists' = lists
    BY <1>1, <1>8 DEF TickNext
  <2>2. (timers' # <<>> => interval') /\ interval' \in BOOLEAN
    BY <1>2, <1>4, <2>1
  <2>3. /\ Below \in Seq(Frames) /\ WalkFrames({}, a, k, Below) /\ ~On("fire") /\ ~On("dequeue")
    BY <1>2, <1>5, <1>7, WalkEnds DEF WalkCodes
  <2>4. Fires(a, k, Below) \/ (lists' = lists /\ frames' = Below)
    BY <2>1
  <2>5. /\ frames' \in Seq(Frames) /\ ListsOK(lists')
        /\ ListInv' /\ StackInv' /\ QueueInv' /\ AnimInv' /\ WakeInv' /\ PromiseInv'
    BY <1>2, <1>6, <2>2, <2>3, <2>4, Walks
  <2>6. TypeInv'
    BY <1>2, <2>2, <2>5, WalkTypes DEF EffectsInv
  <2> QED BY <2>5, <2>6 DEF EffectsInv
<1>9. CASE ~(i > Len(timers))
  <2>1. a \in made \cap Anims /\ a \in Asked
    <3>1. i \in DOMAIN timers
      BY <1>3, <1>4, <1>9 DEF Places
    <3> QED BY <1>1, <1>4, <3>1
  <2>2. interval' = interval
    BY <1>1, <1>9 DEF TickNext
  <2>3. (timers' # <<>> => interval') /\ interval' \in BOOLEAN
    BY <1>2, <1>4, <2>2
  <2>4. PICK f, rest :
           /\ f \in Frames /\ rest = <<f>> \o Below /\ f.code \in {"timer", "ticked"} /\ FrameOK(f)
           /\ Fires(a, k, rest) \/ (lists' = lists /\ frames' = rest)
    <3>1. CASE a \in stopped
      <4>1. frames' = <<TickedFrame(i, a)>> \o Below /\ lists' = lists
        BY <1>1, <1>9, <3>1 DEF TickNext
      <4>2. PICK f \in Frames : f = TickedFrame(i, a)
        BY <1>3, <2>1, FrameTypes
      <4>3. f.code = "ticked" /\ f.anim = a
        BY <4>2 DEF TickedFrame
      <4>4. Ends(a)
        BY <2>1, <3>1 DEF EffectsInv, AnimInv, AnimOK
      <4>5. FrameOK(f)
        BY <2>1, <4>3, <4>4 DEF FrameOK
      <4> QED BY <4>1, <4>2, <4>3, <4>5
    <3>2. CASE a \notin stopped
      <4>1. FireWith(lists, <<a, "progress">>, <<TimerFrame(i, a)>> \o Below)
        BY <1>1, <1>9, <3>2 DEF TickNext
      <4>2. PICK f \in Frames : f = TimerFrame(i, a)
        BY <1>3, <2>1, FrameTypes
      <4>3. f.code = "timer" /\ f.anim = a
        BY <4>2 DEF TimerFrame
      <4>4. FrameOK(f)
        BY <2>1, <4>3 DEF FrameOK
      <4>5. PICK rest : rest = <<f>> \o Below
        OBVIOUS
      <4>6. Fires(a, k, rest)
        BY <1>7, <2>1, <4>1, <4>2, <4>5 DEF Fires
      <4> QED BY <4>3, <4>4, <4>5, <4>6
    <3> QED BY <3>1, <3>2
  <2>5. rest \in Seq(Frames) /\ WalkFrames({f}, a, k, rest) /\ ~On("fire") /\ ~On("dequeue")
    BY <1>2, <1>5, <1>7, <2>4, WalkStep DEF WalkCodes
  <2>6. /\ frames' \in Seq(Frames) /\ ListsOK(lists')
        /\ ListInv' /\ StackInv' /\ QueueInv' /\ AnimInv' /\ WakeInv' /\ PromiseInv'
    BY <1>2, <1>6, <2>3, <2>4, <2>5, Walks
  <2>7. TypeInv'
    BY <1>2, <2>3, <2>6, WalkTypes DEF EffectsInv
  <2> QED BY <2>6, <2>7 DEF EffectsInv
<1> QED BY <1>8, <1>9

\* What stands behind, in two sequences put together.
LEMMA Behind ==
    ASSUME NEW F, NEW p \in Seq(F), NEW q \in Seq(F), NEW k \in 1 .. Len(q)
    PROVE  (p \o q)[Len(p) + k] = q[k]
<1>1. Len(p) \in Nat /\ Len(q) \in Nat
  OBVIOUS
<1>2. PICK m : m = Len(p) + k
  OBVIOUS
<1>3. m \in 1 .. Len(p) + Len(q) /\ ~(m <= Len(p)) /\ m - Len(p) = k
  BY <1>1, <1>2
<1>4. (p \o q)[m] = q[m - Len(p)]
  BY <1>3
<1> QED BY <1>2, <1>3, <1>4

\* An element is taken out of a sequence.
LEMMA RemoveFacts ==
    ASSUME NEW F, NEW s \in Seq(F), NEW i \in DOMAIN s
    PROVE  /\ RemoveAt(s, i) \in Seq(F)
           /\ \A b \in Range(s) : b \in Range(RemoveAt(s, i)) \/ b = s[i]
<1>1. PICK p, q : p = SubSeq(s, 1, i - 1) /\ q = SubSeq(s, i + 1, Len(s))
  OBVIOUS
<1>2. /\ Len(s) \in Nat /\ i \in 1 .. Len(s)
      /\ p \in Seq(F) /\ q \in Seq(F) /\ Len(p) = i - 1 /\ Len(q) = Len(s) - i
      /\ \A j \in 1 .. i - 1 : p[j] = s[j]
      /\ \A j \in 1 .. Len(s) - i : q[j] = s[j + i]
  <2>1. Len(s) \in Nat /\ i \in 1 .. Len(s)
    OBVIOUS
  <2>2. p \in Seq(F) /\ Len(p) = i - 1 /\ \A j \in 1 .. i - 1 : p[j] = s[j]
    BY <1>1, <2>1
  <2>3. q \in Seq(F) /\ Len(q) = Len(s) - i /\ \A j \in 1 .. Len(s) - i : q[j] = s[j + i]
    <3>1. PICK m : m = i + 1
      OBVIOUS
    <3>2. m \in 1 .. Len(s) + 1 /\ q = SubSeq(s, m, Len(s))
      BY <1>1, <2>1, <3>1
    <3>3. q \in Seq(F) /\ Len(q) = Len(s) - m + 1
      BY <2>1, <3>2
    <3>4. \A j \in 1 .. Len(s) - m + 1 : q[j] = s[m + j - 1]
      BY <2>1, <3>2
    <3> QED BY <2>1, <3>1, <3>3, <3>4
  <2> QED BY <2>1, <2>2, <2>3
<1>3. PICK t : t = p \o q
  OBVIOUS
<1>4. RemoveAt(s, i) = t
  BY <1>1, <1>3 DEF RemoveAt
<1>5. t \in Seq(F) /\ Len(t) = Len(s) - 1
  BY <1>2, <1>3
<1>6. ASSUME NEW j \in DOMAIN s, j # i PROVE s[j] \in Range(t)
  <2>1. CASE j < i
    <3>1. j \in 1 .. i - 1 /\ j \in DOMAIN t
      BY <1>2, <1>5, <2>1
    <3>2. t[j] = s[j]
      BY <1>2, <1>3, <3>1
    <3> QED BY <3>1, <3>2 DEF Range
  <2>2. CASE j > i
    <3>1. j - i \in 1 .. Len(s) - i /\ j - 1 \in DOMAIN t
      BY <1>2, <1>5, <2>2
    <3>2. q[j - i] = s[(j - i) + i] /\ (j - i) + i = j
      BY <1>2, <3>1
    <3>3. t[j - 1] = q[(j - 1) - (i - 1)] /\ (j - 1) - (i - 1) = j - i
      <4>1. PICK k : k = j - i
        OBVIOUS
      <4>2. k \in 1 .. Len(q) /\ p \in Seq(F) /\ q \in Seq(F)
        BY <1>2, <3>1, <4>1
      <4>3. t[Len(p) + k] = q[k]
        BY <1>3, <4>2, Behind
      <4>4. Len(p) = i - 1 /\ i \in Nat /\ j \in Nat
        BY <1>2
      <4>5. Len(p) + k = j - 1 /\ (j - 1) - (i - 1) = k
        BY <4>1, <4>4
      <4> QED BY <4>1, <4>3, <4>5
    <3> QED BY <3>1, <3>2, <3>3 DEF Range
  <2> QED BY <1>2, <1>6, <2>1, <2>2
<1> QED BY <1>4, <1>5, <1>6 DEF Range

\* Where no loop is on top, an animation that was about to end has settled.
LEMMA Ended ==
    ASSUME ListInv, ~On("fire"), NEW a \in Anims, Ends(a)
    PROVE  state[a] # "pending"
BY Quiet, Names DEF Ends

\* After a timer that has ended.
LEMMA TickedKeeps == EffectsInv /\ Ticked => EffectsInv'
<1> SUFFICES ASSUME EffectsInv, Ticked PROVE EffectsInv'
  OBVIOUS
<1>1. PICK i : i = Top.at
  OBVIOUS
<1> DEFINE there == i <= Len(timers) /\ timers[i] = Top.anim
<1>2. /\ frames # <<>> /\ Top.code = "ticked"
      /\ UNCHANGED <<state, made, remaining, threw, data, timeouts, target, dropped, forgotten>>
      /\ UNCHANGED <<parts, functions, registered, follows, called, instant, calls>>
      /\ UNCHANGED <<stopped, lost, interval, lists>>
      /\ timers' = (IF there THEN RemoveAt(timers, i) ELSE timers)
      /\ frames' = <<TickFrame(IF there THEN i ELSE i + 1)>> \o Below
  BY <1>1 DEF Ticked, On, stillVars
<1>3. PICK n : n = IF there THEN i ELSE i + 1
  OBVIOUS
<1>4. i \in Places /\ Ends(Top.anim) /\ Top.anim \in Anims /\ n \in Places
  BY <1>1, <1>2, <1>3, TopFacts, FrameParts DEF EffectsInv, FrameOK, Places
<1>5. state[Top.anim] # "pending"
  <2>1. ~On("fire")
    BY <1>2 DEF On
  <2> QED BY <1>4, <2>1, Ended DEF EffectsInv
<1>6. timers \in Seq(made \cap Asked) /\ (timers # <<>> => interval) /\ interval \in BOOLEAN
  BY DEF EffectsInv, AnimInv, TypeInv, EffectTypes
<1>7. /\ timers' \in Seq(made \cap Asked) /\ (timers' # <<>> => interval')
      /\ \A b \in Range(timers) : b \in Range(timers') \/ state[b] # "pending" \/ b \in lost'
  <2>1. CASE there
    <3>1. i \in DOMAIN timers /\ timers[i] = Top.anim
      BY <1>1, <1>4, <1>6, <2>1 DEF Places
    <3>2. timers' = RemoveAt(timers, i) /\ timers # <<>>
      BY <1>2, <1>6, <2>1, <3>1
    <3> QED BY <1>2, <1>5, <1>6, <3>1, <3>2, RemoveFacts
  <2>2. CASE ~there
    BY <1>2, <1>6, <2>2
  <2> QED BY <2>1, <2>2
<1>8. PICK f \in Frames : f = TickFrame(n)
  BY <1>4, FrameTypes
<1>9. f.code = "tick" /\ FrameOK(f)
  BY <1>8 DEF TickFrame, FrameOK
<1>10. PICK a, k : a = {} /\ k = "progress"
  OBVIOUS
<1>11. PICK rest : rest = <<f>> \o Below
  OBVIOUS
<1>12. \A e \in Elems : ~LeadsTo(Top, e)
  BY <1>2 DEF LeadsTo
<1>13. rest \in Seq(Frames) /\ WalkFrames({f}, a, k, rest) /\ ~On("fire") /\ ~On("dequeue")
  BY <1>2, <1>9, <1>10, <1>11, <1>12, WalkStep DEF WalkCodes
<1>14. /\ frames' \in Seq(Frames) /\ ListsOK(lists')
       /\ ListInv' /\ StackInv' /\ QueueInv' /\ AnimInv' /\ WakeInv' /\ PromiseInv'
  <2>1. Fires(a, k, rest) \/ (lists' = lists /\ frames' = rest)
    BY <1>2, <1>3, <1>8, <1>11
  <2>2. lost \subseteq lost' /\ stopped' = stopped
    BY <1>2
  <2> QED BY <1>2, <1>7, <1>13, <2>1, <2>2, Walks
<1>15. TypeInv'
  BY <1>2, <1>6, <1>7, <1>14, WalkTypes DEF EffectsInv
<1> QED BY <1>14, <1>15 DEF EffectsInv

\* stop or finish takes a timer out.
LEMMA SpliceKeeps == EffectsInv /\ Splice => EffectsInv'
<1> SUFFICES ASSUME EffectsInv, Splice PROVE EffectsInv'
  OBVIOUS
<1>1. PICK i, gone : i = Top.at /\ gone = (IF i <= Len(timers) THEN {timers[i]} ELSE {})
  OBVIOUS
<1>2. /\ frames # <<>> /\ Top.code = "splice"
      /\ UNCHANGED <<state, made, remaining, threw, data, timeouts, target, dropped, forgotten>>
      /\ UNCHANGED <<parts, functions, registered, follows, called, instant, calls>>
      /\ UNCHANGED <<stopped, interval, lists>>
      /\ timers' = (IF gone = {} THEN timers ELSE RemoveAt(timers, i))
      /\ lost' = lost \cup {b \in gone : b # Top.anim}
      /\ frames' = <<LoopFrame(Top.elem, Top.gotoEnd, i - 1, FALSE)>> \o Below
  BY <1>1 DEF Splice, On, stillVars
<1>3. /\ i \in Places /\ Ends(Top.anim) /\ Top.anim \in Anims /\ i - 1 \in Nat
      /\ Top.elem \in Elems /\ Top.gotoEnd \in BOOLEAN
  BY <1>1, <1>2, TopFacts, FrameParts DEF EffectsInv, FrameOK, Places
<1>4. state[Top.anim] # "pending"
  <2>1. ~On("fire")
    BY <1>2 DEF On
  <2> QED BY <1>3, <2>1, Ended DEF EffectsInv
<1>5. timers \in Seq(made \cap Asked) /\ (timers # <<>> => interval) /\ interval \in BOOLEAN
  BY DEF EffectsInv, AnimInv, TypeInv, EffectTypes
<1>6. /\ timers' \in Seq(made \cap Asked) /\ (timers' # <<>> => interval')
      /\ lost' = lost \/ \E b \in Range(timers) : lost' = lost \cup {b}
      /\ \A b \in Range(timers) : b \in Range(timers') \/ state[b] # "pending" \/ b \in lost'
  <2>1. CASE i <= Len(timers)
    <3>1. i \in DOMAIN timers /\ gone = {timers[i]}
      BY <1>1, <1>3, <1>5, <2>1 DEF Places
    <3>2. timers' = RemoveAt(timers, i) /\ timers # <<>> /\ timers[i] \in Range(timers)
      BY <1>2, <1>5, <3>1 DEF Range
    <3>3. timers[i] \in lost' \/ timers[i] = Top.anim
      BY <1>2, <3>1
    <3>4. lost' = lost \/ lost' = lost \cup {timers[i]}
      BY <1>2, <3>1
    <3> QED BY <1>2, <1>4, <1>5, <3>1, <3>2, <3>3, <3>4, RemoveFacts
  <2>2. CASE ~(i <= Len(timers))
    BY <1>1, <1>2, <1>5, <2>2
  <2> QED BY <2>1, <2>2
<1>7. PICK f \in Frames : f = LoopFrame(Top.elem, Top.gotoEnd, i - 1, FALSE)
  BY <1>3, FrameTypes
<1>8. f.code = "loop" /\ FrameOK(f) /\ f.elem = Top.elem /\ f.gotoEnd = Top.gotoEnd
  BY <1>7 DEF LoopFrame, FrameOK
<1>9. PICK a, k : a = {} /\ k = "progress"
  OBVIOUS
<1>10. PICK rest : rest = <<f>> \o Below
  OBVIOUS
<1>11. \A e \in Elems : LeadsTo(Top, e) => LeadsTo(f, e)
  BY <1>2, <1>8 DEF LeadsTo
<1>12. rest \in Seq(Frames) /\ WalkFrames({f}, a, k, rest) /\ ~On("fire") /\ ~On("dequeue")
  BY <1>2, <1>8, <1>9, <1>10, <1>11, WalkStep DEF WalkCodes
<1>13. /\ frames' \in Seq(Frames) /\ ListsOK(lists')
       /\ ListInv' /\ StackInv' /\ QueueInv' /\ AnimInv' /\ WakeInv' /\ PromiseInv'
  <2>1. Fires(a, k, rest) \/ (lists' = lists /\ frames' = rest)
    BY <1>2, <1>7, <1>10
  <2>2. lost \subseteq lost' /\ stopped' = stopped
    BY <1>2
  <2> QED BY <1>2, <1>6, <1>12, <2>1, <2>2, Walks
<1>14. TypeInv'
  BY <1>2, <1>5, <1>6, <1>13, WalkTypes DEF EffectsInv
<1> QED BY <1>13, <1>14 DEF EffectsInv

\* A throw leaves nothing running, and everything else as it is.
LEMMA ThrowMoves ==
    ASSUME EffectsInv, ~On("fire"), ~On("dequeue"), Still(frames), frames' = <<>>, threw' = TRUE,
           UNCHANGED <<lists, state, made, remaining, data, timers, interval, timeouts, target,
                       instant, stopped, lost, dropped, forgotten>>,
           UNCHANGED <<parts, functions, registered, follows, called>>, calls' \in 0 .. MaxCalls
    PROVE  EffectsInv'
<1> USE DEF EffectsInv
<1>1. Range(frames') = {} /\ \A f \in Range(frames) : ~Delicate(f)
  BY DEF Range, Still
<1>2. frames' \in Seq(Frames) /\ Calm(frames') /\ Apart(frames')
  BY DEF Calm, Apart
<1>3. Asked' = Asked
  BY DEF Asked
<1>4. ListsOK(lists') /\ ListInv'
  BY StayMoves
<1>5. TypeInv'
  <2>1. DeferredTypes'
    BY DEF TypeInv, DeferredTypes
  <2>2. EffectTypes'
    BY <1>3 DEF TypeInv, EffectTypes
  <2> QED BY <1>2, <1>4, <2>1, <2>2 DEF TypeInv
<1>6. StackInv'
  BY <1>1, <1>2 DEF StackInv
<1>7. QueueInv'
  <2>1. /\ made \subseteq made' /\ \A e \in Elems : made' \cap Range(data[e].queue) \subseteq made
        /\ \A f \in Range(frames') : Held(f) = {} \/ f \in Range(frames)
        /\ threw'
    BY <1>1
  <2> QED BY <2>1, QueueKept
<1>8. AnimInv'
  <2> SUFFICES ASSUME NEW a \in Anims PROVE AnimOK(a)'
    BY DEF AnimInv
  <2>1. AnimOK(a)
    BY DEF AnimInv
  <2>2. AttachFrame(a) \notin Range(frames)
    BY <1>1 DEF AttachFrame, Delicate
  <2>3. state[a] = "pending" => ~lists[<<a, "fail">>].fired
    BY Quiet, Names
  <2> QED BY <2>1, <2>2, <2>3, AnimKept
<1>9. WakeInv'
  BY DEF WakeInv
<1>10. PromiseInv'
  <2>1. \A f \in Range(frames') \cup Range(frames) :
              f.code = "empty" => f \in Range(frames') /\ f \in Range(frames)
    BY <1>1 DEF Delicate
  <2> QED BY <2>1, PromiseKept
<1> QED BY <1>4, <1>5, <1>6, <1>7, <1>8, <1>9, <1>10

\* A function of the page throws.
LEMMA PageThrowsKeeps == EffectsInv /\ PageThrows => EffectsInv'
<1> SUFFICES ASSUME EffectsInv, PageThrows PROVE EffectsInv'
  OBVIOUS
<1>1. /\ PageRuns /\ calls < MaxCalls /\ calls' = calls + 1 /\ frames' = <<>> /\ threw' = TRUE
      /\ UNCHANGED <<lists, state, made, remaining, data, timers, interval, timeouts, target,
                     instant, stopped, lost, dropped, forgotten>>
      /\ UNCHANGED <<parts, functions, registered, follows, called>>
  BY DEF PageThrows, PageCalls, Throw, givenVars
<1>2. Still(frames) /\ ~On("fire") /\ ~On("dequeue")
  BY <1>1, PageTop DEF EffectsInv
<1>3. calls' \in 0 .. MaxCalls
  <2>1. calls \in 0 .. MaxCalls /\ MaxCalls \in Nat
    BY EffectsAssumption DEF EffectsInv, TypeInv, EffectTypes
  <2> QED BY <1>1, <2>1
<1> QED BY <1>1, <1>2, <1>3, ThrowMoves

\* An animation begins, and finish() may have been called meanwhile.
LEMMA BegunKeeps == EffectsInv /\ Begun => EffectsInv'
<1> SUFFICES ASSUME EffectsInv, Begun PROVE EffectsInv'
  OBVIOUS
<1>1. PICK a : a = Top.anim
  OBVIOUS
<1>2. /\ frames # <<>> /\ Top.code = "begun"
      /\ UNCHANGED <<state, made, remaining, threw, data, timeouts, target, dropped, forgotten>>
      /\ UNCHANGED <<parts, functions, registered, follows, called, instant, calls>>
      /\ UNCHANGED <<lost, interval, timers>>
  BY DEF Begun, On, stillVars
<1>3. a \in made \cap Anims
  BY <1>1, <1>2, TopFacts, FrameParts DEF EffectsInv, FrameOK
<1>4. PICK k : k = "done"
  OBVIOUS
<1>5. \/ Fires(a, k, Below) /\ stopped' = stopped \cup {a}
      \/ lists' = lists /\ frames' = Below /\ stopped' = stopped
  <2>1. \/ AnimStop(a, TRUE, Below)
        \/ frames' = Below /\ lists' = lists /\ stopped' = stopped
    BY <1>1 DEF Begun
  <2> QED BY <1>3, <1>4, <2>1 DEF AnimStop, Fires
<1>6. \A e \in Elems : ~LeadsTo(Top, e)
  BY <1>2 DEF LeadsTo
<1>7. Below \in Seq(Frames) /\ WalkFrames({}, a, k, Below) /\ ~On("fire") /\ ~On("dequeue")
  BY <1>2, <1>4, <1>6, WalkEnds DEF WalkCodes
<1>8. (timers # <<>> => interval) /\ interval \in BOOLEAN
  BY DEF EffectsInv, AnimInv, TypeInv, EffectTypes
<1>9. /\ frames' \in Seq(Frames) /\ ListsOK(lists')
      /\ ListInv' /\ StackInv' /\ QueueInv' /\ AnimInv' /\ WakeInv' /\ PromiseInv'
  <2>1. Fires(a, k, Below) \/ (lists' = lists /\ frames' = Below)
    BY <1>5
  <2>2. stopped' = stopped \/ (stopped' = stopped \cup {a} /\ Fires(a, k, Below) /\ k # "progress")
    BY <1>4, <1>5
  <2>3. /\ lost \subseteq lost' /\ (timers' # <<>> => interval')
        /\ \A b \in Range(timers) : b \in Range(timers') \/ state[b] # "pending" \/ b \in lost'
    BY <1>2, <1>8
  <2> QED BY <1>2, <1>7, <2>1, <2>2, <2>3, Walks
<1>10. TypeInv'
  <2>1. stopped' = stopped \/ \E b \in made \cap Anims : stopped' = stopped \cup {b}
    BY <1>3, <1>5
  <2>2. interval' \in BOOLEAN
    BY <1>2, <1>8
  <2> QED BY <1>2, <1>9, <2>1, <2>2, WalkTypes DEF EffectsInv
<1> QED BY <1>9, <1>10 DEF EffectsInv

\* A round of the loop of stop or finish.
LEMMA LoopKeeps == EffectsInv /\ Loop => EffectsInv'
<1> SUFFICES ASSUME EffectsInv, Loop PROVE EffectsInv'
  OBVIOUS
<1>1. PICK e, g, i, a, dq : e = Top.elem /\ g = Top.gotoEnd /\ i = Top.at /\ a = timers[i]
                            /\ dq = Top.dequeue
  OBVIOUS
<1>2. /\ frames # <<>> /\ Top.code = "loop"
      /\ UNCHANGED <<state, made, remaining, data, timeouts, target, dropped, forgotten>>
      /\ UNCHANGED <<parts, functions, registered, follows, called, instant, calls>>
      /\ UNCHANGED <<lost, interval, timers>>
  BY DEF Loop, On, stillVars
<1>3. e \in Elems /\ g \in BOOLEAN /\ i \in Nat /\ dq \in BOOLEAN
  BY <1>1, <1>2, TopFacts, FrameParts DEF EffectsInv
<1>4. \A x \in Elems : LeadsTo(Top, x) => x = e /\ (dq \/ ~g)
  BY <1>1, <1>2 DEF LeadsTo
<1>5. (timers # <<>> => interval) /\ interval \in BOOLEAN /\ timers \in Seq(made \cap Asked)
      /\ Asked \subseteq Anims /\ ~On("fire") /\ ~On("dequeue")
  BY <1>2 DEF EffectsInv, AnimInv, TypeInv, EffectTypes, On
<1>6. /\ lost \subseteq lost' /\ (timers' # <<>> => interval') /\ interval' \in BOOLEAN
      /\ \A b \in Range(timers) : b \in Range(timers') \/ state[b] # "pending" \/ b \in lost'
  BY <1>2, <1>5
<1>7. CASE i > 0 /\ i > Len(timers)
  <2>1. frames' = <<>> /\ threw' = TRUE /\ UNCHANGED <<lists, stopped>>
    BY <1>1, <1>3, <1>7 DEF Loop
  <2>2. Still(frames)
    BY <1>2, TopFacts DEF EffectsInv, Delicate
  <2>3. calls' \in 0 .. MaxCalls
    BY <1>2 DEF EffectsInv, TypeInv, EffectTypes
  <2> QED BY <1>2, <1>5, <2>1, <2>2, <2>3, ThrowMoves
<1>8. CASE i = 0 /\ ~CallsDequeue(dq, g)
  <2>1. frames' = Below /\ UNCHANGED <<lists, stopped, threw>>
    BY <1>1, <1>2, <1>8, TopFacts DEF Loop, EffectsInv
  <2>2. PICK k : k = "progress"
    OBVIOUS
  <2>3. \A x \in Elems : ~LeadsTo(Top, x)
    BY <1>4, <1>8 DEF CallsDequeue
  <2>4. Below \in Seq(Frames) /\ WalkFrames({}, a, k, Below) /\ ~On("fire") /\ ~On("dequeue")
    BY <1>2, <2>2, <2>3, WalkEnds DEF WalkCodes
  <2>5. /\ frames' \in Seq(Frames) /\ ListsOK(lists')
        /\ ListInv' /\ StackInv' /\ QueueInv' /\ AnimInv' /\ WakeInv' /\ PromiseInv'
    <3>1. Fires(a, k, Below) \/ (lists' = lists /\ frames' = Below)
      BY <2>1
    <3> QED BY <1>2, <1>6, <2>1, <2>4, <3>1, Walks
  <2>6. TypeInv'
    BY <1>2, <1>6, <2>1, <2>5, WalkTypes DEF EffectsInv
  <2> QED BY <2>5, <2>6 DEF EffectsInv
<1>9. CASE i # 0 /\ ~(i > Len(timers)) /\ Animates(a, e)
  <2>1. a \in made \cap Anims /\ a \in Asked /\ target[a] = e /\ state[a] = "pending"
    <3>1. i \in DOMAIN timers
      BY <1>3, <1>5, <1>9
    <3> QED BY <1>1, <1>5, <1>9, <3>1 DEF Animates
  <2>2. a \notin stopped
    <3> SUFFICES ASSUME a \in stopped PROVE FALSE
      OBVIOUS
    <3>1. Ends(a)
      BY <2>1 DEF EffectsInv, AnimInv, AnimOK
    <3> QED BY <1>5, <2>1, <3>1, Ended DEF EffectsInv
  <2>3. PICK k : k = IF g THEN "done" ELSE "fail"
    OBVIOUS
  <2>4. PICK f \in Frames : f = SpliceFrame(e, g, i, a)
    BY <1>3, <1>9, <2>1, FrameTypes DEF Places
  <2>5. f.code = "splice" /\ f.anim = a /\ f.elem = e /\ f.gotoEnd = g
    BY <2>4 DEF SpliceFrame
  <2>6. PICK rest : rest = <<f>> \o Below
    OBVIOUS
  <2>7. Fires(a, k, rest) /\ stopped' = stopped \cup {a} /\ threw' = threw
    <3>1. AnimStop(a, g, <<SpliceFrame(e, g, i, a)>> \o Below) /\ threw' = threw
      BY <1>1, <1>3, <1>9 DEF Loop
    <3>2. stopped' = stopped \cup {a} /\ FireWith(lists, <<a, k>>, rest)
      BY <2>2, <2>3, <2>4, <2>6, <3>1 DEF AnimStop
    <3> QED BY <2>1, <2>3, <3>1, <3>2 DEF Fires
  <2>8. rest \in Seq(Frames) /\ WalkFrames({f}, a, k, rest) /\ ~On("fire") /\ ~On("dequeue")
    <3>1. k # "progress" /\ (k = "fail" => ~f.gotoEnd)
      BY <1>3, <2>3, <2>5
    <3>2. \A x \in Elems : LeadsTo(Top, x) =>
             \E b \in made \cap Anims : target[b] = x /\ state[b] = "pending"
      BY <1>4, <2>1
    <3> QED BY <1>2, <2>1, <2>5, <2>6, <2>7, <3>1, <3>2, WalkStep DEF WalkCodes
  <2>9. /\ frames' \in Seq(Frames) /\ ListsOK(lists')
        /\ ListInv' /\ StackInv' /\ QueueInv' /\ AnimInv' /\ WakeInv' /\ PromiseInv'
    <3>1. k # "progress"
      BY <2>3
    <3> QED BY <1>2, <1>6, <2>7, <2>8, <3>1, Walks
  <2>10. TypeInv'
    <3>1. \E b \in made \cap Anims : stopped' = stopped \cup {b}
      BY <2>1, <2>7
    <3> QED BY <1>2, <1>6, <2>7, <2>9, <3>1, WalkTypes DEF EffectsInv
  <2> QED BY <2>9, <2>10 DEF EffectsInv
<1>10. CASE \/ i = 0 /\ CallsDequeue(dq, g)
            \/ i # 0 /\ ~(i > Len(timers)) /\ ~Animates(a, e)
  <2>1. PICK f \in Frames :
           /\ f.code \in {"dequeue", "loop"} /\ FrameOK(f) /\ (dq \/ ~g => LeadsTo(f, e))
           /\ frames' = <<f>> \o Below
           /\ UNCHANGED <<lists, stopped, threw>>
    <3>1. CASE i = 0 /\ CallsDequeue(dq, g)
      <4>1. frames' = <<DequeueFrame(e)>> \o Below /\ UNCHANGED <<lists, stopped, threw>>
        BY <1>1, <3>1 DEF Loop
      <4>2. PICK f \in Frames : f = DequeueFrame(e)
        BY <1>3, FrameTypes
      <4>3. f.code = "dequeue" /\ f.elem = e
        BY <4>2 DEF DequeueFrame
      <4> QED BY <4>1, <4>2, <4>3 DEF FrameOK, LeadsTo
    <3>2. CASE i # 0 /\ ~(i > Len(timers)) /\ ~Animates(a, e)
      <4>1. frames' = <<LoopFrame(e, g, i - 1, dq)>> \o Below /\ UNCHANGED <<lists, stopped, threw>>
        BY <1>1, <3>2 DEF Loop
      <4>2. PICK f \in Frames : f = LoopFrame(e, g, i - 1, dq)
        BY <1>3, <3>2, FrameTypes
      <4>3. f.code = "loop" /\ f.elem = e /\ f.gotoEnd = g /\ f.dequeue = dq
        BY <4>2 DEF LoopFrame
      <4> QED BY <4>1, <4>2, <4>3 DEF FrameOK, LeadsTo
    <3> QED BY <1>10, <3>1, <3>2
  <2>2. PICK k, rest : k = "progress" /\ rest = <<f>> \o Below
    OBVIOUS
  <2>3. rest \in Seq(Frames) /\ WalkFrames({f}, a, k, rest) /\ ~On("fire") /\ ~On("dequeue")
    BY <1>2, <1>4, <2>1, <2>2, WalkStep DEF WalkCodes
  <2>4. /\ frames' \in Seq(Frames) /\ ListsOK(lists')
        /\ ListInv' /\ StackInv' /\ QueueInv' /\ AnimInv' /\ WakeInv' /\ PromiseInv'
    <3>1. Fires(a, k, rest) \/ (lists' = lists /\ frames' = rest)
      BY <2>1, <2>2
    <3> QED BY <1>2, <1>6, <2>1, <2>3, <3>1, Walks
  <2>5. TypeInv'
    BY <1>2, <1>6, <2>1, <2>4, WalkTypes DEF EffectsInv
  <2> QED BY <2>4, <2>5 DEF EffectsInv
<1> QED BY <1>3, <1>5, <1>7, <1>8, <1>9, <1>10

\* A function of the page returns.
LEMMA ReturnsKeeps == EffectsInv /\ Returns /\ UNCHANGED effectVars => EffectsInv'
<1> SUFFICES ASSUME EffectsInv, Returns, UNCHANGED effectVars PROVE EffectsInv'
  OBVIOUS
<1>1. /\ frames # <<>> /\ Top.code = "callback"
      /\ UNCHANGED <<state, made, remaining, threw, data, timeouts, target, dropped, forgotten>>
      /\ UNCHANGED <<parts, functions, registered, follows, called, instant, calls>>
      /\ UNCHANGED <<lost, interval, timers, stopped>>
  BY DEF Returns, On, givenVars, effectVars
<1>2. Top.then = NoDeferred
  BY <1>1, TopFacts, FrameParts DEF EffectsInv
<1>3. frames' = Below /\ lists' = lists
  BY <1>2 DEF Returns
<1>4. PICK a, k : a = {} /\ k = "progress"
  OBVIOUS
<1>5. \A e \in Elems : ~LeadsTo(Top, e)
  BY <1>1 DEF LeadsTo
<1>6. Below \in Seq(Frames) /\ WalkFrames({}, a, k, Below) /\ ~On("fire") /\ ~On("dequeue")
  BY <1>1, <1>4, <1>5, WalkEnds DEF WalkCodes
<1>7. (timers # <<>> => interval) /\ interval \in BOOLEAN
  BY DEF EffectsInv, AnimInv, TypeInv, EffectTypes
<1>8. /\ frames' \in Seq(Frames) /\ ListsOK(lists')
      /\ ListInv' /\ StackInv' /\ QueueInv' /\ AnimInv' /\ WakeInv' /\ PromiseInv'
  <2>1. Fires(a, k, Below) \/ (lists' = lists /\ frames' = Below)
    BY <1>3
  <2>2. /\ lost \subseteq lost' /\ stopped' = stopped /\ (timers' # <<>> => interval')
        /\ \A b \in Range(timers) : b \in Range(timers') \/ state[b] # "pending" \/ b \in lost'
    BY <1>1, <1>7
  <2> QED BY <1>1, <1>6, <2>1, <2>2, Walks
<1>9. TypeInv'
  <2>1. interval' \in BOOLEAN
    BY <1>1, <1>7
  <2> QED BY <1>1, <1>8, <2>1, WalkTypes DEF EffectsInv
<1> QED BY <1>8, <1>9 DEF EffectsInv

-----------------------------------------------------------------------------
(* The loop of fire().                                                     *)

\* The list that fires, and its next entry.
LEMMA FireTop ==
    ASSUME EffectsInv, On("fire"), NEW id, id = Firing, NEW l, l = lists[id]
    PROVE  /\ Top = FireFrame(id) /\ id \in ListIds /\ id = <<id[1], id[2]>>
           /\ id[1] \in Deferreds /\ id[2] \in Kinds
           /\ frames # <<>> /\ Top.code = "fire" /\ frames \in Seq(Frames)
           /\ l \in List /\ ListOK(l) /\ Good(id[2], l, state[id[1]]) /\ l.fired
           /\ HasNext => /\ l.on /\ l.next \in DOMAIN l.fns /\ l.next <= l.length
                         /\ NextEntry = l.fns[l.next] /\ Allowed(NextEntry, id[2])
           /\ ~HasNext /\ id[2] \in {"done", "fail"} => state[id[1]] # "pending"
           /\ \A x \in Settling : x # id /\ state[x[1]] = "pending" => ~lists[x].fired
<1>1. /\ frames # <<>> /\ Top.code = "fire" /\ Top \in Frames /\ FrameOK(Top)
      /\ frames \in Seq(Frames)
  BY TopFacts DEF On, EffectsInv, TypeInv
<1>2. Top = FireFrame(id) /\ id \in ListIds /\ l.fired
  BY <1>1, FrameParts DEF Firing, FrameOK
<1>3. id = <<id[1], id[2]>> /\ id[1] \in Deferreds /\ id[2] \in Kinds
  BY <1>2 DEF ListIds
<1>4. l \in List /\ ListOK(l) /\ Good(id[2], l, state[id[1]])
  BY <1>2, ListOf DEF EffectsInv
<1>5. HasNext => /\ l.on /\ l.next \in DOMAIN l.fns /\ l.next <= l.length
                 /\ NextEntry = l.fns[l.next] /\ Allowed(NextEntry, id[2])
  <2> HAVE HasNext
  <2>1. l.on /\ l.next <= l.length
    BY DEF HasNext
  <2>2. l.fns \in Seq(Entry) /\ l.next \in Nat /\ l.length \in Nat /\ l.next >= 1
        /\ l.length <= Len(l.fns)
    BY <1>4, <2>1, ListFields DEF ListOK
  <2>3. l.next \in DOMAIN l.fns
    BY <2>1, <2>2
  <2> QED BY <1>4, <2>1, <2>3 DEF NextEntry, Good
<1>6. ~HasNext /\ id[2] \in {"done", "fail"} => state[id[1]] # "pending"
  <2> SUFFICES ASSUME id[2] \in {"done", "fail"}, state[id[1]] = "pending" PROVE HasNext
    OBVIOUS
  <2>1. l.on /\ l.next = 1 /\ l.fns # <<>> /\ l.fired = l.firing
        /\ (l.on /\ l.firing => l.length = Len(l.fns))
    BY <1>4 DEF Good
  <2>2. l.fns \in Seq(Entry) /\ l.firing
    BY <1>2, <1>4, <2>1, ListFields
  <2> QED BY <2>1, <2>2 DEF HasNext
<1>7. ASSUME NEW x \in Settling, x # id, state[x[1]] = "pending"
      PROVE  ~lists[x].fired
  <2> SUFFICES ASSUME lists[x].fired PROVE FALSE
    OBVIOUS
  <2>1. Top = FireFrame(x)
    BY <1>7 DEF EffectsInv, ListInv, PendingOK, Top
  <2> QED BY <1>2, <1>7, <2>1 DEF FireFrame
<1> QED BY <1>1, <1>2, <1>3, <1>4, <1>5, <1>6, <1>7

\* What a step of the loop leaves as it should be, when it settles at most
\* animations that were about to end.
LEMMA LoopSteps ==
    ASSUME EffectsInv, On("fire"), NEW M,
           \A f \in M : FrameOK(f)' /\ Held(f) = {} /\ f.code # "empty",
           Range(frames') \subseteq M \cup Range(frames),
           \A f \in Range(frames) : f.code # "fire" => f \in Range(frames'),
           Calm(frames'), Apart(frames'),
           \A x \in ListIds : lists'[x].fired = lists[x].fired,
           \A d \in Deferreds : Completes(lists'[<<d, "done">>]) => Completes(lists[<<d, "done">>]),
           \A a \in Anims :
              /\ state'[a] = "pending" /\ Completes(lists[<<a, "done">>]) => Completes(lists'[<<a, "done">>])
              /\ state'[a] = state[a] \/ (state'[a] # "pending" /\ Ends(a)),
           UNCHANGED <<made, remaining, threw, data, timers, interval, timeouts, target, stopped,
                       lost, dropped, forgotten>>
    PROVE  StackInv' /\ QueueInv' /\ AnimInv' /\ PromiseInv'
<1> USE DEF EffectsInv
<1>1. Asked' = Asked /\ Asked \subseteq Anims
  BY DEF Asked, TypeInv, EffectTypes
<1>2. StackInv'
  <2>1. PICK O : O = Range(frames)
    OBVIOUS
  <2>2. \A f \in O : f.code = "attach" =>
           ~lists'[<<f.anim, "fail">>].fired /\ ~Completes(lists'[<<f.anim, "done">>])
    <3> SUFFICES ASSUME NEW f \in Range(frames), f.code = "attach"
                 PROVE  ~lists'[<<f.anim, "fail">>].fired /\ ~Completes(lists'[<<f.anim, "done">>])
      BY <2>1
    <3>1. FrameOK(f)
      BY DEF StackInv
    <3>2. f.anim \in Deferreds
      BY <1>1, <3>1, Names DEF FrameOK
    <3> QED BY <3>1, <3>2, Names DEF FrameOK
  <2>3. /\ Asked \subseteq Asked' /\ made \subseteq made' /\ O \in SUBSET Range(frames)
        /\ \A f \in O : made' \cap Held(f) \subseteq made
        /\ \A id \in ListIds : lists[id].fired => lists'[id].fired
        /\ \A b \in Anims : state[b] # "pending" => state'[b] # "pending"
        /\ Range(frames') \subseteq M \cup O
    BY <1>1, <2>1
  <2>4. TypeInv /\ StackInv /\ \A f \in M : FrameOK(f)'
    OBVIOUS
  <2> HIDE DEF EffectsInv
  <2> QED BY <2>2, <2>3, <2>4, StackKept
<1>3. QueueInv'
  <2>1. /\ made \subseteq made' /\ \A e \in Elems : made' \cap Range(data[e].queue) \subseteq made
        /\ \A f \in Range(frames') : Held(f) = {} \/ f \in Range(frames)
    OBVIOUS
  <2>2. threw' \/ (~threw /\ \A f \in Range(frames) :
                                 f.code \in {"dequeue", "finish"} => f \in Range(frames'))
    BY DEF TypeInv, DeferredTypes
  <2>3. ~On("dequeue") /\ UNCHANGED <<data, timeouts, target>>
    BY DEF On
  <2> QED BY <2>1, <2>2, <2>3, QueueKept
<1>4. AnimInv'
  <2>1. \A d \in Deferreds : Completes(lists'[<<d, "done">>]) => d \in made' \cap Anims
    BY DEF AnimInv
  <2>2. timers' # <<>> => interval'
    BY DEF AnimInv
  <2>3. ASSUME NEW a \in Anims PROVE AnimOK(a)'
    <3>1. AnimOK(a) /\ <<a, "done">> \in ListIds /\ <<a, "fail">> \in ListIds
      BY Names DEF AnimInv
    <3>2. CASE state'[a] = state[a]
      <4>1. AttachFrame(a) \in Range(frames) => AttachFrame(a) \in Range(frames')
        BY DEF AttachFrame
      <4>2. \A f \in Range(frames) : f.code = "splice" => f \in Range(frames')
        OBVIOUS
      <4>3. state[a] = "pending" =>
               (Completes(lists[<<a, "done">>]) => Completes(lists'[<<a, "done">>]))
        BY <3>2
      <4>4. /\ lists'[<<a, "done">>].fired = lists[<<a, "done">>].fired
            /\ lists'[<<a, "fail">>].fired = lists[<<a, "fail">>].fired
            /\ target'[a] = target[a] /\ (a \in made' <=> a \in made)
            /\ (a \in stopped' => a \in stopped) /\ (a \in lost => a \in lost')
            /\ a \in Range(timers) => a \in Range(timers')
        BY <3>1
      <4> HIDE DEF EffectsInv
      <4> QED BY <3>1, <3>2, <4>1, <4>2, <4>3, <4>4, AnimKept
    <3>3. CASE state'[a] # state[a]
      <4>1. state'[a] # "pending" /\ Ends(a) /\ Ends(a)'
        BY <3>3 DEF Ends
      <4>2. a \in made
        BY <3>1, <4>1 DEF AnimOK
      <4> QED BY <4>1, <4>2 DEF AnimOK
    <3> QED BY <3>2, <3>3
  <2> QED BY <2>1, <2>2, <2>3 DEF AnimInv
<1>5. PromiseInv'
  <2>2. \A p \in Counted : /\ lists'[<<p, "done">>].fired = lists[<<p, "done">>].fired
                           /\ lists'[<<p, "fail">>].fired = lists[<<p, "fail">>].fired
    BY Names
  <2>3. \A f \in Range(frames') \cup Range(frames) :
              f.code = "empty" => f \in Range(frames') /\ f \in Range(frames)
    OBVIOUS
  <2>4. /\ \A e \in Elems : data'[e].waiters = data[e].waiters
        /\ UNCHANGED <<remaining, dropped>> /\ made' \cap Counted = made \cap Counted
    OBVIOUS
  <2> HIDE DEF EffectsInv
  <2>5. PromiseInv
    BY DEF EffectsInv
  <2> QED BY <2>2, <2>3, <2>4, <2>5, PromiseKept
<1> QED BY <1>2, <1>3, <1>4, <1>5

\* The types of what the loop does not touch.
LEMMA LoopTypes ==
    ASSUME TypeInv, frames' \in Seq(Frames), ListsOK(lists'),
           state' \in [Deferreds -> {"pending", "resolved", "rejected"}],
           called' \in [ListIds -> Seq(Fns)],
           UNCHANGED <<made, remaining, functions, parts, follows, registered, threw>>,
           UNCHANGED effectVars
    PROVE  TypeInv'
<1>1. Asked' = Asked
  BY DEF Asked, effectVars
<1>2. DeferredTypes'
  BY DEF TypeInv, DeferredTypes
<1>3. EffectTypes'
  BY <1>1 DEF TypeInv, EffectTypes, effectVars
<1> QED BY <1>2, <1>3 DEF TypeInv

\* What leads to dequeue does so after a step of the loop of the list id.
LEMMA LoopWakes ==
    ASSUME EffectsInv, On("fire"), NEW id, id = Firing,
           UNCHANGED <<data, timeouts, target, made, threw, forgotten>>,
           \A f \in Range(frames) : f.code # "fire" => f \in Range(frames'),
           \A f \in Range(frames) : f # Top => f \in Range(frames'),
           \A x \in ListIds : x[2] = "done" /\ x # id /\ FireFrame(x) \in Range(frames) =>
              (ToComplete(lists[x]) => ToComplete(lists'[x])),
           \A a \in Anims : a \in made /\ state[a] = "pending" /\ state'[a] # "pending" => Wakes(target[a])',
           \A e \in Elems : LeadsTo(Top, e) => Wakes(e)'
    PROVE  WakeInv'
<1> USE DEF EffectsInv
<1>1. Asked' = Asked /\ frames \in Seq(Frames) /\ made \cap Anims \subseteq Asked
  BY DEF Asked, TypeInv, EffectTypes
<1>2. ASSUME NEW e \in Elems, NEW f \in Range(frames), LeadsTo(f, e) PROVE Wakes(e)'
  <2>1. CASE f = Top
    BY <1>2, <2>1
  <2>2. CASE f # Top
    <3>1. f \in Frames /\ FrameOK(f) /\ f \in Range(frames')
      BY <1>1, <2>2, RangeType DEF StackInv
    <3>2. f.code = "fire" => f.list \in ListIds /\ f = FireFrame(f.list) /\ f.list # id
      <4> HAVE f.code = "fire"
      <4>1. f.list \in ListIds /\ f = FireFrame(f.list)
        BY <3>1, FrameParts
      <4>2. Top = FireFrame(id)
        BY FireTop
      <4> QED BY <2>2, <4>1, <4>2
    <3>3. f.code = "fire" /\ f.list[2] = "done" =>
             (ToComplete(lists[f.list]) => ToComplete(lists'[f.list]))
      BY <1>2, <3>2
    <3>4. LeadsTo(f, e)'
      <4> HIDE DEF EffectsInv
      <4> QED BY <1>1, <1>2, <3>1, <3>3, LeadsKept
    <3> QED BY <3>1, <3>4 DEF Wakes
  <2> QED BY <2>1, <2>2
<1>3. CASE threw
  BY <1>3 DEF WakeInv
<1>4. CASE ~threw
  <2>1. \A a \in made \cap Anims : state[a] = "pending" =>
           state'[a] = "pending" \/ Wakes(target[a])'
    OBVIOUS
  <2>2. /\ \A e \in Elems : timeouts'[e] = timeouts[e]
        /\ \A e \in Elems : Due(e)' => Due(e) \/ Wakes(e)'
        /\ Asked \subseteq Asked' /\ \A a \in Asked : target'[a] = target[a]
        /\ made \cap Anims \subseteq Asked /\ made \subseteq made' /\ WakeInv
    BY <1>1 DEF Due
  <2> HIDE DEF EffectsInv
  <2> QED BY <1>2, <1>4, <2>1, <2>2, WakeKept
<1> QED BY <1>3, <1>4

\* A function of the page is called: of a list of progress, or of fail.
LEMMA CallsKeeps == EffectsInv /\ Calls /\ UNCHANGED effectVars => EffectsInv'
<1> SUFFICES ASSUME EffectsInv, Calls, UNCHANGED effectVars PROVE EffectsInv'
  OBVIOUS
<1>1. PICK id, l : id = Firing /\ l = lists[id]
  OBVIOUS
<1>2. /\ On("fire") /\ HasNext /\ NextEntry.kind \in {"user", "then"}
      /\ lists' = [lists EXCEPT ![id].next = @ + 1]
      /\ frames' = <<CallFrame(id, IF NextEntry.kind = "then" THEN NextEntry.to ELSE NoDeferred)>> \o frames
      /\ called' = [called EXCEPT ![id] = IF id[2] = "progress" THEN @ ELSE Append(@, NextEntry.fn)]
      /\ UNCHANGED <<state, remaining, follows, threw, made, parts, functions, registered>>
  BY <1>1 DEF Calls, Stepped, givenVars
<1>3. /\ Top = FireFrame(id) /\ id \in ListIds /\ id = <<id[1], id[2]>>
      /\ id[1] \in Deferreds /\ id[2] \in Kinds
      /\ frames # <<>> /\ Top.code = "fire" /\ frames \in Seq(Frames)
      /\ l \in List /\ ListOK(l) /\ Good(id[2], l, state[id[1]]) /\ l.fired
      /\ l.on /\ l.next \in DOMAIN l.fns /\ l.next <= l.length
      /\ NextEntry = l.fns[l.next] /\ Allowed(NextEntry, id[2])
      /\ \A x \in Settling : x # id /\ state[x[1]] = "pending" => ~lists[x].fired
  BY <1>1, <1>2, FireTop
<1>4. NextEntry.kind = "user" /\ id[2] \in {"fail", "progress"} /\ NextEntry # SettleEntry
  <2>1. SettleEntry.kind = "settle" /\ Internal("complete").kind = "internal"
    BY DEF SettleEntry, Internal
  <2>2. PICK n, k : n = NextEntry /\ k = id[2]
    OBVIOUS
  <2>3. Allowed(n, k) /\ k \in Kinds /\ n.kind \in {"user", "then"}
    BY <1>2, <1>3, <2>2
  <2>4. n # SettleEntry /\ n # Internal("complete")
    BY <2>1, <2>3
  <2>5. CASE k = "done"
    BY <2>3, <2>4, <2>5 DEF Allowed
  <2>6. CASE k = "fail"
    BY <2>2, <2>3, <2>4, <2>6 DEF Allowed
  <2>7. CASE k = "progress"
    BY <2>2, <2>3, <2>4, <2>7 DEF Allowed
  <2>8. CASE k = "complete"
    BY <2>3, <2>8 DEF Allowed
  <2> QED BY <2>3, <2>5, <2>6, <2>7, <2>8 DEF Kinds
<1>5. id[2] = "fail" => state[id[1]] = Outcome("fail") /\ state[id[1]] # "pending"
  <2> HAVE id[2] = "fail"
  <2>1. state[id[1]] = "pending" => l.next = 1 /\ l.fns[1] = SettleEntry
    BY <1>3 DEF Good
  <2>2. state[id[1]] # "pending"
    BY <1>3, <1>4, <2>1
  <2> QED BY <1>3, <2>2 DEF Good
<1>6. PICK m \in List : m = Further(l)
  BY <1>3, SteppedOK DEF Further
<1>7. /\ ListOK(m) /\ Good(id[2], m, state[id[1]]) /\ m.fired = l.fired /\ m.firing = l.firing
      /\ m.fns = l.fns
  <2>1. PICK k, s : k = id[2] /\ s = state[id[1]]
    OBVIOUS
  <2>2. Settled(k, l, s)
    BY <1>3, <1>4, <1>5, <2>1 DEF Settled
  <2>3. Good(k, l, s) /\ l \in List /\ ListOK(l) /\ l.on /\ l.next <= l.length
    BY <1>3, <2>1
  <2>4. ListOK(m) /\ Good(k, m, s)
    BY <1>6, <2>2, <2>3, SteppedFacts
  <2>5. m.fired = l.fired /\ m.firing = l.firing /\ m.fns = l.fns
    BY <1>3, <1>6 DEF Further, List
  <2> QED BY <2>1, <2>4, <2>5
<1>8. lists'[id] = m /\ \A x \in ListIds : x # id => lists'[x] = lists[x]
  BY <1>1, <1>2, <1>3, <1>6, ListOf DEF EffectsInv, Further
<1>9. ListsOK(lists')
  <2>1. lists \in [ListIds -> List] /\ \A x \in ListIds : ListOK(lists[x])
    BY DEF EffectsInv, TypeInv, ListsOK
  <2>2. lists' = [lists EXCEPT ![id] = m]
    BY <1>1, <1>2, <1>3, <1>6, <2>1 DEF Further
  <2> QED BY <1>7, <1>8, <2>1, <2>2 DEF ListsOK
<1>10. PICK c \in Frames : c = CallFrame(id, NoDeferred)
  BY <1>3, FrameTypes
<1>11. c.code = "callback" /\ Held(c) = {} /\ ~Delicate(c) /\ FrameOK(c)' /\ frames' = <<c>> \o frames
  BY <1>2, <1>4, <1>10, HeldFacts DEF CallFrame, Delicate, FrameOK
<1>12. frames' \in Seq(Frames) /\ Range(frames') = {c} \cup Range(frames)
  BY <1>3, <1>11, PushFacts
<1>13. Still(frames)
  <2>1. \A f \in Range(Below) : ~Delicate(f)
    <3> SUFFICES ASSUME NEW f \in Range(Below), Delicate(f) PROVE FALSE
      OBVIOUS
    <3>1. Settler(Top, f)
      BY <1>3, CalmFacts DEF EffectsInv, StackInv, Top, Below
    <3>2. Top.list = id
      BY <1>3 DEF FireFrame
    <3> QED BY <1>4, <3>1, <3>2 DEF Settler
  <2>2. ~Delicate(Top)
    BY <1>3 DEF Delicate
  <2>3. Range(frames) = {Top} \cup Range(Below)
    BY <1>3, TopFacts DEF EffectsInv
  <2> QED BY <2>1, <2>2, <2>3 DEF Still, Range
<1>14. Calm(frames') /\ Apart(frames')
  BY <1>3, <1>11, <1>13, StillPush, ApartPush DEF EffectsInv, StackInv
<1>15. ListInv'
  <2>1. \A x \in ListIds : Good(x[2], lists'[x], state'[x[1]])
    BY <1>2, <1>7, <1>8 DEF EffectsInv, ListInv
  <2>2. PendingOK(lists', state', frames')
    <3> SUFFICES ASSUME NEW x \in Settling, state[x[1]] = "pending", lists'[x].fired PROVE FALSE
      BY <1>2 DEF PendingOK
    <3>1. x # id
      BY <1>4, <1>5 DEF Settling
    <3> QED BY <1>3, <1>8, <3>1, Names
  <2>3. LoopsOK(lists', frames', threw')
    <3> SUFFICES ASSUME NEW d \in Deferreds, lists'[<<d, "done">>].firing, ~threw
                 PROVE  FireFrame(<<d, "done">>) \in Range(frames')
      BY <1>2 DEF LoopsOK
    <3>1. lists[<<d, "done">>].firing
      <4>1. <<d, "done">> # id /\ <<d, "done">> \in ListIds
        <5>1. <<d, "done">>[2] = "done" /\ <<d, "done">> \in ListIds
          BY Names
        <5> QED BY <1>4, <5>1
      <4> QED BY <1>8, <4>1
    <3> QED BY <1>12, <3>1 DEF EffectsInv, ListInv, LoopsOK
  <2> QED BY <2>1, <2>2, <2>3 DEF ListInv
<1>16. UNCHANGED <<made, remaining, threw, data, timers, interval, timeouts, target, stopped,
                   lost, dropped, forgotten>>
  BY <1>2 DEF effectVars
<1>17. StackInv' /\ QueueInv' /\ AnimInv' /\ PromiseInv'
  <2>1. PICK M : M = {c}
    OBVIOUS
  <2>2. \A x \in ListIds : lists'[x].fired = lists[x].fired /\ lists'[x].fns = lists[x].fns
    BY <1>1, <1>7, <1>8
  <2>3. /\ \A f \in M : FrameOK(f)' /\ Held(f) = {} /\ f.code # "empty"
        /\ Range(frames') \subseteq M \cup Range(frames)
        /\ \A f \in Range(frames) : f.code # "fire" => f \in Range(frames')
    BY <1>11, <1>12, <2>1
  <2>4. \A d \in Deferreds : Completes(lists'[<<d, "done">>]) <=> Completes(lists[<<d, "done">>])
    BY <2>2, Names DEF Completes
  <2>5. \A a \in Anims :
           /\ state'[a] = "pending" /\ Completes(lists[<<a, "done">>]) => Completes(lists'[<<a, "done">>])
           /\ state'[a] = state[a] \/ (state'[a] # "pending" /\ Ends(a))
    BY <1>2, <2>4, Names
  <2> QED BY <1>2, <1>14, <1>16, <2>2, <2>3, <2>4, <2>5, LoopSteps
<1>18. WakeInv'
  <2>1. \A f \in Range(frames) : f \in Range(frames')
    BY <1>12
  <2>2. \A x \in ListIds : x[2] = "done" => lists'[x] = lists[x]
    BY <1>4, <1>8
  <2>3. \A e \in Elems : ~LeadsTo(Top, e)
    BY <1>3, <1>4 DEF LeadsTo, FireFrame
  <2> QED BY <1>1, <1>2, <1>16, <2>1, <2>2, <2>3, LoopWakes
<1>19. TypeInv'
  <2>1. NextEntry.fn \in Fns
    <3>1. l.fns \in Seq(Entry)
      BY <1>3, ListFields
    <3>2. NextEntry \in Entry
      BY <1>3, <3>1
    <3> QED BY <1>4, <3>2 DEF Entry, SettleEntry
  <2>2. called \in [ListIds -> Seq(Fns)] /\ state \in [Deferreds -> {"pending", "resolved", "rejected"}]
    BY DEF EffectsInv, TypeInv, DeferredTypes
  <2>3. called' \in [ListIds -> Seq(Fns)]
    <3>1. called[id] \in Seq(Fns) /\ Append(called[id], NextEntry.fn) \in Seq(Fns)
      BY <1>3, <2>1, <2>2
    <3>2. PICK q \in Seq(Fns) : called' = [called EXCEPT ![id] = q]
      BY <1>2, <2>2, <3>1
    <3> QED BY <2>2, <3>2
  <2> QED BY <1>2, <1>9, <1>12, <2>2, <2>3, LoopTypes DEF EffectsInv
<1> QED BY <1>15, <1>17, <1>18, <1>19 DEF EffectsInv

\* The entry that settles the deferred, and switches the other list off.
LEMMA SettlesKeeps == EffectsInv /\ Settles /\ UNCHANGED effectVars => EffectsInv'
<1> SUFFICES ASSUME EffectsInv, Settles, UNCHANGED effectVars PROVE EffectsInv'
  OBVIOUS
<1>1. PICK id, l, d, k, s, t : /\ id = Firing /\ l = lists[id] /\ d = id[1] /\ k = id[2]
                               /\ s = state[d] /\ t = Outcome(k)
  OBVIOUS
<1>2. PICK o : o = IF k = "done" THEN "fail" ELSE "done"
  OBVIOUS
<1>3. /\ On("fire") /\ HasNext /\ NextEntry.kind = "settle"
      /\ state' = [state EXCEPT ![d] = t]
      /\ lists' = [Stepped EXCEPT ![<<d, o>>] = Disabled(@), ![<<d, "progress">>] = Locked(@)]
      /\ UNCHANGED <<frames, remaining, follows, called, threw, made, parts, functions, registered>>
  BY <1>1, <1>2 DEF Settles, givenVars
<1>4. /\ Top = FireFrame(id) /\ id \in ListIds /\ id = <<d, k>> /\ d \in Deferreds /\ k \in Kinds
      /\ frames # <<>> /\ Top.code = "fire" /\ frames \in Seq(Frames)
      /\ l \in List /\ ListOK(l) /\ Good(k, l, s) /\ l.fired
      /\ l.on /\ l.next \in DOMAIN l.fns /\ l.next <= l.length
      /\ NextEntry = l.fns[l.next] /\ Allowed(NextEntry, k)
      /\ \A x \in Settling : x # id /\ state[x[1]] = "pending" => ~lists[x].fired
  BY <1>1, <1>3, FireTop
<1>5. /\ k \in {"done", "fail"} /\ o \in {"done", "fail"} /\ o # k /\ NextEntry # Internal("complete")
      /\ NextEntry = SettleEntry /\ <<d, o>> \in ListIds /\ <<d, "progress">> \in ListIds
      /\ <<d, o>> # id /\ <<d, "progress">> # id /\ <<d, o>> # <<d, "progress">>
  <2>1. Internal("complete").kind = "internal"
    BY DEF Internal
  <2>2. PICK n : n = NextEntry
    OBVIOUS
  <2>3. Allowed(n, k) /\ n.kind = "settle"
    BY <1>3, <1>4, <2>2
  <2>4. k \in {"done", "fail"} /\ n # Internal("complete") /\ n = SettleEntry
    <3>1. CASE k = "done"
      BY <2>1, <2>3, <3>1 DEF Allowed
    <3>2. CASE k = "fail"
      BY <2>1, <2>3, <3>2 DEF Allowed
    <3>3. CASE k = "progress"
      BY <2>3, <3>3 DEF Allowed
    <3>4. CASE k = "complete"
      BY <2>3, <3>4 DEF Allowed
    <3> QED BY <1>4, <3>1, <3>2, <3>3, <3>4 DEF Kinds
  <2> QED BY <1>2, <1>4, <2>2, <2>4, Names
<1>6. t \in {"resolved", "rejected"} /\ t # Outcome(o) /\ t # "pending"
  BY <1>1, <1>2, <1>5 DEF Outcome
<1>7. PICK m, y, z : /\ m = Further(l) /\ y = Disabled(lists[<<d, o>>])
                     /\ z = Locked(lists[<<d, "progress">>])
  OBVIOUS
<1>8. /\ lists'[id] = m /\ lists'[<<d, o>>] = y /\ lists'[<<d, "progress">>] = z
      /\ \A x \in ListIds : x \notin {id, <<d, o>>, <<d, "progress">>} => lists'[x] = lists[x]
      /\ lists' = [[[lists EXCEPT ![id] = m] EXCEPT ![<<d, o>>] = y] EXCEPT ![<<d, "progress">>] = z]
  <2>1. Stepped = [lists EXCEPT ![id] = m] /\ lists \in [ListIds -> List]
    BY <1>1, <1>4, <1>7, ListOf DEF Stepped, Further, EffectsInv
  <2>2. PICK q : q = Stepped
    OBVIOUS
  <2>3. lists' = [[q EXCEPT ![<<d, o>>] = Disabled(q[<<d, o>>])]
                     EXCEPT ![<<d, "progress">>] = Locked(q[<<d, "progress">>])]
    BY <1>3, <1>5, <2>1, <2>2
  <2>4. q[<<d, o>>] = lists[<<d, o>>] /\ q[<<d, "progress">>] = lists[<<d, "progress">>]
    BY <1>5, <2>1, <2>2
  <2>5. lists' = [[[lists EXCEPT ![id] = m] EXCEPT ![<<d, o>>] = y] EXCEPT ![<<d, "progress">>] = z]
    BY <1>7, <2>1, <2>2, <2>3, <2>4
  <2> QED BY <1>4, <1>5, <2>1, <2>5
<1>9. /\ m \in List /\ ListOK(m) /\ Good(k, m, t)
      /\ m.fired = l.fired /\ m.firing = l.firing /\ m.fns = l.fns /\ m.next = l.next + 1
      /\ m.length = l.length /\ m.on = l.on
  <2>1. Settled(k, l, t)
    BY <1>1, <1>4 DEF Settled
  <2>2. m \in List /\ ListOK(m) /\ Good(k, m, t)
    BY <1>4, <1>7, <2>1, SteppedFacts
  <2>3. /\ m.fired = l.fired /\ m.firing = l.firing /\ m.fns = l.fns /\ m.next = l.next + 1
        /\ m.length = l.length /\ m.on = l.on
    BY <1>4, <1>7 DEF Further, List
  <2> QED BY <2>2, <2>3
<1>10. /\ y \in List /\ ListOK(y) /\ Good(o, y, t) /\ y.fns = <<>>
       /\ y.fired = lists[<<d, o>>].fired /\ y.firing = lists[<<d, o>>].firing
  <2>1. PICK p : p = lists[<<d, o>>]
    OBVIOUS
  <2>2. p \in List /\ ListOK(p) /\ Good(o, p, s)
    BY <1>1, <1>5, <2>1, ListOf DEF EffectsInv
  <2>3. y \in List /\ ListOK(y) /\ Good(o, y, t)
    BY <1>5, <1>6, <1>7, <2>1, <2>2, OffFacts
  <2>4. y.fns = <<>> /\ y.fired = p.fired /\ y.firing = p.firing
    BY <1>7, <2>1, <2>2 DEF Disabled, List
  <2> QED BY <2>1, <2>3, <2>4
<1>11. z \in List /\ ListOK(z) /\ Good("progress", z, t) /\ z.fired = lists[<<d, "progress">>].fired
  <2>1. PICK p, kp : p = lists[<<d, "progress">>] /\ kp = "progress"
    OBVIOUS
  <2>2. p \in List /\ ListOK(p) /\ Good(kp, p, s)
    BY <1>1, <1>5, <2>1, ListOf DEF EffectsInv
  <2>3. z \in List /\ ListOK(z) /\ Good(kp, z, t)
    <3>1. PICK q : q = Disabled(p)
      OBVIOUS
    <3>2. kp = "progress" /\ z = Locked(p)
      BY <1>7, <2>1
    <3> QED BY <2>2, <3>1, <3>2, OffFacts
  <2>4. z.fired = p.fired
    BY <1>7, <2>1, <2>2 DEF Locked, Disabled, List
  <2> QED BY <2>1, <2>3, <2>4
<1>12. lists' \in [ListIds -> List] /\ ListsOK(lists')
  <2>1. lists \in [ListIds -> List] /\ \A x \in ListIds : ListOK(lists[x])
    BY DEF EffectsInv, TypeInv, ListsOK
  <2>2. lists' \in [ListIds -> List]
    BY <1>8, <1>9, <1>10, <1>11, <2>1
  <2>3. \A x \in ListIds : ListOK(lists'[x])
    BY <1>8, <1>9, <1>10, <1>11, <2>1
  <2> QED BY <2>2, <2>3 DEF ListsOK
<1>13. state' \in [Deferreds -> {"pending", "resolved", "rejected"}] /\ state'[d] = t
       /\ \A x \in Deferreds : x # d => state'[x] = state[x]
  <2>1. state \in [Deferreds -> {"pending", "resolved", "rejected"}]
    BY DEF EffectsInv, TypeInv, DeferredTypes
  <2> QED BY <1>3, <1>4, <1>6, <2>1
<1>14. \A x \in ListIds : /\ lists'[x].fired = lists[x].fired
                          /\ x[2] = "done" => lists'[x].firing = lists[x].firing
  <2> TAKE x \in ListIds
  <2>1. CASE x = id
    BY <1>1, <1>8, <1>9, <2>1
  <2>2. CASE x = <<d, o>>
    BY <1>8, <1>10, <2>2
  <2>3. CASE x = <<d, "progress">>
    BY <1>8, <1>11, <2>3
  <2>4. CASE x \notin {id, <<d, o>>, <<d, "progress">>}
    BY <1>8, <2>4
  <2> QED BY <2>1, <2>2, <2>3, <2>4
<1>15. ListInv'
  <2>1. ASSUME NEW x \in ListIds PROVE Good(x[2], lists'[x], state'[x[1]])
    <3>1. x = <<x[1], x[2]>> /\ x[1] \in Deferreds /\ x[2] \in Kinds
      BY DEF ListIds
    <3>2. CASE x = id
      BY <1>4, <1>8, <1>9, <1>13, <3>2
    <3>3. CASE x = <<d, o>>
      BY <1>8, <1>10, <1>13, <3>3
    <3>4. CASE x = <<d, "progress">>
      BY <1>8, <1>11, <1>13, <3>4
    <3>5. CASE x \notin {id, <<d, o>>, <<d, "progress">>}
      <4>1. lists'[x] = lists[x] /\ Good(x[2], lists[x], state[x[1]])
        BY <1>8, <3>5 DEF EffectsInv, ListInv
      <4>2. CASE x[1] # d
        BY <1>13, <3>1, <4>1, <4>2
      <4>3. CASE x[1] = d
        <5>1. x[2] \notin {"done", "fail"}
          BY <1>2, <1>4, <1>5, <3>1, <3>5, <4>3
        <5> QED BY <4>1, <5>1 DEF Good
      <4> QED BY <4>2, <4>3
    <3> QED BY <3>2, <3>3, <3>4, <3>5
  <2>2. PendingOK(lists', state', frames')
    <3> SUFFICES ASSUME NEW x \in Settling, state'[x[1]] = "pending", lists'[x].fired PROVE FALSE
      BY DEF PendingOK
    <3>1. x \in ListIds /\ x[1] \in Deferreds
      BY Names DEF Settling
    <3>2. x[1] # d /\ state[x[1]] = "pending" /\ x # id
      BY <1>4, <1>6, <1>13, <3>1
    <3> QED BY <1>4, <1>14, <3>1, <3>2
  <2>3. LoopsOK(lists', frames', threw')
    <3> SUFFICES ASSUME NEW x \in Deferreds, lists'[<<x, "done">>].firing, ~threw
                 PROVE  FireFrame(<<x, "done">>) \in Range(frames)
      BY <1>3 DEF LoopsOK
    <3>1. PICK w : w = <<x, "done">>
      OBVIOUS
    <3>2. w \in ListIds /\ w[2] = "done"
      BY <3>1, Names
    <3>3. lists[w].firing
      BY <1>14, <3>1, <3>2
    <3> QED BY <3>1, <3>3 DEF EffectsInv, ListInv, LoopsOK
  <2> QED BY <2>1, <2>2, <2>3 DEF ListInv
<1>16. UNCHANGED <<made, remaining, threw, data, timers, interval, timeouts, target, stopped,
                   lost, dropped, forgotten>>
  BY <1>3 DEF effectVars
<1>17. StackInv' /\ QueueInv' /\ AnimInv' /\ PromiseInv'
  <2>1. PICK M : M = {}
    OBVIOUS
  <2>2. /\ \A f \in M : FrameOK(f)' /\ Held(f) = {} /\ f.code # "empty"
        /\ Range(frames') \subseteq M \cup Range(frames)
        /\ \A f \in Range(frames) : f.code # "fire" => f \in Range(frames')
        /\ Calm(frames') /\ Apart(frames')
    BY <1>3, <2>1 DEF EffectsInv, StackInv
  <2>3. \A x \in Deferreds :
           /\ Completes(lists'[<<x, "done">>]) => Completes(lists[<<x, "done">>])
           /\ x # d => (Completes(lists[<<x, "done">>]) => Completes(lists'[<<x, "done">>]))
    <3> TAKE x \in Deferreds
    <3>1. PICK w : w = <<x, "done">>
      OBVIOUS
    <3>2. w \in ListIds /\ w[1] = x /\ w[2] = "done" /\ w # <<d, "progress">>
      BY <3>1, Names
    <3>3. CASE w = id
      <4>1. lists'[w] = m /\ lists[w] = l /\ m.fns = l.fns
        BY <1>1, <1>8, <1>9, <3>3
      <4>2. Completes(lists'[w]) <=> Completes(lists[w])
        BY <4>1 DEF Completes
      <4> QED BY <3>1, <4>2
    <3>4. CASE w = <<d, o>>
      BY <1>8, <1>10, <3>1, <3>2, <3>4 DEF Completes
    <3>5. CASE w # id /\ w # <<d, o>>
      BY <1>8, <3>1, <3>2, <3>5
    <3> QED BY <3>3, <3>4, <3>5
  <2>4. \A a \in Anims :
           /\ state'[a] = "pending" /\ Completes(lists[<<a, "done">>]) => Completes(lists'[<<a, "done">>])
           /\ state'[a] = state[a] \/ (state'[a] # "pending" /\ Ends(a))
    <3> TAKE a \in Anims
    <3>1. a \in Deferreds
      BY Names
    <3>2. CASE a # d
      BY <1>13, <2>3, <3>1, <3>2
    <3>3. CASE a = d
      <4>1. lists[<<a, k>>].fired
        BY <1>1, <1>4, <3>3
      <4>2. Ends(a)
        BY <1>5, <4>1 DEF Ends
      <4> QED BY <1>6, <1>13, <3>3, <4>2
    <3> QED BY <3>2, <3>3
  <2>5. \A x \in Deferreds : Completes(lists'[<<x, "done">>]) => Completes(lists[<<x, "done">>])
    BY <2>3
  <2>6. \A x \in ListIds : lists'[x].fired = lists[x].fired
    BY <1>14
  <2> HIDE DEF Completes, Ends
  <2> QED BY <1>3, <1>16, <2>2, <2>4, <2>5, <2>6, LoopSteps
<1>18. ASSUME k = "done", \E i \in DOMAIN l.fns : /\ l.next <= i /\ i <= l.length
                                                  /\ l.fns[i] = Internal("complete")
       PROVE  ToComplete(lists'[id])
  <2>1. PICK i \in DOMAIN l.fns : /\ l.next <= i /\ i <= l.length
                                  /\ l.fns[i] = Internal("complete")
    BY <1>18
  <2>4. i # l.next
    BY <1>4, <1>5, <2>1
  <2>5. l.fns \in Seq(Entry) /\ l.next \in Nat
    BY <1>4, ListFields
  <2>2. i # l.next /\ i \in Nat /\ l.next \in Nat
    BY <2>1, <2>4, <2>5
  <2>3. m.next <= i /\ i <= m.length /\ m.fns[i] = Internal("complete") /\ i \in DOMAIN m.fns /\ m.on
    BY <1>4, <1>9, <2>1, <2>2
  <2> QED BY <1>8, <2>3 DEF ToComplete
<1>19. ASSUME NEW e \in Elems, k = "done", d \in Asked, target[d] = e, ToComplete(lists'[id])
       PROVE  Wakes(e)'
  <2>1. Asked' = Asked /\ target' = target
    BY <1>16 DEF Asked
  <2>2. PICK f : f = Top
    OBVIOUS
  <2>3. f.code = "fire" /\ f.list = id /\ f \in Range(frames')
    <3>1. f = FireFrame(id)
      BY <1>4, <2>2
    <3>2. f \in Range(frames)
      BY <1>4, <2>2, TopFacts DEF EffectsInv
    <3> QED BY <1>3, <3>1, <3>2 DEF FireFrame
  <2>4. LeadsTo(f, e)'
    BY <1>4, <1>19, <2>1, <2>3 DEF LeadsTo
  <2> QED BY <2>3, <2>4 DEF Wakes
<1>20. WakeInv'
  <2>1. ASSUME NEW x \in ListIds, x[2] = "done", x # id, FireFrame(x) \in Range(frames),
               ToComplete(lists[x])
        PROVE  ToComplete(lists'[x])
    <3>1. CASE x # <<d, o>>
      <4>1. x # <<d, "progress">>
        BY <2>1
      <4>2. lists'[x] = lists[x]
        BY <1>8, <2>1, <3>1, <4>1
      <4> QED BY <2>1, <4>2
    <3>2. CASE x = <<d, o>>
      <4>1. lists[x].fired
        <5>1. FrameOK(FireFrame(x))
          BY <2>1 DEF EffectsInv, StackInv
        <5> QED BY <5>1 DEF FrameOK, FireFrame
      <4>2. o = "done" /\ k = "fail" /\ x \in Settling /\ x[1] = d
        BY <1>4, <1>5, <2>1, <3>2, Names
      <4>3. s # "pending"
        BY <1>1, <1>4, <2>1, <4>1, <4>2
      <4>4. s = Outcome("fail")
        BY <1>4, <4>2, <4>3 DEF Good
      <4>5. ~lists[x].on
        <5>1. Good("done", lists[x], s)
          BY <1>1, <2>1, <4>2, ListOf DEF EffectsInv
        <5> QED BY <4>4, <5>1 DEF Good, Outcome
      <4> QED BY <2>1, <4>5 DEF ToComplete
    <3> QED BY <3>1, <3>2
  <2>2. ASSUME NEW a \in Anims, a \in made, state[a] = "pending", state'[a] # "pending"
        PROVE  Wakes(target[a])'
    <3>1. a = d /\ s = "pending" /\ a \in Asked /\ target[a] \in Elems
      BY <1>1, <1>13, <2>2, Names DEF EffectsInv, TypeInv, EffectTypes
    <3>2. AnimOK(a)
      BY DEF EffectsInv, AnimInv
    <3>3. CASE k = "done"
      <4>1. CASE AttachFrame(a) \in Range(frames)
        <5>1. LeadsTo(AttachFrame(a), target[a])'
          BY <1>16 DEF LeadsTo, AttachFrame
        <5> QED BY <1>3, <4>1, <5>1 DEF Wakes
      <4>2. CASE AttachFrame(a) \notin Range(frames)
        <5>1. Completes(l)
          BY <1>1, <1>4, <2>2, <3>1, <3>2, <3>3, <4>2 DEF AnimOK
        <5>2. PICK i \in DOMAIN l.fns : l.fns[i] = Internal("complete")
          BY <5>1 DEF Completes
        <5>3. l.next = 1 /\ l.length = Len(l.fns) /\ l.fns \in Seq(Entry)
          <6>1. l.next = 1 /\ l.fired = l.firing /\ (l.on /\ l.firing => l.length = Len(l.fns))
            BY <1>4, <1>5, <3>1 DEF Good
          <6>2. l.fns \in Seq(Entry) /\ l.fired \in BOOLEAN /\ l.firing \in BOOLEAN
            BY <1>4, ListFields
          <6> QED BY <1>4, <6>1, <6>2
        <5>4. ToComplete(lists'[id])
          BY <1>18, <3>3, <5>2, <5>3
        <5>5. PICK e \in Elems : e = target[a]
          BY <3>1
        <5>6. Wakes(e)'
          BY <1>19, <3>1, <3>3, <5>4, <5>5
        <5>7. target'[a] = e
          BY <1>16, <5>5
        <5> QED BY <5>6, <5>7
      <4> QED BY <4>1, <4>2
    <3>4. CASE k = "fail"
      <4>1. lists[<<a, "fail">>].fired
        BY <1>1, <1>4, <3>1, <3>4
      <4>2. PICK f \in Range(frames) : f.code = "splice" /\ f.elem = target[a] /\ ~f.gotoEnd
        BY <2>2, <3>2, <4>1 DEF AnimOK
      <4>3. LeadsTo(f, target[a])'
        BY <1>16, <4>2 DEF LeadsTo
      <4> QED BY <1>3, <4>2, <4>3 DEF Wakes
    <3> QED BY <1>5, <3>3, <3>4
  <2>3. ASSUME NEW e \in Elems, LeadsTo(Top, e) PROVE Wakes(e)'
    <3>1. Top.code = "fire" /\ Top.list = id
      BY <1>4 DEF FireFrame
    <3>2. k = "done" /\ d \in Asked /\ target[d] = e /\ ToComplete(l)
      BY <1>1, <2>3, <3>1 DEF LeadsTo
    <3>3. ToComplete(lists'[id])
      BY <1>18, <3>2 DEF ToComplete
    <3> QED BY <1>19, <3>2, <3>3
  <2>4. \A f \in Range(frames) : f \in Range(frames')
    BY <1>3
  <2> HIDE DEF ToComplete, LeadsTo, Wakes
  <2> QED BY <1>1, <1>3, <1>16, <2>1, <2>2, <2>3, <2>4, LoopWakes
<1>21. TypeInv'
  <2>1. called' \in [ListIds -> Seq(Fns)] /\ frames' \in Seq(Frames)
    BY <1>3, <1>4 DEF EffectsInv, TypeInv, DeferredTypes
  <2> QED BY <1>3, <1>12, <1>13, <2>1, LoopTypes DEF EffectsInv
<1> QED BY <1>15, <1>17, <1>20, <1>21 DEF EffectsInv

\* A pass ends: the next one that waits begins, or the loop does end.
LEMMA PassEndsKeeps == EffectsInv /\ PassEnds /\ UNCHANGED effectVars => EffectsInv'
<1> SUFFICES ASSUME EffectsInv, PassEnds, UNCHANGED effectVars PROVE EffectsInv'
  OBVIOUS
<1>1. PICK id, l, k, s : id = Firing /\ l = lists[id] /\ k = id[2] /\ s = state[id[1]]
  OBVIOUS
<1>2. /\ On("fire") /\ ~HasNext
      /\ UNCHANGED <<state, remaining, follows, called, threw, made, parts, functions, registered>>
  BY DEF PassEnds, givenVars
<1>3. /\ Top = FireFrame(id) /\ id \in ListIds /\ id = <<id[1], k>> /\ k \in Kinds
      /\ frames # <<>> /\ Top.code = "fire" /\ frames \in Seq(Frames)
      /\ l \in List /\ ListOK(l) /\ Good(k, l, s) /\ l.fired
      /\ k \in {"done", "fail"} => s # "pending"
      /\ \A x \in Settling : x # id /\ state[x[1]] = "pending" => ~lists[x].fired
  BY <1>1, <1>2, FireTop
<1>4. ~(l.on /\ l.next <= l.length)
  BY <1>1, <1>2 DEF HasNext
<1>5. PICK m : m = IF l.on /\ l.open /\ l.queued > 0 THEN [Started(l, 1) EXCEPT !.queued = @ - 1]
                                                     ELSE Over(l)
  OBVIOUS
<1>6. lists' = [lists EXCEPT ![id] = m] /\ (frames' = Below \/ (k \notin {"done", "fail"} /\ frames' = frames))
  <2>1. CASE l.on /\ l.open /\ l.queued > 0
    <3>1. frames' = frames /\ lists' = [lists EXCEPT ![id] = m]
      BY <1>1, <1>5, <2>1 DEF PassEnds
    <3>2. k \notin {"done", "fail"}
      BY <1>3, <2>1 DEF Good
    <3> QED BY <3>1, <3>2
  <2>2. CASE ~(l.on /\ l.open /\ l.queued > 0)
    BY <1>1, <1>5, <2>2 DEF PassEnds, Over
  <2> QED BY <2>1, <2>2
<1>7. /\ m \in List /\ ListOK(m) /\ Good(k, m, s) /\ m.fired = l.fired
      /\ m.fns = l.fns \/ m.fns = <<>>
      /\ k \in {"done", "fail"} => ~m.firing
  <2>1. CASE l.on /\ l.open /\ l.queued > 0
    <3>1. PICK n : n = Started(l, 1)
      OBVIOUS
    <3>2. n \in List /\ ListOK(n) /\ n.fired /\ n.fns = l.fns
      BY <1>3, <2>1, <3>1, StartedFacts
    <3>3. m = [n EXCEPT !.queued = @ - 1] /\ n.queued = l.queued
      BY <1>3, <1>5, <2>1, <3>1 DEF Started, List
    <3>4. n.queued \in Nat /\ n.queued > 0
      BY <1>3, <2>1, <3>3, ListFields
    <3>5. m \in List
      BY <3>2, <3>3, <3>4 DEF List
    <3>6. m.fns = n.fns /\ m.next = n.next /\ m.length = n.length /\ m.on = n.on /\ m.fired = n.fired
      BY <3>2, <3>3 DEF List
    <3>7. ListOK(m)
      BY <3>2, <3>6 DEF ListOK
    <3>8. k \notin {"done", "fail"}
      BY <1>3, <2>1 DEF Good
    <3>9. Good(k, m, s)
      BY <1>3, <3>2, <3>6, <3>8 DEF Good
    <3>10. m.fired = l.fired
      BY <1>3, <3>2, <3>5, <3>6, ListFields
    <3> QED BY <3>2, <3>5, <3>6, <3>7, <3>8, <3>9, <3>10
  <2>2. CASE ~(l.on /\ l.open /\ l.queued > 0)
    <3>1. m = Over(l)
      BY <1>5, <2>2
    <3>2. m \in List /\ ListOK(m) /\ Good(k, m, s)
      BY <1>3, <3>1, EndedFacts
    <3>3. m.fired = l.fired /\ ~m.firing /\ (m.fns = l.fns \/ m.fns = <<>>)
      BY <1>3, <3>1 DEF Over, List
    <3> QED BY <3>2, <3>3
  <2> QED BY <2>1, <2>2
<1>8. lists'[id] = m /\ \A x \in ListIds : x # id => lists'[x] = lists[x]
  BY <1>3, <1>6, ListOf DEF EffectsInv
<1>9. ListsOK(lists')
  <2>1. lists \in [ListIds -> List] /\ \A x \in ListIds : ListOK(lists[x])
    BY DEF EffectsInv, TypeInv, ListsOK
  <2> QED BY <1>6, <1>7, <1>8, <2>1 DEF ListsOK
<1>10. /\ Below \in Seq(Frames) /\ Range(frames) = {Top} \cup Range(Below)
       /\ Calm(Below) /\ Apart(Below)
  BY <1>3, TopFacts DEF EffectsInv
<1>11. /\ frames' \in Seq(Frames) /\ Calm(frames') /\ Apart(frames')
       /\ Range(frames') \subseteq Range(frames)
       /\ \A f \in Range(frames) : f # Top => f \in Range(frames')
  <2>1. CASE frames' = Below
    BY <1>10, <2>1
  <2>2. CASE frames' = frames
    BY <1>3, <2>2 DEF EffectsInv, StackInv
  <2> QED BY <1>6, <2>1, <2>2
<1>12. /\ \A x \in ListIds : lists'[x].fired = lists[x].fired
       /\ \A d \in Deferreds : Completes(lists'[<<d, "done">>]) => Completes(lists[<<d, "done">>])
       /\ \A d \in Deferreds : state[d] = "pending" =>
             (Completes(lists[<<d, "done">>]) => Completes(lists'[<<d, "done">>]))
  <2>1. \A x \in ListIds : lists'[x].fired = lists[x].fired
    BY <1>1, <1>7, <1>8
  <2>2. Completes(m) => Completes(l)
    BY <1>7 DEF Completes
  <2>3. \A x \in ListIds : Completes(lists'[x]) => Completes(lists[x])
    BY <1>1, <1>8, <2>2
  <2>4. ASSUME NEW d \in Deferreds, state[d] = "pending"
        PROVE  Completes(lists[<<d, "done">>]) => Completes(lists'[<<d, "done">>])
    <3>1. <<d, "done">> # id
      <4>1. <<d, "done">> = id => k = "done" /\ s = "pending"
        BY <1>1, <2>4
      <4> QED BY <1>3, <4>1
    <3> QED BY <1>8, <3>1, Names
  <2> QED BY <2>1, <2>3, <2>4, Names
<1>13. ListInv'
  <2>1. \A x \in ListIds : Good(x[2], lists'[x], state'[x[1]])
    BY <1>1, <1>2, <1>7, <1>8 DEF EffectsInv, ListInv
  <2>2. PendingOK(lists', state', frames')
    <3> SUFFICES ASSUME NEW x \in Settling, state[x[1]] = "pending", lists'[x].fired PROVE FALSE
      BY <1>2 DEF PendingOK
    <3>1. x # id
      BY <1>1, <1>3 DEF Settling
    <3> QED BY <1>3, <1>8, <3>1, Names
  <2>3. LoopsOK(lists', frames', threw')
    <3> SUFFICES ASSUME NEW d \in Deferreds, lists'[<<d, "done">>].firing, ~threw
                 PROVE  FireFrame(<<d, "done">>) \in Range(frames')
      BY <1>2 DEF LoopsOK
    <3>1. PICK w : w = <<d, "done">>
      OBVIOUS
    <3>2. w \in ListIds /\ w[2] = "done"
      BY <3>1, Names
    <3>3. w # id
      BY <1>1, <1>7, <1>8, <3>1, <3>2
    <3>4. lists[w].firing
      BY <1>8, <3>1, <3>2, <3>3
    <3>5. FireFrame(w) \in Range(frames)
      BY <3>1, <3>4 DEF EffectsInv, ListInv, LoopsOK
    <3>6. FireFrame(w) # Top
      BY <1>3, <3>3 DEF FireFrame
    <3> QED BY <1>11, <3>1, <3>5, <3>6
  <2> QED BY <2>1, <2>2, <2>3 DEF ListInv
<1>14. UNCHANGED <<made, remaining, threw, data, timers, interval, timeouts, target, stopped,
                   lost, dropped, forgotten>>
  BY <1>2 DEF effectVars
<1>15. StackInv' /\ QueueInv' /\ AnimInv' /\ PromiseInv'
  <2>1. PICK M : M = {}
    OBVIOUS
  <2>2. /\ \A f \in M : FrameOK(f)' /\ Held(f) = {} /\ f.code # "empty"
        /\ Range(frames') \subseteq M \cup Range(frames)
        /\ \A f \in Range(frames) : f.code # "fire" => f \in Range(frames')
    BY <1>3, <1>11, <2>1
  <2>3. \A a \in Anims :
           /\ state'[a] = "pending" /\ Completes(lists[<<a, "done">>]) => Completes(lists'[<<a, "done">>])
           /\ state'[a] = state[a] \/ (state'[a] # "pending" /\ Ends(a))
    BY <1>2, <1>12, Names
  <2> QED BY <1>2, <1>11, <1>12, <1>14, <2>2, <2>3, LoopSteps
<1>16. WakeInv'
  <2>1. \A f \in Range(frames) : f.code # "fire" => f \in Range(frames')
    BY <1>3, <1>11
  <2>2. \A e \in Elems : ~LeadsTo(Top, e)
    <3>1. Top.code = "fire" /\ Top.list = id
      BY <1>3 DEF FireFrame
    <3>2. ~ToComplete(l)
      <4> SUFFICES ASSUME ToComplete(l) PROVE FALSE
        OBVIOUS
      <4>1. PICK i \in DOMAIN l.fns : l.on /\ l.next <= i /\ i <= l.length
        BY DEF ToComplete
      <4>2. l.next \in Nat /\ l.length \in Nat /\ i \in Nat
        BY <1>3, <4>1, ListFields
      <4> QED BY <1>4, <4>1, <4>2
    <3> QED BY <1>1, <3>1, <3>2 DEF LeadsTo
  <2>3. \A x \in ListIds : x[2] = "done" /\ x # id /\ FireFrame(x) \in Range(frames) =>
              (ToComplete(lists[x]) => ToComplete(lists'[x]))
    BY <1>8
  <2>4. \A a \in Anims : a \in made /\ state[a] = "pending" /\ state'[a] # "pending" => Wakes(target[a])'
    BY <1>2
  <2> QED BY <1>1, <1>2, <1>11, <1>14, <2>1, <2>2, <2>3, <2>4, LoopWakes
<1>17. TypeInv'
  <2>1. called' \in [ListIds -> Seq(Fns)]
        /\ state' \in [Deferreds -> {"pending", "resolved", "rejected"}]
    BY <1>2 DEF EffectsInv, TypeInv, DeferredTypes
  <2> QED BY <1>2, <1>9, <1>11, <2>1, LoopTypes DEF EffectsInv
<1> QED BY <1>13, <1>15, <1>16, <1>17 DEF EffectsInv

\* The function of an animation of the page that ends in dequeue.
LEMMA CompleteKeeps == EffectsInv /\ Complete => EffectsInv'
<1> SUFFICES ASSUME EffectsInv, Complete PROVE EffectsInv'
  OBVIOUS
<1>1. PICK id, l, d, s : id = Firing /\ l = lists[id] /\ d = id[1] /\ s = state[d]
  OBVIOUS
<1>2. /\ On("fire") /\ HasNext /\ NextEntry = Internal("complete")
      /\ lists' = [lists EXCEPT ![id] = Further(l)]
      /\ frames' = <<CallFrame(id, NoDeferred), DequeueFrame(target[d])>> \o frames
      /\ UNCHANGED <<parts, functions, registered, state, follows, called, made, remaining, threw>>
      /\ UNCHANGED effectVars
  BY <1>1 DEF Complete, Stepped, stillVars, Further
<1>3. /\ Top = FireFrame(id) /\ id \in ListIds /\ d \in Deferreds /\ id[2] \in Kinds
      /\ frames # <<>> /\ Top.code = "fire" /\ frames \in Seq(Frames)
      /\ l \in List /\ ListOK(l) /\ Good(id[2], l, s) /\ l.fired
      /\ l.on /\ l.next \in DOMAIN l.fns /\ l.next <= l.length
      /\ NextEntry = l.fns[l.next] /\ Allowed(NextEntry, id[2])
      /\ \A x \in Settling : x # id /\ state[x[1]] = "pending" => ~lists[x].fired
      /\ id = <<d, id[2]>>
  BY <1>1, <1>2, FireTop
<1>4. id = <<d, "done">> /\ l.fns[l.next] = Internal("complete") /\ SettleEntry # Internal("complete")
  <2>1. SettleEntry.kind = "settle" /\ Internal("complete").kind = "internal"
    BY DEF SettleEntry, Internal
  <2>2. PICK n, k : n = NextEntry /\ k = id[2]
    OBVIOUS
  <2>3. Allowed(n, k) /\ k \in Kinds /\ n = Internal("complete")
    BY <1>2, <1>3, <2>2
  <2>4. CASE k = "done"
    BY <1>2, <1>3, <2>1, <2>2, <2>4
  <2>5. CASE k = "fail"
    BY <2>1, <2>3, <2>5 DEF Allowed
  <2>6. CASE k = "progress"
    BY <2>1, <2>3, <2>6 DEF Allowed
  <2>7. CASE k = "complete"
    BY <2>3, <2>7 DEF Allowed
  <2> QED BY <2>3, <2>4, <2>5, <2>6, <2>7 DEF Kinds
<1>5. Good("done", l, s) /\ s = Outcome("done")
  <2>1. Good("done", l, s)
    BY <1>3, <1>4
  <2>2. s # "pending"
    BY <1>4, <2>1 DEF Good
  <2> QED BY <1>3, <2>1, <2>2 DEF Good
<1>6. Completes(l) /\ d \in made \cap Anims /\ d \in Asked /\ target[d] \in Elems
  <2>1. Completes(l)
    BY <1>3, <1>4 DEF Completes
  <2>2. d \in made \cap Anims
    BY <1>1, <1>3, <1>4, <2>1 DEF EffectsInv, AnimInv
  <2> QED BY <2>1, <2>2 DEF EffectsInv, TypeInv, EffectTypes
<1>7. PICK m, e : m = Further(l) /\ e = target[d]
  OBVIOUS
<1>8. /\ m \in List /\ ListOK(m) /\ Good("done", m, s)
      /\ m.fired = l.fired /\ m.firing = l.firing /\ m.fns = l.fns
  <2>1. PICK k : k = "done"
    OBVIOUS
  <2>2. Settled(k, l, s) /\ Good(k, l, s)
    BY <1>3, <1>5, <2>1 DEF Settled
  <2>3. m \in List /\ ListOK(m) /\ Good(k, m, s)
    BY <1>3, <1>7, <2>2, SteppedFacts
  <2>4. m.fired = l.fired /\ m.firing = l.firing /\ m.fns = l.fns
    BY <1>3, <1>7 DEF Further, List
  <2> QED BY <2>1, <2>3, <2>4
<1>9. lists'[id] = m /\ \A x \in ListIds : x # id => lists'[x] = lists[x]
  BY <1>2, <1>3, <1>7, ListOf DEF EffectsInv
<1>10. ListsOK(lists')
  <2>1. lists \in [ListIds -> List] /\ \A x \in ListIds : ListOK(lists[x])
    BY DEF EffectsInv, TypeInv, ListsOK
  <2> QED BY <1>2, <1>7, <1>8, <1>9, <2>1 DEF ListsOK
<1>11. PICK c, q : c = CallFrame(id, NoDeferred) /\ q = DequeueFrame(e)
  OBVIOUS
<1>12. /\ c \in Frames /\ q \in Frames /\ c.code = "callback" /\ q.code = "dequeue" /\ q.elem = e
       /\ Held(c) = {} /\ Held(q) = {} /\ ~Delicate(c) /\ ~Delicate(q)
       /\ FrameOK(c)' /\ FrameOK(q)' /\ frames' = <<c>> \o (<<q>> \o frames)
  <2>1. c \in Frames /\ q \in Frames
    BY <1>3, <1>6, <1>7, <1>11, FrameTypes
  <2>2. c.code = "callback" /\ q.code = "dequeue" /\ q.elem = e
    BY <1>11 DEF CallFrame, DequeueFrame
  <2>3. Held(c) = {} /\ Held(q) = {} /\ ~Delicate(c) /\ ~Delicate(q)
    BY <2>1, <2>2, HeldFacts DEF Delicate
  <2>4. FrameOK(c)' /\ FrameOK(q)'
    BY <2>2 DEF FrameOK
  <2>5. frames' = <<c>> \o (<<q>> \o frames)
    BY <1>2, <1>3, <1>7, <1>11, <2>1
  <2> QED BY <2>1, <2>2, <2>3, <2>4, <2>5
<1>13. PICK mid : mid = <<q>> \o frames
  OBVIOUS
<1>14. /\ mid \in Seq(Frames) /\ frames' \in Seq(Frames)
       /\ Range(mid) = {q} \cup Range(frames) /\ Range(frames') = {c, q} \cup Range(frames)
  <2>1. mid \in Seq(Frames) /\ Range(mid) = {q} \cup Range(frames)
    BY <1>3, <1>12, <1>13, PushFacts
  <2>2. frames' = <<c>> \o mid
    BY <1>12, <1>13
  <2>3. frames' \in Seq(Frames) /\ Range(frames') = {c} \cup Range(mid)
    BY <1>12, <2>1, <2>2, PushFacts
  <2> QED BY <2>1, <2>3
<1>15. Still(frames)
  <2>0. Range(frames) = {Top} \cup Range(Below) /\ \A f \in Range(Below) : FrameOK(f)
    BY <1>3, TopFacts DEF EffectsInv
  <2>1. \A f \in Range(Below) : ~Delicate(f)
    <3> SUFFICES ASSUME NEW f \in Range(Below), Delicate(f) PROVE FALSE
      OBVIOUS
    <3>1. Settler(Top, f)
      BY <1>3, CalmFacts DEF EffectsInv, StackInv, Top, Below
    <3>2. Top.list = id /\ id[1] = d
      BY <1>1, <1>3 DEF FireFrame
    <3>3. f.code # "empty"
      BY <1>6, <3>1, <3>2, Names DEF Settler
    <3>4. f.code # "attach"
      <4> SUFFICES ASSUME f.code = "attach" PROVE FALSE
        OBVIOUS
      <4>1. f.anim = d
        BY <3>1, <3>2 DEF Settler
      <4>2. ~Completes(lists[<<d, "done">>])
        BY <2>0, <4>1 DEF FrameOK
      <4> QED BY <1>1, <1>4, <1>6, <4>2
    <3> QED BY <3>1, <3>3, <3>4 DEF Settler, Delicate
  <2>2. ~Delicate(Top)
    BY <1>3 DEF Delicate
  <2> QED BY <2>0, <2>1, <2>2 DEF Still, Range
<1>16. Calm(frames') /\ Apart(frames')
  <2>1. Still(mid)
    BY <1>3, <1>12, <1>13, <1>15, StillPush
  <2>2. Apart(mid)
    BY <1>3, <1>12, <1>13, ApartPush DEF EffectsInv, StackInv
  <2>3. frames' = <<c>> \o mid
    BY <1>12, <1>13
  <2>4. Calm(<<c>> \o mid)
    BY <1>12, <1>14, <2>1, StillPush
  <2>5. Apart(<<c>> \o mid)
    BY <1>12, <1>14, <2>2, ApartPush
  <2> QED BY <2>3, <2>4, <2>5
<1>17. ListInv'
  <2>1. \A x \in ListIds : Good(x[2], lists'[x], state'[x[1]])
    <3> TAKE x \in ListIds
    <3>1. CASE x = id
      <4>1. x[1] = d /\ x[2] = "done"
        BY <1>4, <3>1
      <4> QED BY <1>1, <1>2, <1>8, <1>9, <3>1, <4>1
    <3>2. CASE x # id
      BY <1>2, <1>9, <3>2 DEF EffectsInv, ListInv
    <3> QED BY <3>1, <3>2
  <2>2. PendingOK(lists', state', frames')
    <3> SUFFICES ASSUME NEW x \in Settling, state[x[1]] = "pending", lists'[x].fired PROVE FALSE
      BY <1>2 DEF PendingOK
    <3>1. x # id
      BY <1>1, <1>5 DEF Outcome
    <3> QED BY <1>3, <1>9, <3>1, Names
  <2>3. LoopsOK(lists', frames', threw')
    <3> SUFFICES ASSUME NEW x \in Deferreds, lists'[<<x, "done">>].firing, ~threw
                 PROVE  FireFrame(<<x, "done">>) \in Range(frames')
      BY <1>2 DEF LoopsOK
    <3>1. lists[<<x, "done">>].firing
      <4>1. PICK w : w = <<x, "done">>
        OBVIOUS
      <4>2. w \in ListIds
        BY <4>1, Names
      <4>3. lists[w].firing
        BY <1>1, <1>8, <1>9, <4>1, <4>2
      <4> QED BY <4>1, <4>3
    <3> QED BY <1>14, <3>1 DEF EffectsInv, ListInv, LoopsOK
  <2> QED BY <2>1, <2>2, <2>3 DEF ListInv
<1>18. UNCHANGED <<made, remaining, threw, data, timers, interval, timeouts, target, stopped,
                   lost, dropped, forgotten>>
  BY <1>2 DEF effectVars
<1>19. \A x \in ListIds : lists'[x].fired = lists[x].fired /\ lists'[x].fns = lists[x].fns
  BY <1>1, <1>8, <1>9
<1>20. StackInv' /\ QueueInv' /\ AnimInv' /\ PromiseInv'
  <2>1. PICK M : M = {c, q}
    OBVIOUS
  <2>2. /\ \A f \in M : FrameOK(f)' /\ Held(f) = {} /\ f.code # "empty"
        /\ Range(frames') \subseteq M \cup Range(frames)
        /\ \A f \in Range(frames) : f.code # "fire" => f \in Range(frames')
    BY <1>12, <1>14, <2>1
  <2>3. \A x \in Deferreds : Completes(lists'[<<x, "done">>]) <=> Completes(lists[<<x, "done">>])
    BY <1>19, Names DEF Completes
  <2>4. \A a \in Anims :
           /\ state'[a] = "pending" /\ Completes(lists[<<a, "done">>]) => Completes(lists'[<<a, "done">>])
           /\ state'[a] = state[a] \/ (state'[a] # "pending" /\ Ends(a))
    BY <1>2, <2>3, Names
  <2> QED BY <1>2, <1>16, <1>18, <1>19, <2>2, <2>3, <2>4, LoopSteps
<1>21. WakeInv'
  <2>1. \A f \in Range(frames) : f \in Range(frames')
    BY <1>14
  <2>2. \A x \in ListIds : x[2] = "done" /\ x # id /\ FireFrame(x) \in Range(frames) =>
              (ToComplete(lists[x]) => ToComplete(lists'[x]))
    BY <1>9
  <2>3. \A a \in Anims : a \in made /\ state[a] = "pending" /\ state'[a] # "pending" => Wakes(target[a])'
    BY <1>2
  <2>4. ASSUME NEW x \in Elems, LeadsTo(Top, x) PROVE Wakes(x)'
    <3>1. Top.code = "fire" /\ Top.list = id
      BY <1>3 DEF FireFrame
    <3>2. x = e
      BY <1>1, <1>7, <2>4, <3>1 DEF LeadsTo
    <3>3. LeadsTo(q, x)'
      BY <1>12, <3>2 DEF LeadsTo
    <3> QED BY <1>14, <3>3 DEF Wakes
  <2> QED BY <1>1, <1>2, <1>18, <2>1, <2>2, <2>3, <2>4, LoopWakes
<1>22. TypeInv'
  <2>1. called' \in [ListIds -> Seq(Fns)]
        /\ state' \in [Deferreds -> {"pending", "resolved", "rejected"}]
    BY <1>2 DEF EffectsInv, TypeInv, DeferredTypes
  <2> QED BY <1>2, <1>10, <1>14, <2>1, LoopTypes DEF EffectsInv
<1> QED BY <1>17, <1>20, <1>21, <1>22 DEF EffectsInv

-----------------------------------------------------------------------------
(* Steps on the queues.                                                    *)

\* The types, after a step that asks for something, queues or makes it.
LEMMA TypesKept ==
    ASSUME TypeInv, frames' \in Seq(Frames), ListsOK(lists'),
           UNCHANGED <<state, parts, follows, called, threw, stopped, lost>>,
           functions' \in 0 .. MaxObjects, registered' \in [ListIds -> Seq(Fns)],
           remaining' \in [Deferreds -> Int], made' \in SUBSET Deferreds, IsFiniteSet(made'),
           data' \in [Elems -> Datum], timeouts' \in [Elems -> Nat], calls' \in 0 .. MaxCalls,
           Asked \subseteq Asked', Asked' \subseteq Anims, target' \in [Asked' -> Elems],
           made' \cap Anims \subseteq Asked', timers' \in Seq(made' \cap Asked'),
           interval' \in BOOLEAN, instant' \in SUBSET Asked', dropped' \in SUBSET Counted,
           forgotten' \in SUBSET Elems
    PROVE  TypeInv'
<1>1. DeferredTypes'
  BY DEF TypeInv, DeferredTypes
<1>2. EffectTypes'
  BY DEF TypeInv, EffectTypes
<1> QED BY <1>1, <1>2 DEF TypeInv

\* The lists, the stack and the animations, when the frames N are new on the stack.
LEMMA QueueMoves ==
    ASSUME EffectsInv, ~On("fire"), frames' \in Seq(Frames), Calm(frames'), Apart(frames'),
           NEW N, \A f \in N : FrameOK(f)', Range(frames') \subseteq N \cup Range(frames),
           \A f \in Range(frames) : f.code \in {"fire", "attach", "splice"} => f \in Range(frames'),
           UNCHANGED <<lists, state, made, threw, timers, interval, stopped, lost>>,
           Asked \subseteq Asked', \A a \in Asked : target'[a] = target[a]
    PROVE  ListsOK(lists') /\ ListInv' /\ StackInv' /\ AnimInv'
<1>1. TypeInv /\ ListInv /\ StackInv /\ AnimInv
  BY DEF EffectsInv
<1>2. ListsOK(lists') /\ ListInv'
  <2>1. threw' \/ (~threw /\ \A f \in Range(frames) : f.code = "fire" => f \in Range(frames'))
    BY <1>1 DEF TypeInv, DeferredTypes
  <2> QED BY <1>1, <2>1, StayMoves
<1>3. StackInv'
  <2>1. PICK O : O = Range(frames)
    OBVIOUS
  <2>2. /\ \A f \in O : f.code = "attach" =>
              ~lists'[<<f.anim, "fail">>].fired /\ ~Completes(lists'[<<f.anim, "done">>])
        /\ O \in SUBSET Range(frames) /\ Range(frames') \subseteq N \cup O
        /\ made \subseteq made' /\ \A f \in O : made' \cap Held(f) \subseteq made
        /\ \A id \in ListIds : lists[id].fired => lists'[id].fired
        /\ \A a \in Anims : state[a] # "pending" => state'[a] # "pending"
    BY <1>1, <2>1 DEF StackInv, FrameOK
  <2> QED BY <1>1, <2>2, StackKept
<1>4. AnimInv'
  <2>1. timers' # <<>> => interval'
    BY <1>1 DEF AnimInv
  <2>2. \A d \in Deferreds : Completes(lists'[<<d, "done">>]) => d \in made' \cap Anims
    BY <1>1 DEF AnimInv
  <2>3. ASSUME NEW a \in Anims PROVE AnimOK(a)'
    <3>1. AnimOK(a) /\ made \cap Anims \subseteq Asked
      BY <1>1 DEF AnimInv, TypeInv, EffectTypes
    <3>2. CASE a \in made
      <4>1. target'[a] = target[a]
        BY <3>1, <3>2
      <4>2. AttachFrame(a) \in Range(frames) => AttachFrame(a) \in Range(frames')
        BY DEF AttachFrame
      <4>3. \A f \in Range(frames) : f.code = "splice" => f \in Range(frames')
        OBVIOUS
      <4>4. /\ (a \in made' <=> a \in made) /\ state'[a] = state[a]
            /\ (Completes(lists[<<a, "done">>]) => Completes(lists'[<<a, "done">>]))
            /\ lists'[<<a, "done">>].fired = lists[<<a, "done">>].fired
            /\ lists'[<<a, "fail">>].fired = lists[<<a, "fail">>].fired
            /\ (a \in stopped' => a \in stopped) /\ (a \in lost => a \in lost')
            /\ (a \in Range(timers) => a \in Range(timers'))
        OBVIOUS
      <4> QED BY <3>1, <4>1, <4>2, <4>3, <4>4, AnimKept
    <3>3. CASE a \notin made
      <4>1. ~Ends(a) /\ ~Ends(a)'
        BY <3>1, <3>3 DEF AnimOK, Ends
      <4> QED BY <3>1, <3>3, <4>1 DEF AnimOK, Ends
    <3> QED BY <3>2, <3>3
  <2> QED BY <2>1, <2>2, <2>3 DEF AnimInv
<1> QED BY <1>2, <1>3, <1>4

\* The queue of an element that is left alone.
LEMMA OthersKept ==
    ASSUME EffectsInv, UNCHANGED <<made, threw>>,
           Asked \subseteq Asked', \A a \in Asked : target'[a] = target[a], NEW x \in Elems,
           data'[x] = data[x], timeouts'[x] = timeouts[x], ~(On("dequeue") /\ Top.elem = x),
           \A f \in Range(frames') : Held(f) \cap Range(data[x].queue) = {},
           DequeueFrame(x) \in Range(frames) => DequeueFrame(x) \in Range(frames'),
           \A f \in Range(frames) : f.code = "finish" /\ f.elem = x =>
              \E g \in Range(frames') : g.code = "finish" /\ g.elem = x
    PROVE  QueueOK(x, data[x].queue)' /\ DatumOK(x, data[x])'
<1>1. PICK d, q : d = data[x] /\ q = d.queue
  OBVIOUS
<1>2. QueueOK(x, q) /\ DatumOK(x, d) /\ data'[x] = d
  BY <1>1 DEF EffectsInv, QueueInv
<1>3. QueueOK(x, q)'
  <2>1. made' \cap Range(q) \subseteq made /\ \A f \in Range(frames') : Held(f) \cap Range(q) = {}
    BY <1>1
  <2> QED BY <1>2, <2>1, QueueStays
<1>4. QueueOK(x, data[x].queue)'
  BY <1>1, <1>3 DEF QueueOK
<1>5. /\ d.stop = "runs" => timeouts'[x] > 0
      /\ ~threw' /\ d.queue # <<>> /\ ~Sentinel(d.queue) => DequeueFrame(x) \in Range(frames')
      /\ ~threw' /\ d.finish => \E f \in Range(frames') : f.code = "finish" /\ f.elem = x
      /\ ~d.hooks => d.queue = <<>> /\ d.stop = "none" /\ d.waiters = <<>>
      /\ Range(d.waiters) \subseteq made' /\ Distinct(d.waiters)
  BY <1>2 DEF DatumOK
<1> QED BY <1>2, <1>4, <1>5 DEF DatumOK

\* What waits for dequeue, when only the queue of e or what it waits for changes.
LEMMA QueueWakes ==
    ASSUME EffectsInv, UNCHANGED <<lists, state, made, threw>>,
           Asked \subseteq Asked', \A a \in Asked : target'[a] = target[a], NEW e,
           \A x \in Elems : x # e => timeouts'[x] = timeouts[x] /\ (Due(x)' => Due(x)),
           \A x \in Elems : \A f \in Range(frames) : x # e /\ LeadsTo(f, x) =>
               f \in Range(frames') \/ (f.code = "finish" /\ Wakes(x)'),
           ~threw /\ Due(e)' => Wakes(e)'
    PROVE  WakeInv'
<1> SUFFICES ASSUME ~threw, NEW x \in Elems, Due(x)', x # e PROVE Wakes(x)'
  BY DEF WakeInv
<1>1. WakeInv /\ TypeInv /\ StackInv
  BY DEF EffectsInv
<1>2. Wakes(x)
  BY <1>1 DEF WakeInv
<1>3. CASE timeouts[x] > 0
  BY <1>3 DEF Wakes
<1>4. CASE \E a \in made \cap Anims : target[a] = x /\ state[a] = "pending"
  <2>1. PICK a \in made \cap Anims : target[a] = x /\ state[a] = "pending"
    BY <1>4
  <2>2. a \in Asked /\ target'[a] = x /\ a \in made' \cap Anims /\ state'[a] = "pending"
    BY <1>1, <2>1 DEF TypeInv, EffectTypes
  <2> QED BY <2>2 DEF Wakes
<1>5. CASE \E f \in Range(frames) : LeadsTo(f, x)
  <2>1. PICK f \in Range(frames) : LeadsTo(f, x)
    BY <1>5
  <2> SUFFICES ASSUME f \in Range(frames') PROVE Wakes(x)'
    BY <2>1
  <2>2. f \in Frames /\ FrameOK(f) /\ f \in Range(frames')
    BY <1>1, <2>1, RangeType DEF TypeInv, StackInv
  <2>3. LeadsTo(f, x)'
    BY <2>1, <2>2, LeadsKept
  <2> QED BY <2>2, <2>3 DEF Wakes
<1> QED BY <1>2, <1>3, <1>4, <1>5 DEF Wakes

\* Where the top is neither a loop nor about promises, nobody is being told.
LEMMA NobodyTold ==
    ASSUME Still(frames)
    PROVE  \A p : ~Told(p)
BY DEF Told, Still, Delicate, Range

\* The bound on the calls of the page.
LEMMA CallsBound == EffectsInv /\ PageCalls => calls' \in 0 .. MaxCalls
<1> SUFFICES ASSUME EffectsInv, PageCalls PROVE calls' \in 0 .. MaxCalls
  OBVIOUS
<1>1. calls \in 0 .. MaxCalls /\ MaxCalls \in Nat
  BY EffectsAssumption DEF EffectsInv, TypeInv, EffectTypes
<1> QED BY <1>1 DEF PageCalls

\* The facts of an element.
LEMMA DatumOf ==
    ASSUME EffectsInv, NEW e \in Elems
    PROVE  /\ data \in [Elems -> Datum] /\ data[e] \in Datum /\ data[e].queue \in Seq(Items)
           /\ data[e].hooks \in BOOLEAN /\ data[e].stop \in {"none", "runs", "cleared"}
           /\ data[e].waiters \in Seq(Counted) /\ data[e].finish \in BOOLEAN
           /\ timeouts \in [Elems -> Nat] /\ timeouts[e] \in Nat
           /\ QueueOK(e, data[e].queue) /\ DatumOK(e, data[e])
<1>1. data \in [Elems -> Datum] /\ data[e] \in Datum /\ timeouts \in [Elems -> Nat]
  BY DEF EffectsInv, TypeInv, EffectTypes
<1>2. QueueOK(e, data[e].queue) /\ DatumOK(e, data[e])
  BY DEF EffectsInv, QueueInv
<1> QED BY <1>1, <1>2 DEF Datum

\* queue() with an item.
LEMMA QueuesMoves ==
    ASSUME EffectsInv, PageCalls, NEW e \in Elems, NEW item, Queues(e, item),
           Asked \subseteq Asked', \A a \in Asked : target'[a] = target[a],
           item = "delay" \/ (item \in Anims \cap Asked' /\ item \notin Asked /\ target'[item] = e),
           UNCHANGED <<lists, state, made, threw, timers, interval, timeouts, stopped, lost>>,
           UNCHANGED <<remaining, dropped, forgotten>>
    PROVE  /\ frames' \in Seq(Frames) /\ data' \in [Elems -> Datum] /\ ListsOK(lists')
           /\ ListInv' /\ StackInv' /\ QueueInv' /\ AnimInv' /\ WakeInv' /\ PromiseInv'
<1>1. PICK q, p, r : q = data[e].queue /\ p = DequeueFrame(e) /\ r = Append(q, item)
  OBVIOUS
<1>2. /\ Still(frames) /\ ~On("fire") /\ ~On("dequeue")
      /\ frames \in Seq(Frames) /\ Range(frames) \subseteq Frames
  BY PageTop DEF EffectsInv, PageCalls
<1>3. p \in Frames /\ p.code = "dequeue" /\ p.elem = e /\ Held(p) = {} /\ ~Delicate(p) /\ FrameOK(p)'
  <2>1. p \in Frames
    BY <1>1, FrameTypes
  <2>2. p.code = "dequeue" /\ p.elem = e
    BY <1>1 DEF DequeueFrame
  <2> QED BY <2>1, <2>2, HeldFacts DEF Delicate, FrameOK
<1>4. \/ Sentinel(q) /\ frames' = frames
      \/ ~Sentinel(q) /\ frames' = <<p>> \o frames
  BY <1>1, <1>2 DEF Queues
<1>5. /\ frames' \in Seq(Frames) /\ Calm(frames') /\ Apart(frames')
      /\ Range(frames') \subseteq {p} \cup Range(frames)
      /\ Range(frames) \subseteq Range(frames')
      /\ ~Sentinel(q) => p \in Range(frames')
  <2>1. CASE frames' = frames
    BY <1>2, <1>4, <2>1 DEF EffectsInv, StackInv
  <2>2. CASE frames' = <<p>> \o frames
    BY <1>2, <1>3, <2>2, PushFacts, StillPush, ApartPush DEF EffectsInv, StackInv
  <2> QED BY <1>4, <2>1, <2>2
<1>6. /\ data \in [Elems -> Datum] /\ q \in Seq(Items) /\ QueueOK(e, q) /\ DatumOK(e, data[e])
      /\ data[e] \in Datum
  BY <1>1, DatumOf
<1>7. item \in Items /\ item # "inprogress" /\ made \cap Anims \subseteq Asked
  BY Names DEF Items, EffectsInv, TypeInv, EffectTypes
<1>8. /\ data'[e] = [data[e] EXCEPT !.queue = r, !.hooks = TRUE]
      /\ \A x \in Elems : x # e => data'[x] = data[x]
      /\ data' = [data EXCEPT ![e] = [data[e] EXCEPT !.queue = r, !.hooks = TRUE]]
  BY <1>1, <1>6 DEF Queues
<1>9. PICK d : d = data'[e]
  OBVIOUS
<1>10. /\ d.queue = r /\ d.hooks = TRUE /\ d.stop = data[e].stop /\ d.waiters = data[e].waiters
       /\ d.finish = data[e].finish
  BY <1>6, <1>8, <1>9 DEF Datum
<1>11. /\ r \in Seq(Items) /\ Len(r) = Len(q) + 1 /\ r[Len(q) + 1] = item
       /\ \A i \in DOMAIN q : r[i] = q[i]
       /\ \A i \in DOMAIN r : i \in DOMAIN q \/ (i = Len(q) + 1 /\ r[i] = item)
       /\ DOMAIN q = 1 .. Len(q) /\ Len(q) \in Nat
  BY <1>1, <1>6, <1>7
<1>12. data' \in [Elems -> Datum]
  <2>1. [data[e] EXCEPT !.queue = r, !.hooks = TRUE] \in Datum
    BY <1>6, <1>11 DEF Datum
  <2> QED BY <1>6, <1>8, <2>1
<1>13. Sentinel(r) <=> Sentinel(q)
  <2>1. CASE q = <<>>
    <3>1. r = <<item>>
      BY <1>1, <1>7, <2>1
    <3>2. r # <<>> /\ Head(r) = item
      BY <1>7, <3>1
    <3> QED BY <1>7, <2>1, <3>2 DEF Sentinel
  <2>2. CASE q # <<>>
    <3>1. r # <<>> /\ Head(r) = Head(q)
      BY <1>6, <1>11, <2>2
    <3> QED BY <2>2, <3>1 DEF Sentinel
  <2> QED BY <2>1, <2>2
<1>14. \A f \in Range(frames) : item \notin Held(f)
  <2> SUFFICES ASSUME NEW f \in Range(frames), item \in Held(f) PROVE FALSE
    OBVIOUS
  <2>1. f \in Frames /\ FrameOK(f)
    BY <1>2 DEF EffectsInv, StackInv
  <2>2. Held(f) \subseteq Anims
    <3>1. CASE f.code = "begin"
      BY <2>1, <3>1, FrameParts, HeldFacts
    <3>2. CASE f.code = "finish"
      BY <2>1, <3>2, HeldFacts
    <3>3. CASE f.code \notin {"begin", "finish"}
      BY <2>1, <3>3, HeldFacts
    <3> QED BY <3>1, <3>2, <3>3
  <2>3. Held(f) \subseteq Asked
    <3>1. CASE f.code = "begin"
      BY <2>1, <3>1, HeldFacts DEF FrameOK
    <3>2. CASE f.code = "finish"
      BY <2>1, <3>2 DEF FrameOK
    <3>3. CASE f.code \notin {"begin", "finish"}
      BY <2>1, <3>3, HeldFacts
    <3> QED BY <3>1, <3>2, <3>3
  <2> QED BY <2>2, <2>3, Names
<1>15. QueueOK(e, r)'
  <2>1. \A i \in DOMAIN r : i # 1 => r[i] # "inprogress"
    BY <1>6, <1>7, <1>11 DEF QueueOK
  <2>2. \A i \in DOMAIN r : r[i] \in Anims => r[i] \in Asked' \ made' /\ target'[r[i]] = e
    <3> SUFFICES ASSUME NEW i \in DOMAIN r, r[i] \in Anims
                 PROVE  r[i] \in Asked' \ made' /\ target'[r[i]] = e
      OBVIOUS
    <3>1. CASE i \in DOMAIN q
      BY <1>6, <1>11, <3>1 DEF QueueOK
    <3>2. CASE r[i] = item
      <4>1. item \in Anims /\ item # "delay"
        BY <3>2, Names
      <4>2. item \in Asked' /\ item \notin Asked /\ target'[item] = e
        BY <4>1
      <4>3. item \notin made'
        BY <1>7, <4>1, <4>2
      <4> QED BY <3>2, <4>2, <4>3
    <3> QED BY <1>11, <3>1, <3>2
  <2>3. Once(r)
    <3> SUFFICES ASSUME NEW i \in DOMAIN r, NEW j \in DOMAIN r, r[i] = r[j], r[i] \in Anims
                 PROVE  i = j
      BY DEF Once
    <3>1. \A k \in DOMAIN q : q[k] \in Anims => q[k] # item
      BY <1>6, Names DEF QueueOK
    <3>2. CASE i \in DOMAIN q /\ j \in DOMAIN q
      BY <1>6, <1>11, <3>2 DEF QueueOK, Once
    <3> QED BY <1>11, <3>1, <3>2
  <2>4. \A f \in Range(frames') : Held(f) \cap Range(r) = {}
    <3> SUFFICES ASSUME NEW f \in Range(frames) PROVE Held(f) \cap Range(r) = {}
      BY <1>3, <1>5
    <3>1. Held(f) \cap Range(q) = {}
      BY <1>6 DEF QueueOK
    <3>2. Range(r) \subseteq Range(q) \cup {item}
      BY <1>11 DEF Range
    <3> QED BY <1>14, <3>1, <3>2
  <2> QED BY <2>1, <2>2, <2>3, <2>4 DEF QueueOK
<1>16. DatumOK(e, d)'
  <2>1. d.stop = "runs" => timeouts'[e] > 0
    BY <1>2, <1>6, <1>10 DEF DatumOK
  <2>2. ~Sentinel(d.queue) => DequeueFrame(e) \in Range(frames')
    BY <1>1, <1>5, <1>10, <1>13
  <2>3. ~threw' /\ d.finish => \E f \in Range(frames') : f.code = "finish" /\ f.elem = e
    BY <1>5, <1>6, <1>10 DEF DatumOK
  <2>4. Range(d.waiters) \subseteq made' /\ Distinct(d.waiters)
    BY <1>6, <1>10 DEF DatumOK
  <2> QED BY <1>10, <2>1, <2>2, <2>3, <2>4 DEF DatumOK
<1>17. QueueInv'
  <2> SUFFICES ASSUME NEW x \in Elems PROVE QueueOK(x, data[x].queue)' /\ DatumOK(x, data[x])'
    BY DEF QueueInv
  <2>1. CASE x = e
    BY <1>9, <1>10, <1>15, <1>16, <2>1 DEF QueueOK, DatumOK
  <2>2. CASE x # e
    <3>1. \A f \in Range(frames') : Held(f) \cap Range(data[x].queue) = {}
      <4>1. QueueOK(x, data[x].queue)
        BY DatumOf
      <4> QED BY <1>3, <1>5, <4>1 DEF QueueOK
    <3>2. /\ data'[x] = data[x] /\ timeouts'[x] = timeouts[x] /\ ~(On("dequeue") /\ Top.elem = x)
          /\ DequeueFrame(x) \in Range(frames) => DequeueFrame(x) \in Range(frames')
          /\ \A f \in Range(frames) : f.code = "finish" /\ f.elem = x =>
                \E g \in Range(frames') : g.code = "finish" /\ g.elem = x
      BY <1>2, <1>5, <1>8, <2>2
    <3> QED BY <3>1, <3>2, OthersKept
  <2> QED BY <2>1, <2>2
<1>18. ListsOK(lists') /\ ListInv' /\ StackInv' /\ AnimInv'
  <2>1. PICK N : N = {p}
    OBVIOUS
  <2>2. \A f \in N : FrameOK(f)'
    BY <1>3, <2>1
  <2>3. /\ Range(frames') \subseteq N \cup Range(frames)
        /\ \A f \in Range(frames) : f.code \in {"fire", "attach", "splice"} => f \in Range(frames')
    BY <1>5, <2>1
  <2> QED BY <1>2, <1>5, <2>2, <2>3, QueueMoves
<1>19. WakeInv'
  <2>1. \A x \in Elems : Due(x)' => Due(x) \/ Wakes(x)'
    <3> SUFFICES ASSUME NEW x \in Elems, Due(x)', ~Due(x) PROVE Wakes(x)'
      OBVIOUS
    <3>1. x = e /\ ~Sentinel(q)
      BY <1>1, <1>8, <1>9, <1>10, <1>13 DEF Due
    <3>2. p \in Range(frames') /\ LeadsTo(p, e)'
      BY <1>3, <1>5, <3>1 DEF LeadsTo
    <3> QED BY <3>1, <3>2 DEF Wakes
  <2>2. \A x \in Elems : \A f \in Range(frames) : LeadsTo(f, x) => Wakes(x)'
    <3> SUFFICES ASSUME NEW x \in Elems, NEW f \in Range(frames), LeadsTo(f, x) PROVE Wakes(x)'
      OBVIOUS
    <3>1. f \in Frames /\ FrameOK(f) /\ f \in Range(frames')
      BY <1>2, <1>5 DEF EffectsInv, StackInv
    <3>2. LeadsTo(f, x)'
      BY <3>1, LeadsKept
    <3> QED BY <3>1, <3>2 DEF Wakes
  <2>3. \A a \in made \cap Anims : state[a] = "pending" => state'[a] = "pending" \/ Wakes(target[a])'
    OBVIOUS
  <2>4. WakeInv /\ (threw' \/ ~threw \/ threw)
    BY DEF EffectsInv
  <2>5. CASE threw
    BY <2>5 DEF WakeInv
  <2>6. CASE ~threw
    BY <1>7, <2>1, <2>2, <2>3, <2>4, <2>6, WakeKept
  <2> QED BY <2>5, <2>6
<1>20. PromiseInv'
  <2>1. \A x \in Elems : data'[x].waiters = data[x].waiters
    BY <1>8, <1>9, <1>10
  <2>2. \A f \in Range(frames') \cup Range(frames) :
              f.code = "empty" => f \in Range(frames') /\ f \in Range(frames)
    BY <1>3, <1>5
  <2>3. PromiseInv /\ made' \cap Counted = made \cap Counted /\ UNCHANGED <<remaining, dropped>>
        /\ \A x \in Counted : /\ lists'[<<x, "done">>].fired = lists[<<x, "done">>].fired
                              /\ lists'[<<x, "fail">>].fired = lists[<<x, "fail">>].fired
    BY DEF EffectsInv
  <2> QED BY <2>1, <2>2, <2>3, PromiseKept
<1> QED BY <1>5, <1>12, <1>17, <1>18, <1>19, <1>20

\* delay().
LEMMA DelayKeeps == ASSUME NEW e \in Elems PROVE EffectsInv /\ Delay(e) => EffectsInv'
<1> SUFFICES ASSUME EffectsInv, Delay(e) PROVE EffectsInv'
  OBVIOUS
<1>1. /\ PageCalls /\ Queues(e, "delay")
      /\ UNCHANGED <<parts, functions, registered, state, follows, called, lists, made, remaining,
                     threw, timers, interval, timeouts, target, instant, stopped, lost, dropped, forgotten>>
  BY DEF Delay, stillVars
<1>2. Asked' = Asked /\ UNCHANGED <<lists, state, made, threw, timers, interval, timeouts, stopped, lost>>
      /\ UNCHANGED <<remaining, dropped, forgotten>>
  BY <1>1 DEF Asked
<1>3. PICK item : item = "delay"
  OBVIOUS
<1>4. /\ frames' \in Seq(Frames) /\ data' \in [Elems -> Datum] /\ ListsOK(lists')
      /\ ListInv' /\ StackInv' /\ QueueInv' /\ AnimInv' /\ WakeInv' /\ PromiseInv'
  BY <1>1, <1>2, <1>3, QueuesMoves
<1>5. TypeInv'
  <2>1. calls' \in 0 .. MaxCalls
    BY <1>1, CallsBound
  <2> QED BY <1>1, <1>2, <1>4, <2>1, TypesKept DEF EffectsInv, TypeInv, DeferredTypes, EffectTypes
<1> QED BY <1>4, <1>5 DEF EffectsInv

\* animate().
LEMMA AnimateKeeps ==
    ASSUME NEW e \in Elems, NEW a \in Anims PROVE EffectsInv /\ Animate(e, a) => EffectsInv'
<1> SUFFICES ASSUME EffectsInv, Animate(e, a) PROVE EffectsInv'
  OBVIOUS
<1>1. /\ PageCalls /\ a \notin Asked /\ Queues(e, a) /\ target' = [b \in Asked \cup {a} |-> IF b = a THEN e ELSE target[b]]
      /\ instant' = instant \/ instant' = instant \cup {a}
      /\ UNCHANGED <<parts, functions, registered, state, follows, called, lists, made, remaining,
                     threw, timers, interval, timeouts, stopped, lost, dropped, forgotten>>
  BY DEF Animate, stillVars
<1>2. /\ target \in [Asked -> Elems] /\ Asked \subseteq Anims /\ timers \in Seq(made \cap Asked)
      /\ made \cap Anims \subseteq Asked /\ instant \in SUBSET Asked
  BY DEF EffectsInv, TypeInv, EffectTypes
<1>3. /\ Asked' = Asked \cup {a} /\ target'[a] = e /\ \A b \in Asked : target'[b] = target[b]
      /\ target' \in [Asked' -> Elems]
  <2>1. PICK t : t = [b \in Asked \cup {a} |-> IF b = a THEN e ELSE target[b]]
    OBVIOUS
  <2>2. target' = t
    BY <1>1, <2>1
  <2>3. /\ DOMAIN t = Asked \cup {a} /\ t[a] = e /\ \A b \in Asked : t[b] = target[b]
        /\ t \in [Asked \cup {a} -> Elems]
    BY <1>1, <1>2, <2>1
  <2>4. Asked' = DOMAIN t
    BY <2>2 DEF Asked
  <2> QED BY <2>2, <2>3, <2>4
<1>4. /\ frames' \in Seq(Frames) /\ data' \in [Elems -> Datum] /\ ListsOK(lists')
      /\ ListInv' /\ StackInv' /\ QueueInv' /\ AnimInv' /\ WakeInv' /\ PromiseInv'
  <2>1. UNCHANGED <<lists, state, made, threw, timers, interval, timeouts, stopped, lost>>
        /\ UNCHANGED <<remaining, dropped, forgotten>>
    BY <1>1
  <2> QED BY <1>1, <1>3, <2>1, QueuesMoves
<1>5. TypeInv'
  <2>1. calls' \in 0 .. MaxCalls
    BY <1>1, CallsBound
  <2>2. timers' \in Seq(made' \cap Asked')
    BY <1>1, <1>2, <1>3
  <2>3. /\ Asked \subseteq Asked' /\ Asked' \subseteq Anims /\ made' \cap Anims \subseteq Asked'
        /\ instant' \in SUBSET Asked'
    BY <1>1, <1>2, <1>3
  <2> QED BY <1>1, <1>3, <1>4, <2>1, <2>2, <2>3, TypesKept
          DEF EffectsInv, TypeInv, DeferredTypes, EffectTypes
<1> QED BY <1>4, <1>5 DEF EffectsInv

\* A step over the queue of e, which pushes frames of N: what it leaves alone, and what holds of
\* its own element after it.
QueueTurns(e, N) ==
    /\ e \in Elems /\ ~On("fire")
    /\ UNCHANGED <<lists, state, made, remaining, threw, timers, interval, target, instant,
                   stopped, lost>>
    /\ UNCHANGED <<parts, functions, registered, follows, called>>
    /\ frames' \in Seq(Frames) /\ Calm(frames') /\ Apart(frames')
    /\ \A f \in N : FrameOK(f)
    /\ Range(frames') \subseteq N \cup Range(frames)
    /\ \A f \in Range(frames) : f.code \in {"fire", "attach", "splice"} => f \in Range(frames')
    /\ data' \in [Elems -> Datum] /\ timeouts' \in [Elems -> Nat] /\ calls' \in 0 .. MaxCalls
    /\ dropped' \in SUBSET Counted /\ forgotten' \in SUBSET Elems
    /\ \A x \in Elems : x # e => (x \in forgotten' <=> x \in forgotten)
    /\ \A x \in Elems : x # e => data'[x] = data[x] /\ timeouts'[x] = timeouts[x]
    /\ On("dequeue") => Top.elem = e
    /\ \A x \in Elems : \A f \in Range(frames) : x # e /\ LeadsTo(f, x) =>
               f \in Range(frames') \/ (f.code = "finish" /\ Wakes(x)')
    /\ \A x \in Elems : x # e => \A f \in Range(frames) : f.code = "finish" /\ f.elem = x =>
          \E g \in Range(frames') : g.code = "finish" /\ g.elem = x
    /\ \A f \in N : \A a \in Held(f) : \/ a \in Anims /\ target[a] = e
                                       \/ \E g \in Range(frames) : a \in Held(g)
    /\ QueueOK(e, data[e].queue)' /\ DatumOK(e, data[e])'
    /\ (~threw /\ Due(e)' => Wakes(e)') /\ PromiseInv'

\* A step on the queue of e: N are the new frames.
LEMMA QueueStep ==
    ASSUME EffectsInv, NEW e, NEW N, QueueTurns(e, N)
    PROVE  EffectsInv'
<1> SUFFICES
     ASSUME e \in Elems /\ ~On("fire"),
            UNCHANGED <<lists, state, made, remaining, threw, timers, interval, target, instant,
                        stopped, lost>>,
            UNCHANGED <<parts, functions, registered, follows, called>>,
            frames' \in Seq(Frames) /\ Calm(frames') /\ Apart(frames'),
            \A f \in N : FrameOK(f),
            Range(frames') \subseteq N \cup Range(frames),
            \A f \in Range(frames) : f.code \in {"fire", "attach", "splice"} => f \in Range(frames'),
            data' \in [Elems -> Datum] /\ timeouts' \in [Elems -> Nat] /\ calls' \in 0 .. MaxCalls,
            dropped' \in SUBSET Counted, forgotten' \in SUBSET Elems,
            \A x \in Elems : x # e => (x \in forgotten' <=> x \in forgotten),
            \A x \in Elems : x # e => data'[x] = data[x] /\ timeouts'[x] = timeouts[x],
            On("dequeue") => Top.elem = e,
            \A x \in Elems : \A f \in Range(frames) : x # e /\ LeadsTo(f, x) =>
               f \in Range(frames') \/ (f.code = "finish" /\ Wakes(x)'),
            \A x \in Elems : x # e => \A f \in Range(frames) : f.code = "finish" /\ f.elem = x =>
               \E g \in Range(frames') : g.code = "finish" /\ g.elem = x,
            \A f \in N : \A a \in Held(f) : \/ a \in Anims /\ target[a] = e
                                            \/ \E g \in Range(frames) : a \in Held(g),
            QueueOK(e, data[e].queue)' /\ DatumOK(e, data[e])',
            (~threw /\ Due(e)' => Wakes(e)') /\ PromiseInv'
     PROVE  EffectsInv'
  BY DEF QueueTurns
<1>1. Asked' = Asked /\ \A a \in Asked : target'[a] = target[a]
  BY DEF Asked
<1>2. ListsOK(lists') /\ ListInv' /\ StackInv' /\ AnimInv'
  <2>1. \A f \in N : FrameOK(f)'
    BY <1>1 DEF FrameOK, Ends
  <2> QED BY <1>1, <2>1, QueueMoves
<1>3. QueueInv'
  <2> SUFFICES ASSUME NEW x \in Elems, x # e
               PROVE  QueueOK(x, data[x].queue)' /\ DatumOK(x, data[x])'
    BY DEF QueueInv
  <2>1. QueueOK(x, data[x].queue) /\ data[x].queue \in Seq(Items)
    BY DatumOf
  <2>2. \A f \in Range(frames') : Held(f) \cap Range(data[x].queue) = {}
    <3> SUFFICES ASSUME NEW f \in Range(frames'), NEW a \in Held(f), a \in Range(data[x].queue)
                 PROVE  FALSE
      OBVIOUS
    <3>1. \A g \in Range(frames) : a \notin Held(g)
      BY <2>1 DEF QueueOK
    <3>2. a \in Anims => target[a] # e
      BY <2>1 DEF QueueOK, Range
    <3>3. a \in Anims /\ target[a] = e
      BY <3>1
    <3> QED BY <3>2, <3>3
  <2>3. DequeueFrame(x) \in Range(frames) => DequeueFrame(x) \in Range(frames')
    BY DEF LeadsTo, DequeueFrame
  <2>4. ~(On("dequeue") /\ Top.elem = x)
    OBVIOUS
  <2> QED BY <1>1, <2>2, <2>3, <2>4, OthersKept
<1>4. WakeInv'
  <2>1. \A x \in Elems : x # e => timeouts'[x] = timeouts[x] /\ (Due(x)' => Due(x))
    BY DEF Due
  <2> QED BY <1>1, <2>1, QueueWakes
<1>5. TypeInv'
  BY <1>1, <1>2, TypesKept DEF EffectsInv, TypeInv, DeferredTypes, EffectTypes
<1> QED BY <1>2, <1>3, <1>4, <1>5 DEF EffectsInv

\* The promises, when nothing waits for another thing and nobody is told.
LEMMA WaitersKept ==
    ASSUME EffectsInv, UNCHANGED <<lists, made, remaining, dropped>>,
           \A x \in Elems : data'[x].waiters = data[x].waiters,
           \A f \in Range(frames') \cup Range(frames) :
              f.code = "empty" => f \in Range(frames') /\ f \in Range(frames)
    PROVE  PromiseInv'
<1>1. /\ PromiseInv /\ made' \cap Counted = made \cap Counted
      /\ \A p \in Counted : /\ lists'[<<p, "done">>].fired = lists[<<p, "done">>].fired
                            /\ lists'[<<p, "fail">>].fired = lists[<<p, "fail">>].fired
  BY DEF EffectsInv
<1> QED BY <1>1, PromiseKept

\* A queue that is empty.
LEMMA EmptyQueue ==
    /\ ~Sentinel(<<>>) /\ Range(<<>>) = {} /\ <<>> \in Seq(Items)
    /\ \A e \in Elems : QueueOK(e, <<>>)'
<1>1. ~Sentinel(<<>>) /\ <<>> \in Seq(Items) /\ Range(<<>>) = {} /\ DOMAIN <<>> = {}
  BY DEF Sentinel, Range
<1>2. \A e \in Elems : QueueOK(e, <<>>)'
  BY <1>1 DEF QueueOK, Once
<1> QED BY <1>1, <1>2

\* A frame of dequeue, of stop, or of a loop, which holds nothing.
LEMMA FreeFrame ==
    ASSUME NEW f \in Frames, f.code \in {"dequeue", "stop", "loop"}
    PROVE  Held(f) = {} /\ ~Delicate(f) /\ FrameOK(f) /\ f.code \notin {"empty", "finish"}
BY HeldFacts DEF Delicate, FrameOK

\* The timeout of a delay.
LEMMA TimeoutFiresKeeps ==
    ASSUME NEW e \in Elems PROVE EffectsInv /\ TimeoutFires(e) => EffectsInv'
<1> SUFFICES ASSUME EffectsInv, TimeoutFires(e) PROVE EffectsInv'
  OBVIOUS
<1>1. /\ frames = <<>> /\ timeouts[e] > 0 /\ timeouts' = [timeouts EXCEPT ![e] = @ - 1]
      /\ frames' = <<DequeueFrame(e)>>
      /\ UNCHANGED <<parts, functions, registered, state, follows, called, lists, made, remaining,
                     threw, data, timers, interval, target, instant, stopped, calls, lost, dropped, forgotten>>
  BY DEF TimeoutFires, Idle, stillVars
<1>2. PICK f, N : f = DequeueFrame(e) /\ N = {f}
  OBVIOUS
<1>3. f \in Frames /\ f.code = "dequeue" /\ f.elem = e
  BY <1>2, FrameTypes DEF DequeueFrame
<1>4. Held(f) = {} /\ ~Delicate(f) /\ FrameOK(f) /\ f.code \notin {"empty", "finish"}
  BY <1>3, FreeFrame
<1>5. Range(frames) = {} /\ ~On("fire") /\ ~On("dequeue")
  BY <1>1 DEF Range, On
<1>6. /\ frames' = <<f>> /\ frames' \in Seq(Frames) /\ Range(frames') = {f}
      /\ frames' # <<>> /\ Head(frames') = f
  BY <1>1, <1>2, <1>3 DEF Range
<1>7. Calm(frames') /\ Apart(frames')
  BY <1>4, <1>6 DEF Calm, Apart
<1>8. /\ data \in [Elems -> Datum] /\ timeouts \in [Elems -> Nat] /\ timeouts[e] \in Nat
      /\ QueueOK(e, data[e].queue) /\ DatumOK(e, data[e])
  BY DatumOf
<1>9. timeouts' \in [Elems -> Nat] /\ \A x \in Elems : x # e => timeouts'[x] = timeouts[x]
  <2>1. timeouts[e] - 1 \in Nat
    BY <1>1, <1>8
  <2> QED BY <1>1, <1>8, <2>1
<1>10. QueueOK(e, data[e].queue)'
  BY <1>1, <1>4, <1>6, <1>8 DEF QueueOK, Asked
<1>11. DatumOK(e, data[e])'
  <2>1. On("dequeue")' /\ Top'.elem = e
    BY <1>3, <1>6 DEF On, Top
  <2>2. ~(threw' = FALSE /\ data[e].finish) \/ threw
    BY <1>5, <1>8 DEF DatumOK
  <2>3. DequeueFrame(e) \in Range(frames')
    BY <1>2, <1>6
  <2> QED BY <1>1, <1>5, <1>8, <2>1, <2>3 DEF DatumOK
<1>12. Wakes(e)'
  BY <1>3, <1>6 DEF Wakes, LeadsTo
<1>13. PromiseInv'
  <2>1. \A x \in Elems : data'[x].waiters = data[x].waiters
    BY <1>1
  <2> QED BY <1>1, <1>4, <1>5, <1>6, <2>1, WaitersKept
<1>14. calls' \in 0 .. MaxCalls /\ dropped' \in SUBSET Counted /\ forgotten' \in SUBSET Elems
       /\ data' \in [Elems -> Datum]
       /\ \A x \in Elems : data'[x] = data[x]
  BY <1>1 DEF EffectsInv, TypeInv, EffectTypes
<1>15. /\ \A g \in N : FrameOK(g) /\ Held(g) = {}
       /\ Range(frames') \subseteq N \cup Range(frames)
  BY <1>2, <1>4, <1>6
<1>30. QueueTurns(e, N)
  BY <1>1, <1>5, <1>6, <1>7, <1>9, <1>10, <1>11, <1>12, <1>13, <1>14, <1>15 DEF QueueTurns
<1> QED BY <1>30, QueueStep

\* Two that are pushed at once.
LEMMA PushTwo ==
    ASSUME NEW F, NEW s \in Seq(F), NEW f \in F, NEW h \in F
    PROVE  /\ <<f, h>> \o s = <<f>> \o (<<h>> \o s)
           /\ <<f>> \o <<h>> \o s = <<f>> \o (<<h>> \o s)
<1>1. PICK t : t = <<h>> \o s
  OBVIOUS
<1>2. t \in Seq(F) /\ Len(t) = Len(s) + 1 /\ t[1] = h /\ \A i \in 1 .. Len(s) : t[i + 1] = s[i]
  BY <1>1
<1>3. PICK u : u = <<f>> \o t
  OBVIOUS
<1>4. u \in Seq(F) /\ Len(u) = Len(s) + 2 /\ u[1] = f /\ u[2] = h /\ \A i \in 1 .. Len(s) : u[i + 2] = s[i]
  BY <1>2, <1>3
<1>5. PICK v : v = <<f, h>> \o s
  OBVIOUS
<1>6. v \in Seq(F) /\ Len(v) = Len(s) + 2 /\ v[1] = f /\ v[2] = h /\ \A i \in 1 .. Len(s) : v[i + 2] = s[i]
  BY <1>5
<1>7. \A i \in 1 .. Len(s) + 2 : u[i] = v[i]
  <2> SUFFICES ASSUME NEW i \in 1 .. Len(s) + 2, i # 1, i # 2 PROVE u[i] = v[i]
    BY <1>4, <1>6
  <2>1. i - 2 \in 1 .. Len(s) /\ (i - 2) + 2 = i
    OBVIOUS
  <2> QED BY <1>4, <1>6, <2>1
<1>8. u \in [1 .. Len(s) + 2 -> F] /\ v \in [1 .. Len(s) + 2 -> F]
  BY <1>4, <1>6
<1>9. u = v
  BY <1>7, <1>8
<1>10. <<f>> \o <<h>> = <<f, h>>
  <2>1. PICK w, x : w = <<f>> \o <<h>> /\ x = <<f, h>>
    OBVIOUS
  <2>2. w \in Seq(F) /\ Len(w) = 2 /\ w[1] = f /\ w[2] = h
    BY <2>1
  <2>3. x \in Seq(F) /\ Len(x) = 2 /\ x[1] = f /\ x[2] = h
    BY <2>1
  <2>4. w \in [1 .. 2 -> F] /\ x \in [1 .. 2 -> F] /\ \A i \in 1 .. 2 : w[i] = x[i]
    BY <2>2, <2>3
  <2>5. w = x
    BY <2>4
  <2> QED BY <2>1, <2>5
<1> QED BY <1>1, <1>3, <1>5, <1>9, <1>10

\* Such a frame on a still stack.
LEMMA FreePush ==
    ASSUME NEW rest \in Seq(Frames), Still(rest), Apart(rest),
           NEW f \in Frames, f.code \in {"dequeue", "stop", "loop"}
    PROVE  /\ <<f>> \o rest \in Seq(Frames) /\ Still(<<f>> \o rest) /\ Calm(<<f>> \o rest)
           /\ Apart(<<f>> \o rest) /\ Range(<<f>> \o rest) = {f} \cup Range(rest)
<1>1. Held(f) = {} /\ ~Delicate(f)
  BY FreeFrame
<1> QED BY <1>1, PushFacts, StillPush, ApartPush

\* A call of the page that takes the queue of e and what it holds, or neither: cleared
\* tells whether it does.  S are the frames below dequeue.
LEMMA ClearedKeeps ==
    ASSUME EffectsInv, PageCalls, NEW e \in Elems, NEW cleared \in BOOLEAN,
           NEW rest \in Seq(Frames), Still(rest), Apart(rest), NEW S, Range(rest) = S \cup Range(frames),
           \A f \in S : f \in Frames /\ f.code = "stop",
           IF cleared THEN Cleared(e, rest) ELSE frames' = rest /\ UNCHANGED data,
           UNCHANGED <<parts, functions, registered, state, follows, called, lists, made, remaining>>,
           UNCHANGED <<threw, timers, interval, timeouts, target, instant, stopped, lost, dropped, forgotten>>
    PROVE  EffectsInv'
<1>1. PICK p, N : p = DequeueFrame(e) /\ N = {p} \cup S
  OBVIOUS
<1>2. p \in Frames /\ p.code = "dequeue" /\ p.elem = e
  BY <1>1, FrameTypes DEF DequeueFrame
<1>3. \A f \in N : Held(f) = {} /\ ~Delicate(f) /\ FrameOK(f) /\ f.code \notin {"empty", "finish"}
  BY <1>1, <1>2, FreeFrame
<1>4. Still(frames) /\ ~On("fire") /\ ~On("dequeue")
  BY PageTop DEF EffectsInv, PageCalls
<1>5. /\ frames' \in Seq(Frames) /\ Calm(frames') /\ Apart(frames')
      /\ Range(frames') \subseteq N \cup Range(frames) /\ Range(frames) \subseteq Range(frames')
      /\ cleared => p \in Range(frames')
  <2>1. CASE cleared
    <3>1. frames' = <<p>> \o rest
      BY <1>1, <2>1 DEF Cleared
    <3> QED BY <1>1, <1>2, <3>1, FreePush
  <2>2. CASE ~cleared
    <3>1. frames' = rest
      BY <2>2
    <3>2. Calm(rest)
      BY DEF Still, Calm
    <3> QED BY <1>1, <2>2, <3>1, <3>2
  <2> QED BY <2>1, <2>2
<1>6. /\ data \in [Elems -> Datum] /\ data[e] \in Datum /\ timeouts \in [Elems -> Nat]
      /\ QueueOK(e, data[e].queue) /\ DatumOK(e, data[e])
  BY DatumOf
<1>7. PICK d : d = [data[e] EXCEPT !.queue = <<>>, !.hooks = TRUE]
  OBVIOUS
<1>8. /\ d \in Datum /\ d.queue = <<>> /\ d.hooks /\ d.stop = data[e].stop
      /\ d.waiters = data[e].waiters /\ d.finish = data[e].finish
  BY <1>6, <1>7, EmptyQueue DEF Datum
<1>9. cleared => data' = [data EXCEPT ![e] = d]
  BY <1>6, <1>7 DEF Cleared
<1>10. /\ data' \in [Elems -> Datum] /\ \A x \in Elems : x # e => data'[x] = data[x]
       /\ data'[e] = (IF cleared THEN d ELSE data[e])
       /\ \A x \in Elems : data'[x].waiters = data[x].waiters
  <2>1. CASE cleared
    BY <1>6, <1>8, <1>9, <2>1
  <2>2. CASE ~cleared
    BY <1>6, <2>2
  <2> QED BY <2>1, <2>2
<1>11. QueueOK(e, data[e].queue)'
  <2>1. CASE cleared
    BY <1>8, <1>10, <2>1, EmptyQueue DEF QueueOK
  <2>2. CASE ~cleared
    BY <1>3, <1>5, <1>6, <1>10, <2>2 DEF QueueOK, Asked
  <2> QED BY <2>1, <2>2
<1>12. DatumOK(e, data[e])'
  <2>1. /\ data'[e].stop = data[e].stop /\ data'[e].finish = data[e].finish
        /\ data'[e].waiters = data[e].waiters
    BY <1>8, <1>10
  <2>2. data'[e].stop = "runs" => timeouts'[e] > 0
    BY <1>4, <1>6, <2>1 DEF DatumOK
  <2>3. ~threw' /\ data'[e].finish => \E f \in Range(frames') : f.code = "finish" /\ f.elem = e
    BY <1>5, <1>6, <2>1 DEF DatumOK
  <2>4. /\ ~data'[e].hooks =>
              data'[e].queue = <<>> /\ data'[e].stop = "none" /\ data'[e].waiters = <<>>
        /\ ~threw' /\ data'[e].queue # <<>> /\ ~Sentinel(data'[e].queue) =>
              DequeueFrame(e) \in Range(frames')
    <3>1. CASE cleared
      BY <1>8, <1>10, <3>1
    <3>2. CASE ~cleared
      BY <1>5, <1>6, <1>10, <3>2 DEF DatumOK
    <3> QED BY <3>1, <3>2
  <2>5. Range(data'[e].waiters) \subseteq made' /\ Distinct(data'[e].waiters)
    BY <1>6, <2>1 DEF DatumOK
  <2> QED BY <2>2, <2>3, <2>4, <2>5 DEF DatumOK
<1>13. ~threw /\ Due(e)' => Wakes(e)'
  <2> SUFFICES ASSUME ~threw, Due(e)' PROVE Wakes(e)'
    OBVIOUS
  <2>0. CASE cleared
    <3>1. p \in Range(frames') /\ LeadsTo(p, e)'
      BY <1>2, <1>5, <2>0 DEF LeadsTo
    <3> QED BY <3>1 DEF Wakes
  <2> SUFFICES ASSUME ~cleared PROVE Wakes(e)'
    BY <2>0
  <2>1. Due(e) /\ Wakes(e)
    <3>1. Due(e)
      BY <1>10 DEF Due
    <3> QED BY <3>1 DEF EffectsInv, WakeInv
  <2>2. /\ \A x \in Asked : target'[x] = target[x] /\ Asked' = Asked
        /\ \A f \in Range(frames) : LeadsTo(f, e) => f \in Range(frames') /\ LeadsTo(f, e)'
    BY <1>5 DEF Asked, LeadsTo
  <2> QED BY <2>1, <2>2 DEF Wakes
<1>14. PromiseInv'
  BY <1>3, <1>5, <1>10, WaitersKept
<1>15. calls' \in 0 .. MaxCalls /\ dropped' \in SUBSET Counted /\ forgotten' \in SUBSET Elems /\ timeouts' \in [Elems -> Nat]
       /\ \A x \in Elems : timeouts'[x] = timeouts[x]
  BY CallsBound DEF EffectsInv, TypeInv, EffectTypes
<1>16. /\ \A f \in N : FrameOK(f)
       /\ \A f \in Range(frames) : f.code \in {"fire", "attach", "splice"} => f \in Range(frames')
       /\ \A x \in Elems : \A f \in Range(frames) : x # e /\ LeadsTo(f, x) => f \in Range(frames')
       /\ \A x \in Elems : x # e => \A f \in Range(frames) : f.code = "finish" /\ f.elem = x =>
              \E g \in Range(frames') : g.code = "finish" /\ g.elem = x
       /\ \A f \in N : \A a \in Held(f) : \/ a \in Anims /\ target[a] = e
                                          \/ \E g \in Range(frames) : a \in Held(g)
       /\ \A x \in Elems : x # e => data'[x] = data[x] /\ timeouts'[x] = timeouts[x]
       /\ On("dequeue") => Top.elem = e
  BY <1>3, <1>4, <1>5, <1>10, <1>15
<1> HIDE <1>3
<1>30. QueueTurns(e, N)
  BY <1>4, <1>5, <1>10, <1>11, <1>12, <1>13, <1>14, <1>15, <1>16 DEF QueueTurns
<1> QED BY <1>30, QueueStep

\* clearQueue().
LEMMA ClearQueueKeeps ==
    ASSUME NEW e \in Elems PROVE EffectsInv /\ ClearQueue(e) => EffectsInv'
<1> SUFFICES ASSUME EffectsInv, ClearQueue(e) PROVE EffectsInv'
  OBVIOUS
<1>1. PICK S, cleared, rest : S = {} /\ cleared = TRUE /\ rest = frames
  OBVIOUS
<1>2. /\ PageCalls /\ Cleared(e, frames)
      /\ UNCHANGED <<parts, functions, registered, state, follows, called, lists, made, remaining>>
      /\ UNCHANGED <<threw, timers, interval, timeouts, target, instant, stopped, lost, dropped, forgotten>>
  BY DEF ClearQueue, stillVars
<1>3. frames \in Seq(Frames) /\ Still(frames) /\ Apart(frames)
  BY <1>2, PageTop DEF EffectsInv, StackInv, PageCalls
<1>4. /\ IF cleared THEN Cleared(e, rest) ELSE frames' = rest /\ UNCHANGED data
      /\ cleared \in BOOLEAN /\ \A f \in S : f \in Frames /\ f.code = "stop"
      /\ Range(rest) = S \cup Range(frames)
      /\ rest \in Seq(Frames) /\ Still(rest) /\ Apart(rest)
  BY <1>1, <1>2, <1>3
<1> HIDE <1>1
<1> QED BY <1>2, <1>4, ClearedKeeps

\* The first half of stop().
LEMMA StopKeeps ==
    ASSUME NEW e \in Elems, NEW clear \in BOOLEAN, NEW g \in BOOLEAN
    PROVE  EffectsInv /\ Stop(e, clear, g) => EffectsInv'
<1> SUFFICES ASSUME EffectsInv, Stop(e, clear, g) PROVE EffectsInv'
  OBVIOUS
<1>1. PICK f, S, rest : f = StopFrame(e, g) /\ S = {f} /\ rest = <<f>> \o frames
  OBVIOUS
<1>2. /\ PageCalls /\ (IF clear THEN Cleared(e, rest) ELSE frames' = rest /\ UNCHANGED data)
      /\ UNCHANGED <<parts, functions, registered, state, follows, called, lists, made, remaining>>
      /\ UNCHANGED <<threw, timers, interval, timeouts, target, instant, stopped, lost, dropped, forgotten>>
  BY <1>1 DEF Stop, stillVars
<1>3. frames \in Seq(Frames) /\ Still(frames) /\ Apart(frames)
  BY <1>2, PageTop DEF EffectsInv, StackInv, PageCalls
<1>4. f \in Frames /\ f.code = "stop"
  BY <1>1, FrameTypes DEF StopFrame
<1>5. rest \in Seq(Frames) /\ Still(rest) /\ Apart(rest) /\ Range(rest) = S \cup Range(frames)
  BY <1>1, <1>3, <1>4, FreePush
<1>6. \A h \in S : h \in Frames /\ h.code = "stop"
  BY <1>1, <1>4
<1> QED BY <1>2, <1>5, <1>6, ClearedKeeps

\* The timeout that hooks.stop clears.
LEMMA ClearedTimeout ==
    ASSUME EffectsInv, NEW e \in Elems, ~On("dequeue"), TimeoutCleared(e)
    PROVE  timeouts' \in [Elems -> Nat] /\ \A x \in Elems : x # e => timeouts'[x] = timeouts[x]
<1>1. timeouts \in [Elems -> Nat] /\ timeouts[e] \in Nat /\ DatumOK(e, data[e])
  BY DatumOf
<1>2. data[e].stop = "runs" => timeouts[e] - 1 \in Nat
  BY <1>1 DEF DatumOK
<1>3. PICK n : n = IF data[e].stop = "runs" THEN timeouts[e] - 1 ELSE timeouts[e]
  OBVIOUS
<1>4. n \in Nat /\ timeouts' = [timeouts EXCEPT ![e] = n]
  BY <1>1, <1>2, <1>3 DEF TimeoutCleared
<1> QED BY <1>1, <1>4

\* stop before its loop.
LEMMA StopQueueKeeps == EffectsInv /\ StopQueue => EffectsInv'
<1> SUFFICES ASSUME EffectsInv, StopQueue PROVE EffectsInv'
  OBVIOUS
<1>1. PICK e, g, n : e = Top.elem /\ g = Top.gotoEnd /\ n = Len(timers)
  OBVIOUS
<1>2. /\ frames # <<>> /\ Top.code = "stop" /\ TimeoutCleared(e)
      /\ data' = [data EXCEPT ![e].stop = "none"]
      /\ frames' = <<LoopFrame(e, g, n, TRUE)>> \o Below
      /\ UNCHANGED <<parts, functions, registered, state, follows, called, lists, made, remaining>>
      /\ UNCHANGED <<threw, timers, interval, target, instant, stopped, calls, lost, dropped, forgotten>>
  BY <1>1 DEF StopQueue, On, stillVars
<1>3. /\ Top \in Frames /\ Below \in Seq(Frames) /\ Still(Below) /\ Apart(Below)
      /\ Range(frames) = {Top} \cup Range(Below)
  BY <1>2, TopFacts DEF EffectsInv
<1>4. e \in Elems /\ g \in BOOLEAN /\ n \in Nat
  BY <1>1, <1>2, <1>3, FrameParts DEF EffectsInv, TypeInv, EffectTypes
<1>5. PICK f, N : f = LoopFrame(e, g, n, TRUE) /\ N = {f}
  OBVIOUS
<1>6. f \in Frames /\ f.code = "loop" /\ f.elem = e /\ f.dequeue
  BY <1>4, <1>5, FrameTypes DEF LoopFrame
<1>7. Held(f) = {} /\ FrameOK(f) /\ f.code \notin {"empty", "finish"}
  BY <1>6, FreeFrame
<1>8. ~On("fire") /\ ~On("dequeue")
  BY <1>2 DEF On
<1>9. /\ frames' \in Seq(Frames) /\ Calm(frames') /\ Apart(frames')
      /\ Range(frames') = {f} \cup Range(Below)
  BY <1>2, <1>3, <1>5, <1>6, FreePush
<1>10. /\ data \in [Elems -> Datum] /\ data[e] \in Datum
       /\ QueueOK(e, data[e].queue) /\ DatumOK(e, data[e])
  BY <1>4, DatumOf
<1>11. PICK d : d = [data[e] EXCEPT !.stop = "none"]
  OBVIOUS
<1>12. /\ d \in Datum /\ d.queue = data[e].queue /\ d.hooks = data[e].hooks /\ d.stop = "none"
       /\ d.waiters = data[e].waiters /\ d.finish = data[e].finish
  BY <1>10, <1>11 DEF Datum
<1>13. /\ data' \in [Elems -> Datum] /\ \A x \in Elems : x # e => data'[x] = data[x]
       /\ data'[e] = d /\ \A x \in Elems : data'[x].waiters = data[x].waiters
  <2>1. data' = [data EXCEPT ![e] = d]
    BY <1>2, <1>10, <1>11
  <2> QED BY <1>4, <1>10, <1>12, <2>1
<1>14. QueueOK(e, data[e].queue)'
  BY <1>2, <1>3, <1>7, <1>9, <1>10, <1>12, <1>13 DEF QueueOK, Asked
<1>15. DatumOK(e, data[e])'
  <2>1. DequeueFrame(e) \in Range(frames) => DequeueFrame(e) \in Range(frames')
    <3>1. DequeueFrame(e).code = "dequeue"
      BY DEF DequeueFrame
    <3> QED BY <1>2, <1>3, <1>9, <3>1
  <2>2. \A h \in Range(frames) : h.code = "finish" => h \in Range(frames')
    BY <1>2, <1>3, <1>9
  <2> QED BY <1>2, <1>10, <1>12, <1>13, <2>1, <2>2 DEF DatumOK
<1>16. Wakes(e)'
  BY <1>6, <1>9 DEF Wakes, LeadsTo
<1>17. PromiseInv'
  BY <1>2, <1>3, <1>7, <1>9, <1>13, WaitersKept
<1>18. timeouts' \in [Elems -> Nat] /\ \A x \in Elems : x # e => timeouts'[x] = timeouts[x]
  BY <1>2, <1>4, <1>8, ClearedTimeout
<1>19. calls' \in 0 .. MaxCalls /\ dropped' \in SUBSET Counted /\ forgotten' \in SUBSET Elems
  BY <1>2 DEF EffectsInv, TypeInv, EffectTypes
<1>20. /\ \A h \in N : FrameOK(h) /\ Held(h) = {}
       /\ Range(frames') \subseteq N \cup Range(frames)
       /\ \A h \in Range(frames) : h.code \in {"fire", "attach", "splice"} => h \in Range(frames')
       /\ \A x \in Elems : x # e => \A h \in Range(frames) : h.code = "finish" /\ h.elem = x =>
             \E k \in Range(frames') : k.code = "finish" /\ k.elem = x
  BY <1>2, <1>3, <1>5, <1>7, <1>9
<1>21. \A x \in Elems : \A h \in Range(frames) : x # e /\ LeadsTo(h, x) => h \in Range(frames')
  BY <1>1, <1>2, <1>3, <1>9 DEF LeadsTo
<1> HIDE <1>1
<1>30. QueueTurns(e, N)
  BY <1>2, <1>4, <1>8, <1>9, <1>13, <1>14, <1>15, <1>16, <1>17, <1>18, <1>19, <1>20, <1>21 DEF QueueTurns
<1> QED BY <1>30, QueueStep

\* What a queue gives to the loop of finish over it.
LEMMA FinishFrameOK ==
    ASSUME EffectsInv, NEW e \in Elems, NEW q, q = data[e].queue
    PROVE  /\ FinishFrame(e, q) \in Frames /\ FrameOK(FinishFrame(e, q)) /\ ~Delicate(FinishFrame(e, q))
           /\ FinishFrame(e, q).code = "finish" /\ FinishFrame(e, q).elem = e
           /\ Held(FinishFrame(e, q)) = Range(q) \cap Anims
           /\ \A a \in Range(q) \cap Anims : target[a] = e
<1>1. q \in Seq(Items) /\ QueueOK(e, q)
  BY DatumOf
<1>2. PICK f : f = FinishFrame(e, q)
  OBVIOUS
<1>3. f \in Frames /\ f.code = "finish" /\ f.elem = e /\ f.rest = q
  BY <1>1, <1>2, FrameTypes DEF FinishFrame
<1>4. Held(f) = Range(q) \cap Anims /\ ~Delicate(f)
  BY <1>3, HeldFacts DEF Delicate
<1>5. Range(q) \cap Anims \subseteq Asked \ made /\ \A a \in Range(q) \cap Anims : target[a] = e
  BY <1>1 DEF QueueOK, Range
<1>6. FrameOK(f)
  BY <1>1, <1>3, <1>4, <1>5 DEF FrameOK, QueueOK
<1> QED BY <1>2, <1>3, <1>4, <1>5, <1>6

\* finish() before its loop.
LEMMA FinishKeeps == ASSUME NEW e \in Elems PROVE EffectsInv /\ Finish(e) => EffectsInv'
<1> SUFFICES ASSUME EffectsInv, Finish(e) PROVE EffectsInv'
  OBVIOUS
<1>1. PICK q, n : q = data[e].queue /\ n = Len(timers)
  OBVIOUS
<1>2. PICK f, h, N : f = LoopFrame(e, TRUE, n, FALSE) /\ h = FinishFrame(e, q) /\ N = {f, h}
  OBVIOUS
<1>3. /\ PageCalls /\ TimeoutCleared(e)
      /\ data' = [data EXCEPT ![e].finish = TRUE, ![e].queue = <<>>,
                              ![e].stop = IF @ = "none" THEN @ ELSE "cleared"]
      /\ frames' = <<f, h>> \o frames
      /\ UNCHANGED <<parts, functions, registered, state, follows, called, lists, made, remaining>>
      /\ UNCHANGED <<threw, timers, interval, target, instant, stopped, lost, dropped>>
      /\ forgotten' = IF data[e].hooks /\ ~HasAnimation(e) THEN forgotten \cup {e} ELSE forgotten
  BY <1>1, <1>2 DEF Finish, stillVars
<1>4. /\ frames \in Seq(Frames) /\ Still(frames) /\ Apart(frames) /\ ~On("fire") /\ ~On("dequeue")
  BY <1>3, PageTop DEF EffectsInv, StackInv, PageCalls
<1>5. /\ data \in [Elems -> Datum] /\ data[e] \in Datum
      /\ QueueOK(e, q) /\ DatumOK(e, data[e])
  BY <1>1, DatumOf
<1>6. f \in Frames /\ f.code = "loop" /\ Held(f) = {} /\ FrameOK(f)
  <2>1. n \in Nat
    BY <1>1 DEF EffectsInv, TypeInv, EffectTypes
  <2>2. f \in Frames /\ f.code = "loop"
    BY <1>2, <2>1, FrameTypes DEF LoopFrame
  <2> QED BY <2>2, FreeFrame
<1>7. /\ h \in Frames /\ FrameOK(h) /\ ~Delicate(h) /\ h.code = "finish" /\ h.elem = e
      /\ Held(h) = Range(q) \cap Anims /\ \A a \in Range(q) \cap Anims : target[a] = e
  BY <1>1, <1>2, FinishFrameOK
<1>8. /\ frames' \in Seq(Frames) /\ Calm(frames') /\ Apart(frames')
      /\ Range(frames') = {f, h} \cup Range(frames)
  <2>1. PICK rest : rest = <<h>> \o frames
    OBVIOUS
  <2>2. rest \in Seq(Frames) /\ Range(rest) = {h} \cup Range(frames) /\ Still(rest)
    BY <1>4, <1>7, <2>1, PushFacts, StillPush
  <2>3. \A g \in Range(frames) : Held(h) \cap Held(g) = {}
    BY <1>5, <1>7 DEF QueueOK
  <2>4. Apart(rest)
    BY <1>4, <1>7, <2>1, <2>3, ApartPush
  <2>5. frames' = <<f>> \o rest
    <3>1. f \in Frames /\ h \in Frames /\ frames \in Seq(Frames) /\ frames' = <<f, h>> \o frames
      BY <1>3, <1>4, <1>6, <1>7
    <3>2. <<f, h>> \o frames = <<f>> \o (<<h>> \o frames)
      BY <3>1, PushTwo
    <3> QED BY <2>1, <3>1, <3>2
  <2> QED BY <1>6, <2>2, <2>4, <2>5, FreePush
<1>9. PICK s : s = IF data[e].stop = "none" THEN "none" ELSE "cleared"
  OBVIOUS
<1>10. PICK d : d = [data[e] EXCEPT !.finish = TRUE, !.queue = <<>>, !.stop = s]
  OBVIOUS
<1>11. /\ d \in Datum /\ d.queue = <<>> /\ d.hooks = data[e].hooks /\ d.stop = s
       /\ d.waiters = data[e].waiters /\ d.finish = TRUE
  BY <1>5, <1>9, <1>10, EmptyQueue DEF Datum
<1>12. /\ data' \in [Elems -> Datum] /\ \A x \in Elems : x # e => data'[x] = data[x]
       /\ data'[e] = d /\ \A x \in Elems : data'[x].waiters = data[x].waiters
  <2>1. data' = [data EXCEPT ![e] = d]
    BY <1>3, <1>5, <1>9, <1>10
  <2> QED BY <1>5, <1>11, <2>1
<1>13. QueueOK(e, data[e].queue)'
  BY <1>11, <1>12, EmptyQueue DEF QueueOK
<1>14. DatumOK(e, data[e])'
  <2>1. \E g \in Range(frames') : g.code = "finish" /\ g.elem = e
    BY <1>7, <1>8
  <2> QED BY <1>3, <1>5, <1>9, <1>11, <1>12, <2>1 DEF DatumOK
<1>15. Due(e)' => Wakes(e)'
  <2> SUFFICES ASSUME Due(e)' PROVE Wakes(e)'
    OBVIOUS
  <2>1. ~Sentinel(data'[e].queue) /\ data'[e].hooks = data[e].hooks
    BY <1>11, <1>12, EmptyQueue
  <2>2. HasAnimation(e)
    BY <1>3, <2>1 DEF Due
  <2>3. CASE \E a \in Anims : a \in Range(q)
    <3>1. PICK a \in Anims : a \in Range(q)
      BY <2>3
    <3>2. h \in Range(frames') /\ h.code = "finish" /\ a \in Held(h) /\ target'[a] = e
      BY <1>3, <1>7, <1>8, <3>1
    <3>3. LeadsTo(h, e)'
      BY <3>2 DEF LeadsTo
    <3> QED BY <3>2, <3>3 DEF Wakes
  <2>4. CASE \E a \in Range(timers) : Animates(a, e)
    <3>1. PICK a \in Range(timers) : Animates(a, e)
      BY <2>4
    <3>2. a \in made \cap Anims
      BY <3>1 DEF EffectsInv, TypeInv, EffectTypes, Range
    <3> QED BY <1>3, <3>1, <3>2 DEF Animates, Wakes
  <2> QED BY <1>1, <2>2, <2>3, <2>4 DEF HasAnimation
<1>16. PromiseInv'
  BY <1>3, <1>6, <1>7, <1>8, <1>12, WaitersKept
<1>17. timeouts' \in [Elems -> Nat] /\ \A x \in Elems : x # e => timeouts'[x] = timeouts[x]
  BY <1>3, <1>4, ClearedTimeout
<1>18. /\ calls' \in 0 .. MaxCalls /\ dropped' \in SUBSET Counted /\ forgotten' \in SUBSET Elems
       /\ \A x \in Elems : x # e => (x \in forgotten' <=> x \in forgotten)
  BY <1>3, CallsBound DEF EffectsInv, TypeInv, EffectTypes
<1>19. /\ \A g \in N : FrameOK(g)
       /\ Range(frames') \subseteq N \cup Range(frames) /\ Range(frames) \subseteq Range(frames')
       /\ \A g \in N : \A a \in Held(g) : \/ a \in Anims /\ target[a] = e
                                          \/ \E k \in Range(frames) : a \in Held(k)
       /\ \A x \in Elems : \A g \in Range(frames) : x # e /\ LeadsTo(g, x) => g \in Range(frames')
       /\ \A g \in Range(frames) : g.code \in {"fire", "attach", "splice"} => g \in Range(frames')
       /\ \A x \in Elems : x # e => \A g \in Range(frames) : g.code = "finish" /\ g.elem = x =>
             \E k \in Range(frames') : k.code = "finish" /\ k.elem = x
       /\ On("dequeue") => Top.elem = e
  BY <1>2, <1>4, <1>6, <1>7, <1>8
<1> HIDE <1>6, <1>7
<1>30. QueueTurns(e, N)
  BY <1>3, <1>4, <1>8, <1>12, <1>13, <1>14, <1>15, <1>16, <1>17, <1>18, <1>19 DEF QueueTurns
<1> QED BY <1>30, QueueStep

\* The queue of e goes on waiting.
LEMMA WakesStay ==
    ASSUME EffectsInv, UNCHANGED <<timeouts, made, target, state, lists, threw>>, NEW e \in Elems,
           \A f \in Range(frames) : LeadsTo(f, e) => f \in Range(frames') \/ Wakes(e)'
    PROVE  ~threw /\ Due(e) => Wakes(e)'
<1> SUFFICES ASSUME ~threw, Due(e) PROVE Wakes(e)'
  OBVIOUS
<1>1. Wakes(e)
  BY DEF EffectsInv, WakeInv
<1>2. \A f : LeadsTo(f, e) => LeadsTo(f, e)'
  BY DEF LeadsTo, Asked
<1> QED BY <1>1, <1>2 DEF Wakes

\* One step of the loop of finish over the old queue r.
LEMMA RestFacts ==
    ASSUME NEW r \in Seq(Items), r # <<>>, NEW e \in Elems, NEW item, item = Head(r),
           Range(r) \cap Anims \subseteq Asked \ made, Once(r),
           NEW f, f = FinishFrame(e, Tail(r))
    PROVE  /\ f \in Frames /\ FrameOK(f) /\ ~Delicate(f) /\ f.code = "finish" /\ f.elem = e
           /\ Held(f) \subseteq Range(r) \cap Anims
           /\ Range(r) \cap Anims \subseteq Held(f) \cup {item}
           /\ item \in Range(r) /\ (item \in Anims => item \notin Held(f))
<1>0. PICK t : t = Tail(r)
  OBVIOUS
<1>1. /\ item \in Items /\ t \in Seq(Items) /\ 1 \in DOMAIN r /\ r[1] = item
      /\ Range(r) = {item} \cup Range(t)
      /\ \A i \in DOMAIN t : i + 1 \in DOMAIN r /\ t[i] = r[i + 1] /\ i \in Nat /\ i >= 1
  <2>1. /\ item \in Items /\ t \in Seq(Items) /\ 1 \in DOMAIN r /\ r[1] = item
        /\ Range(r) = {item} \cup Range(t)
        /\ \A i \in DOMAIN t : i + 1 \in DOMAIN r /\ t[i] = r[i + 1]
    <3>1. Head(r) \in Items /\ Tail(r) \in Seq(Items) /\ 1 \in DOMAIN r /\ r[1] = Head(r)
      BY PopFacts
    <3>2. Range(r) = {Head(r)} \cup Range(Tail(r))
      BY PopFacts
    <3>3. \A i \in DOMAIN Tail(r) : i + 1 \in DOMAIN r /\ Tail(r)[i] = r[i + 1]
      BY PopFacts
    <3> QED BY <1>0, <3>1, <3>2, <3>3
  <2>2. \A i \in DOMAIN t : i \in Nat /\ i >= 1
    BY <2>1
  <2> QED BY <2>1, <2>2
<1>2. f \in Frames /\ f.code = "finish" /\ f.elem = e /\ f.rest = t
  BY <1>0, <1>1, FrameTypes DEF FinishFrame
<1>3. Held(f) = Range(t) \cap Anims /\ ~Delicate(f)
  BY <1>2, HeldFacts DEF Delicate
<1>4. Once(t)
  <2> SUFFICES ASSUME NEW i \in DOMAIN t, NEW j \in DOMAIN t, t[i] = t[j], t[i] \in Anims PROVE i = j
    BY DEF Once
  <2>1. i + 1 = j + 1
    BY <1>1 DEF Once
  <2> QED BY <1>1, <2>1
<1>5. item \in Anims => item \notin Range(t)
  <2> SUFFICES ASSUME item \in Anims, NEW i \in DOMAIN t, t[i] = item PROVE FALSE
    BY DEF Range
  <2>1. i + 1 = 1
    BY <1>1 DEF Once
  <2> QED BY <1>1, <2>1
<1>6. FrameOK(f)
  BY <1>1, <1>2, <1>3, <1>4 DEF FrameOK
<1> QED BY <1>1, <1>2, <1>3, <1>5, <1>6

\* The loop of finish over the old queue.
LEMMA FinishNextKeeps == EffectsInv /\ FinishNext => EffectsInv'
<1> SUFFICES ASSUME EffectsInv, FinishNext PROVE EffectsInv'
  OBVIOUS
<1>1. PICK e, r, item, t : e = Top.elem /\ r = Top.rest /\ item = Head(r) /\ t = Tail(r)
  OBVIOUS
<1>2. PICK b, f : b = BeginFrame(item) /\ f = FinishFrame(e, t)
  OBVIOUS
<1>3. /\ frames # <<>> /\ Top.code = "finish"
      /\ \/ r = <<>> /\ data' = [data EXCEPT ![e].finish = FALSE] /\ frames' = Below
         \/ r # <<>> /\ data' = data
            /\ frames' = (IF item \in Anims THEN <<b>> ELSE <<>>) \o <<f>> \o Below
      /\ UNCHANGED <<parts, functions, registered, state, follows, called, lists, made, remaining>>
      /\ UNCHANGED <<threw, timers, interval, timeouts, target, instant, stopped, calls, lost, dropped, forgotten>>
  BY <1>1, <1>2 DEF FinishNext, On, stillVars
<1>4. /\ Top \in Frames /\ Below \in Seq(Frames) /\ Still(Below) /\ Calm(Below) /\ Apart(Below)
      /\ Range(frames) = {Top} \cup Range(Below) /\ FrameOK(Top)
      /\ \A g \in Range(Below) : Held(Top) \cap Held(g) = {}
  BY <1>3, TopFacts DEF EffectsInv
<1>5. /\ e \in Elems /\ r \in Seq(Items) /\ Held(Top) = Range(r) \cap Anims
      /\ Range(r) \cap Anims \subseteq Asked \ made /\ Once(r)
  BY <1>1, <1>3, <1>4, FrameParts, HeldFacts DEF FrameOK
<1>6. ~On("fire") /\ ~On("dequeue")
  BY <1>3 DEF On
<1>7. /\ data \in [Elems -> Datum] /\ data[e] \in Datum
      /\ QueueOK(e, data[e].queue) /\ DatumOK(e, data[e])
  BY <1>5, DatumOf
<1>8. calls' \in 0 .. MaxCalls /\ dropped' \in SUBSET Counted /\ forgotten' \in SUBSET Elems /\ timeouts' \in [Elems -> Nat]
      /\ \A x \in Elems : timeouts'[x] = timeouts[x]
  BY <1>3 DEF EffectsInv, TypeInv, EffectTypes
<1>9. \A x \in Elems : \A g \in Range(frames) : LeadsTo(g, x) =>
          g \in Range(Below) \/ (g = Top /\ \E a \in Held(Top) : target[a] = x)
  BY <1>3, <1>4 DEF LeadsTo
<1>10. CASE r = <<>>
  <2>1. data' = [data EXCEPT ![e].finish = FALSE] /\ frames' = Below
    BY <1>3, <1>10
  <2>2. PICK d, N : d = [data[e] EXCEPT !.finish = FALSE] /\ N = {}
    OBVIOUS
  <2>3. /\ d \in Datum /\ d.queue = data[e].queue /\ d.hooks = data[e].hooks
        /\ d.stop = data[e].stop /\ d.waiters = data[e].waiters /\ d.finish = FALSE
    BY <1>7, <2>2 DEF Datum
  <2>4. /\ data' \in [Elems -> Datum] /\ \A x \in Elems : x # e => data'[x] = data[x]
        /\ data'[e] = d /\ \A x \in Elems : data'[x].waiters = data[x].waiters
    <3>1. data' = [data EXCEPT ![e] = d]
      BY <1>7, <2>1, <2>2
    <3> QED BY <1>5, <1>7, <2>3, <3>1
  <2>5. QueueOK(e, data[e].queue)'
    BY <1>3, <1>4, <1>7, <2>1, <2>3, <2>4 DEF QueueOK, Asked
  <2>6. DatumOK(e, data[e])'
    <3>1. DequeueFrame(e).code = "dequeue"
      BY DEF DequeueFrame
    <3>2. DequeueFrame(e) \in Range(frames) => DequeueFrame(e) \in Range(frames')
      BY <1>3, <1>4, <2>1, <3>1
    <3> QED BY <1>3, <1>6, <1>7, <2>3, <2>4, <3>2 DEF DatumOK
  <2>0. \A x \in Elems : \A g \in Range(frames) : LeadsTo(g, x) => g \in Range(frames')
    BY <1>5, <1>9, <1>10, <2>1, EmptyQueue
  <2>7. ~threw /\ Due(e)' => Wakes(e)'
    <3>1. Due(e)' => Due(e)
      BY <1>3, <2>3, <2>4 DEF Due
    <3> QED BY <1>3, <1>5, <2>0, <3>1, WakesStay
  <2>8. PromiseInv'
    BY <1>3, <1>4, <2>1, <2>4, WaitersKept
  <2>9. /\ \A g \in N : FrameOK(g) /\ Held(g) = {}
        /\ Range(frames') \subseteq N \cup Range(frames)
        /\ \A g \in Range(frames) : g.code \in {"fire", "attach", "splice"} => g \in Range(frames')
        /\ \A x \in Elems : \A g \in Range(frames) : x # e /\ LeadsTo(g, x) => g \in Range(frames')
        /\ \A x \in Elems : x # e => \A g \in Range(frames) : g.code = "finish" /\ g.elem = x =>
              \E k \in Range(frames') : k.code = "finish" /\ k.elem = x
    BY <1>1, <1>3, <1>4, <2>0, <2>1, <2>2
  <2>30. QueueTurns(e, N)
    BY <1>3, <1>4, <1>5, <1>6, <1>8, <2>1, <2>4, <2>5, <2>6, <2>7, <2>8, <2>9 DEF QueueTurns
  <2> QED BY <2>30, QueueStep
<1>11. CASE r # <<>>
  <2>1. /\ f \in Frames /\ FrameOK(f) /\ ~Delicate(f) /\ f.code = "finish" /\ f.elem = e
        /\ Held(f) \subseteq Range(r) \cap Anims
        /\ Range(r) \cap Anims \subseteq Held(f) \cup {item}
        /\ item \in Range(r) /\ (item \in Anims => item \notin Held(f))
    <3>1. /\ r \in Seq(Items) /\ r # <<>> /\ item = Head(r) /\ t = Tail(r) /\ e \in Elems
          /\ f = FinishFrame(e, Tail(r)) /\ Range(r) \cap Anims \subseteq Asked \ made /\ Once(r)
      BY <1>1, <1>2, <1>5, <1>11
    <3> HIDE <1>1, <1>2
    <3> QED BY <3>1, RestFacts
  <2>2. PICK mid : mid = <<f>> \o Below
    OBVIOUS
  <2>3. /\ mid \in Seq(Frames) /\ Range(mid) = {f} \cup Range(Below) /\ Still(mid) /\ Calm(mid)
        /\ Apart(mid)
    <3>1. \A g \in Range(Below) : Held(f) \cap Held(g) = {}
      BY <1>4, <1>5, <2>1
    <3> QED BY <1>4, <2>1, <2>2, <3>1, PushFacts, StillPush, ApartPush
  <2>4. item \in Anims => /\ b \in Frames /\ b.code = "begin" /\ b.anim = item /\ Held(b) = {item}
                          /\ FrameOK(b)
    <3> SUFFICES ASSUME item \in Anims
                 PROVE  /\ b \in Frames /\ b.code = "begin" /\ b.anim = item /\ Held(b) = {item}
                        /\ FrameOK(b)
      OBVIOUS
    <3>1. b \in Frames /\ b.code = "begin" /\ b.anim = item
      BY <1>2, FrameTypes DEF BeginFrame
    <3>2. item \in Asked \ made
      BY <1>5, <2>1
    <3> QED BY <3>1, <3>2, HeldFacts DEF FrameOK
  <2>5. PICK N : N = {f} \cup (IF item \in Anims THEN {b} ELSE {})
    OBVIOUS
  <2>6. /\ frames' \in Seq(Frames) /\ Calm(frames') /\ Apart(frames')
        /\ Range(frames') = N \cup Range(Below)
    <3>1. CASE item \in Anims
      <4>1. frames' = <<b>> \o mid
        <5>1. frames' = <<b>> \o <<f>> \o Below
          BY <1>3, <1>11, <3>1
        <5>2. <<b>> \o <<f>> \o Below = <<b>> \o (<<f>> \o Below)
          BY <1>4, <2>1, <2>4, <3>1, PushTwo
        <5> QED BY <2>2, <5>1, <5>2
      <4>2. \A g \in Range(mid) : Held(b) \cap Held(g) = {}
        BY <1>4, <1>5, <2>1, <2>3, <2>4, <3>1
      <4> QED BY <2>3, <2>4, <2>5, <3>1, <4>1, <4>2, PushFacts, StillPush, ApartPush
    <3>2. CASE item \notin Anims
      <4>1. frames' = <<>> \o <<f>> \o Below
        BY <1>3, <1>11, <3>2
      <4>2. <<>> \o <<f>> = <<f>>
        BY <2>1
      <4> QED BY <2>2, <2>3, <2>5, <3>2, <4>1, <4>2
    <3> QED BY <3>1, <3>2
  <2>7. data' = data
    BY <1>3, <1>11
  <2>8. \A g \in N : Held(g) \subseteq Held(Top) /\ FrameOK(g) /\ g.code \in {"begin", "finish"}
    BY <1>5, <2>1, <2>4, <2>5
  <2>9. QueueOK(e, data[e].queue)'
    <3>1. \A g \in Range(frames') : Held(g) \cap Range(data[e].queue) = {}
      BY <1>4, <1>7, <2>6, <2>8 DEF QueueOK
    <3> QED BY <1>3, <1>7, <2>7, <3>1 DEF QueueOK, Asked
  <2>10. DatumOK(e, data[e])'
    <3>1. DequeueFrame(e).code = "dequeue"
      BY DEF DequeueFrame
    <3>2. DequeueFrame(e) \in Range(frames) => DequeueFrame(e) \in Range(frames')
      BY <1>3, <1>4, <2>6, <3>1
    <3>3. \E g \in Range(frames') : g.code = "finish" /\ g.elem = e
      BY <2>1, <2>5, <2>6
    <3> QED BY <1>3, <1>6, <1>7, <2>7, <3>2, <3>3 DEF DatumOK
  <2>0. \A x \in Elems : (\E a \in Held(Top) : target[a] = x) => Wakes(x)'
    <3> SUFFICES ASSUME NEW x \in Elems, NEW a \in Held(Top), target[a] = x PROVE Wakes(x)'
      OBVIOUS
    <3>1. a \in Held(f) \/ (a = item /\ item \in Anims)
      BY <1>5, <2>1
    <3>2. CASE a \in Held(f)
      <4>1. f \in Range(frames') /\ LeadsTo(f, x)'
        BY <1>3, <2>1, <2>5, <2>6, <3>2 DEF LeadsTo
      <4> QED BY <4>1 DEF Wakes
    <3>3. CASE a = item /\ item \in Anims
      <4>1. b \in Range(frames') /\ LeadsTo(b, x)'
        BY <1>3, <2>4, <2>5, <2>6, <3>3 DEF LeadsTo
      <4> QED BY <4>1 DEF Wakes
    <3> QED BY <3>1, <3>2, <3>3
  <2>11. ~threw /\ Due(e)' => Wakes(e)'
    <3>1. Due(e)' => Due(e)
      BY <1>3, <2>7 DEF Due
    <3>2. \A g \in Range(frames) : LeadsTo(g, e) => g \in Range(frames') \/ Wakes(e)'
      BY <1>5, <1>9, <2>0, <2>6
    <3> QED BY <1>3, <1>5, <3>1, <3>2, WakesStay
  <2>12. PromiseInv'
    BY <1>3, <1>4, <2>6, <2>7, <2>8, WaitersKept
  <2>13. /\ \A g \in N : FrameOK(g)
         /\ Range(frames') \subseteq N \cup Range(frames)
         /\ \A g \in Range(frames) : g.code \in {"fire", "attach", "splice"} => g \in Range(frames')
         /\ \A x \in Elems : \A g \in Range(frames) : x # e /\ LeadsTo(g, x) =>
               g \in Range(frames') \/ (g.code = "finish" /\ Wakes(x)')
         /\ \A x \in Elems : x # e => \A g \in Range(frames) : g.code = "finish" /\ g.elem = x =>
               \E k \in Range(frames') : k.code = "finish" /\ k.elem = x
         /\ \A g \in N : \A a \in Held(g) : \/ a \in Anims /\ target[a] = e
                                            \/ \E k \in Range(frames) : a \in Held(k)
    BY <1>1, <1>3, <1>4, <1>9, <2>0, <2>6, <2>8
  <2>14. /\ data' \in [Elems -> Datum] /\ (On("dequeue") => Top.elem = e)
         /\ \A x \in Elems : x # e => data'[x] = data[x] /\ timeouts'[x] = timeouts[x]
    BY <1>6, <1>7, <1>8, <2>7
  <2> HIDE <1>4, <1>7, <1>8, <2>7, <2>8
  <2>15. /\ e \in Elems /\ calls' \in 0 .. MaxCalls /\ dropped' \in SUBSET Counted /\ forgotten' \in SUBSET Elems
         /\ timeouts' \in [Elems -> Nat] /\ \A x \in Elems : x # e => (x \in forgotten' <=> x \in forgotten)
         /\ UNCHANGED <<lists, state, made, remaining, threw, timers, interval, target, instant,
                        stopped, lost>>
         /\ UNCHANGED <<parts, functions, registered, follows, called>>
         /\ frames' \in Seq(Frames) /\ Calm(frames') /\ Apart(frames')
    BY <1>3, <1>5, <1>8, <2>6
  <2>30. QueueTurns(e, N)
    BY <1>6, <2>9, <2>10, <2>11, <2>12, <2>13, <2>14, <2>15 DEF QueueTurns
  <2> QED BY <2>30, QueueStep
<1> QED BY <1>10, <1>11

\* remove() takes the data of e away.
LEMMA CleanDataKeeps == ASSUME NEW e \in Elems PROVE EffectsInv /\ CleanData(e) => EffectsInv'
<1> SUFFICES ASSUME EffectsInv, CleanData(e) PROVE EffectsInv'
  OBVIOUS
<1>1. /\ PageCalls /\ data' = [data EXCEPT ![e] = NoData] /\ frames' = frames
      /\ dropped' = dropped \cup Range(data[e].waiters)
      /\ UNCHANGED <<parts, functions, registered, state, follows, called, lists, made, remaining>>
      /\ UNCHANGED <<threw, timers, interval, timeouts, target, instant, stopped, lost>>
      /\ forgotten' = forgotten \ {e}
  BY DEF CleanData, stillVars
<1>2. ~On("fire") /\ ~On("dequeue") /\ frames \in Seq(Frames)
  BY <1>1, PageTop DEF EffectsInv, PageCalls
<1>3. /\ data \in [Elems -> Datum] /\ data[e].waiters \in Seq(Counted)
  BY DatumOf
<1>4. PICK d, N : d = NoData /\ N = {}
  OBVIOUS
<1>5. /\ d \in Datum /\ d.queue = <<>> /\ ~d.hooks /\ d.stop = "none" /\ d.waiters = <<>> /\ ~d.finish
  <2>1. <<>> \in Seq(Items) /\ <<>> \in Seq(Counted)
    OBVIOUS
  <2> QED BY <1>4, <2>1 DEF NoData, Datum
<1>6. /\ data' \in [Elems -> Datum] /\ \A x \in Elems : x # e => data'[x] = data[x]
      /\ data'[e] = d
  BY <1>1, <1>3, <1>4, <1>5
<1>7. QueueOK(e, data[e].queue)'
  BY <1>5, <1>6, EmptyQueue DEF QueueOK
<1>8. DatumOK(e, data[e])'
  BY <1>5, <1>6, EmptyQueue DEF DatumOK, Distinct
<1>9. ~Due(e)'
  BY <1>5, <1>6, EmptyQueue DEF Due
<1>10. PromiseInv'
  <2> SUFFICES ASSUME NEW p \in Counted PROVE PromiseOK(p)'
    BY DEF PromiseInv
  <2>1. PromiseOK(p)
    BY DEF EffectsInv, PromiseInv
  <2>2. Told(p)' <=> Told(p)
    BY <1>1 DEF Told
  <2>3. p \notin dropped' => Waits(p)' = Waits(p)
    BY <1>1, <1>5, <1>6, EmptyQueue DEF Waits
  <2> QED BY <1>1, <2>1, <2>2, <2>3 DEF PromiseOK
<1>11. /\ calls' \in 0 .. MaxCalls /\ dropped' \in SUBSET Counted /\ forgotten' \in SUBSET Elems /\ timeouts' \in [Elems -> Nat]
       /\ \A x \in Elems : timeouts'[x] = timeouts[x]
       /\ \A x \in Elems : x # e => (x \in forgotten' <=> x \in forgotten)
  BY <1>1, <1>3, CallsBound, RangeType DEF EffectsInv, TypeInv, EffectTypes
<1>12. Calm(frames') /\ Apart(frames') /\ \A f \in N : FrameOK(f) /\ Held(f) = {}
  BY <1>1, <1>4 DEF EffectsInv, StackInv
<1>30. QueueTurns(e, N)
  BY <1>1, <1>2, <1>6, <1>7, <1>8, <1>9, <1>10, <1>11, <1>12 DEF QueueTurns
<1> QED BY <1>30, QueueStep

\* What dequeue finds in the queue q behind the sentinel.
LeftOf(q) == IF Sentinel(q) THEN Tail(q) ELSE q

LEMMA LeftFacts ==
    ASSUME NEW q \in Seq(Items), NEW e, QueueOK(e, q), NEW left, left = LeftOf(q)
    PROVE  /\ left \in Seq(Items) /\ Range(left) \subseteq Range(q) /\ Once(left)
           /\ "inprogress" \notin Range(left)
<1>1. CASE Sentinel(q)
  <2>1. q # <<>> /\ left = Tail(q)
    BY <1>1 DEF LeftOf, Sentinel
  <2>2. left \in Seq(Items) /\ Range(q) = {Head(q)} \cup Range(left)
    BY <2>1, PopFacts
  <2>3. \A i \in DOMAIN left : i + 1 \in DOMAIN q /\ left[i] = q[i + 1]
    BY <2>1, PopFacts
  <2>4. \A i \in DOMAIN left : i \in Nat /\ i >= 1
    BY <2>2
  <2>5. Once(left)
    <3> SUFFICES ASSUME NEW i \in DOMAIN left, NEW j \in DOMAIN left, left[i] = left[j],
                        left[i] \in Anims
                 PROVE  i = j
      BY DEF Once
    <3>1. i + 1 = j + 1
      BY <2>3 DEF QueueOK, Once
    <3> QED BY <2>4, <3>1
  <2>6. "inprogress" \notin Range(left)
    <3> SUFFICES ASSUME NEW i \in DOMAIN left, left[i] = "inprogress" PROVE FALSE
      BY DEF Range
    <3>1. i + 1 = 1
      BY <2>3 DEF QueueOK
    <3> QED BY <2>4, <3>1
  <2> QED BY <2>2, <2>5, <2>6
<1>2. CASE ~Sentinel(q)
  <2>1. left = q
    BY <1>2 DEF LeftOf
  <2>2. "inprogress" \notin Range(left)
    <3> SUFFICES ASSUME NEW i \in DOMAIN q, q[i] = "inprogress" PROVE FALSE
      BY <2>1 DEF Range
    <3>1. i = 1
      BY DEF QueueOK
    <3>2. q # <<>> /\ Head(q) = "inprogress"
      BY <3>1
    <3> QED BY <1>2, <3>2 DEF Sentinel
  <2> QED BY <2>1, <2>2 DEF QueueOK
<1> QED BY <1>1, <1>2

\* The queue after dequeue has taken its first item.
LEMMA TakenFacts ==
    ASSUME NEW left \in Seq(Items), left # <<>>, Once(left), "inprogress" \notin Range(left),
           NEW s, s = <<"inprogress">> \o Tail(left)
    PROVE  /\ s \in Seq(Items) /\ Sentinel(s) /\ Once(s) /\ s # <<>>
           /\ \A i \in DOMAIN s : i # 1 => s[i] # "inprogress"
           /\ Range(s) \cap Anims \subseteq Range(left)
           /\ Head(left) \in Range(left) /\ Head(left) \in Anims \cup {"delay"}
           /\ Head(left) \in Anims => Head(left) \notin Range(s)
<1>1. PICK t, fn : t = Tail(left) /\ fn = Head(left)
  OBVIOUS
<1>2. /\ fn \in Items /\ t \in Seq(Items) /\ 1 \in DOMAIN left /\ left[1] = fn
      /\ Range(left) = {fn} \cup Range(t)
      /\ \A i \in DOMAIN t : i + 1 \in DOMAIN left /\ t[i] = left[i + 1]
  <2>1. Head(left) \in Items /\ Tail(left) \in Seq(Items) /\ 1 \in DOMAIN left /\ left[1] = Head(left)
    BY PopFacts
  <2>2. Range(left) = {Head(left)} \cup Range(Tail(left))
    BY PopFacts
  <2>3. \A i \in DOMAIN Tail(left) : i + 1 \in DOMAIN left /\ Tail(left)[i] = left[i + 1]
    BY PopFacts
  <2> QED BY <1>1, <2>1, <2>2, <2>3
<1>3. "inprogress" \in Items
  BY DEF Items
<1>4. PICK w : w = "inprogress"
  OBVIOUS
<1>5. s = <<w>> \o t /\ w \in Items
  BY <1>1, <1>3, <1>4
<1>6. /\ s \in Seq(Items) /\ s # <<>> /\ Head(s) = w /\ Range(s) = {w} \cup Range(t) /\ s[1] = w
      /\ \A i \in DOMAIN s : i # 1 => i - 1 \in DOMAIN t /\ s[i] = t[i - 1]
  <2>1. /\ <<w>> \o t \in Seq(Items) /\ <<w>> \o t # <<>> /\ Head(<<w>> \o t) = w
        /\ (<<w>> \o t)[1] = w
    BY <1>2, <1>5, PushFacts
  <2>2. Range(<<w>> \o t) = {w} \cup Range(t)
    BY <1>2, <1>5, PushFacts
  <2>3. \A i \in DOMAIN (<<w>> \o t) : i # 1 => i - 1 \in DOMAIN t /\ (<<w>> \o t)[i] = t[i - 1]
    BY <1>2, <1>5, PushFacts
  <2> QED BY <1>5, <2>1, <2>2, <2>3
<1>7. \A i \in DOMAIN s : i \in Nat /\ i >= 1
  BY <1>6
<1>8. \A i \in DOMAIN s : i # 1 => i \in DOMAIN left /\ s[i] = left[i]
  BY <1>2, <1>6, <1>7
<1>9. Once(s)
  <2> SUFFICES ASSUME NEW i \in DOMAIN s, NEW j \in DOMAIN s, s[i] = s[j], s[i] \in Anims
               PROVE  i = j
    BY DEF Once
  <2>1. i # 1 /\ j # 1
    BY <1>4, <1>6, Names
  <2> QED BY <1>8, <2>1 DEF Once
<1>10. \A i \in DOMAIN s : i # 1 => s[i] # "inprogress"
  BY <1>8 DEF Range
<1>11. Range(s) \cap Anims \subseteq Range(left)
  BY <1>2, <1>4, <1>6, Names
<1>12. fn \in Anims => fn \notin Range(s)
  <2> SUFFICES ASSUME fn \in Anims, NEW i \in DOMAIN s, s[i] = fn PROVE FALSE
    BY DEF Range
  <2>1. i # 1
    BY <1>4, <1>6, Names
  <2> QED BY <1>2, <1>8, <2>1 DEF Once
<1>13. fn \in Range(left) /\ fn \in Anims \cup {"delay"}
  BY <1>2 DEF Items
<1> QED BY <1>1, <1>4, <1>6, <1>9, <1>10, <1>11, <1>12, <1>13 DEF Sentinel

\* One element less to wait for.
LEMMA OneLess ==
    ASSUME NEW e \in Elems, NEW S \in SUBSET Elems
    PROVE  /\ IsFiniteSet(S) /\ Cardinality(S) \in Nat
           /\ e \in S => Cardinality(S \ {e}) = Cardinality(S) - 1
<1>1. IsFiniteSet(S)
  BY EffectsAssumption, FS_Subset
<1> QED BY <1>1, FS_CardinalityType, FS_RemoveElement

\* dequeue of an empty queue.
LEMMA DequeueEmpty ==
    ASSUME EffectsInv, Dequeue, LeftOf(data[Top.elem].queue) = <<>>
    PROVE  EffectsInv'
<1>1. PICK e, w : e = Top.elem /\ w = data[e].waiters
  OBVIOUS
<1>2. PICK f, N : f = EmptyFrame(w) /\ N = {f}
  OBVIOUS
<1>3. /\ frames # <<>> /\ Top.code = "dequeue" /\ frames' = <<f>> \o Below
      /\ data' = [data EXCEPT ![e] = [NoData EXCEPT !.finish = data[e].finish]]
      /\ timeouts' = [timeouts EXCEPT ![e] = @]
      /\ UNCHANGED <<parts, functions, registered, state, follows, called, lists, made, remaining>>
      /\ UNCHANGED <<threw, timers, interval, target, instant, stopped, calls, lost, dropped>>
      /\ forgotten' = forgotten \ {e}
  BY <1>1, <1>2 DEF Dequeue, On, stillVars, LeftOf
<1>4. /\ Top \in Frames /\ Below \in Seq(Frames) /\ Still(Below) /\ Apart(Below) /\ Still(frames)
      /\ Range(frames) = {Top} \cup Range(Below)
  BY <1>3, TopFacts DEF EffectsInv, Delicate
<1>5. e \in Elems
  BY <1>1, <1>3, <1>4, FrameParts
<1>6. /\ data \in [Elems -> Datum] /\ data[e] \in Datum /\ w \in Seq(Counted)
      /\ data[e].finish \in BOOLEAN /\ timeouts \in [Elems -> Nat]
      /\ QueueOK(e, data[e].queue) /\ DatumOK(e, data[e])
  BY <1>1, <1>5, DatumOf
<1>7. f \in Frames /\ f.code = "empty" /\ f.waiters = w /\ FrameOK(f) /\ Held(f) = {}
  <2>1. f \in Frames /\ f.code = "empty" /\ f.waiters = w
    BY <1>2, <1>6, FrameTypes DEF EmptyFrame
  <2>2. Range(w) \subseteq made /\ Distinct(w)
    BY <1>1, <1>6 DEF DatumOK
  <2> QED BY <2>1, <2>2, HeldFacts DEF FrameOK
<1>8. /\ frames' \in Seq(Frames) /\ Calm(frames') /\ Apart(frames')
      /\ Range(frames') = {f} \cup Range(Below)
  BY <1>3, <1>4, <1>7, PushFacts, StillPush, ApartPush
<1>9. PICK d, b : b = data[e].finish /\ d = [NoData EXCEPT !.finish = b]
  OBVIOUS
<1>10. /\ d \in Datum /\ d.queue = <<>> /\ d.hooks = FALSE /\ d.stop = "none" /\ d.waiters = <<>>
       /\ d.finish = data[e].finish
  <2>1. <<>> \in Seq(Items) /\ <<>> \in Seq(Counted) /\ b \in BOOLEAN
    BY <1>6, <1>9
  <2>2. d = [queue |-> <<>>, hooks |-> FALSE, stop |-> "none", waiters |-> <<>>, finish |-> b]
    BY <1>9 DEF NoData
  <2>3. /\ d.queue = <<>> /\ d.hooks = FALSE /\ d.stop = "none" /\ d.waiters = <<>> /\ d.finish = b
    BY <2>2
  <2>4. d \in Datum
    BY <2>1, <2>2 DEF Datum
  <2>5. data[e].finish = b
    BY <1>9
  <2> QED BY <2>3, <2>4, <2>5
<1>11. /\ data' \in [Elems -> Datum] /\ \A x \in Elems : x # e => data'[x] = data[x]
       /\ data'[e] = d
  <2>1. data' = [data EXCEPT ![e] = d]
    BY <1>3, <1>9
  <2> QED BY <1>5, <1>6, <1>10, <2>1
<1>12. timeouts' = timeouts
  BY <1>3, <1>6
<1>13. QueueOK(e, data[e].queue)'
  BY <1>5, <1>10, <1>11, EmptyQueue DEF QueueOK
<1>14. DatumOK(e, data[e])'
  <2>1. ~threw' /\ d.finish => \E g \in Range(frames') : g.code = "finish" /\ g.elem = e
    BY <1>3, <1>4, <1>6, <1>8, <1>10 DEF DatumOK
  <2> QED BY <1>10, <1>11, <2>1, EmptyQueue DEF DatumOK, Distinct
<1>15. ~Due(e)'
  BY <1>10, <1>11, EmptyQueue DEF Due
<1>16. PromiseInv'
  <2> SUFFICES ASSUME NEW p \in Counted PROVE PromiseOK(p)'
    BY DEF PromiseInv
  <2>1. PromiseOK(p) /\ ~Told(p)
    BY <1>4, NobodyTold DEF EffectsInv, PromiseInv
  <2>2. Told(p)' <=> p \in Range(w)
    <3>1. \A g \in Range(Below) : g.code # "empty"
      BY <1>4 DEF Still, Delicate, Range
    <3> QED BY <1>7, <1>8, <3>1 DEF Told
  <2>3. Waits(p)' = Waits(p) \ {e} /\ (e \in Waits(p) <=> p \in Range(w))
    BY <1>1, <1>5, <1>10, <1>11, EmptyQueue DEF Waits
  <2>4. PICK S : S = Waits(p)
    OBVIOUS
  <2>5. S \in SUBSET Elems
    BY <2>4 DEF Waits
  <2>6. /\ Cardinality(S) \in Nat
        /\ e \in S => Cardinality(S \ {e}) = Cardinality(S) - 1
        /\ e \notin S => S \ {e} = S
    BY <1>5, <2>5, OneLess
  <2>7. p \in made \ dropped => remaining[p] = Cardinality(S)
    <3>1. Waits(p) = S /\ Cardinality(S) + 0 = Cardinality(S)
      BY <2>4, <2>6
    <3> QED BY <2>1, <3>1 DEF PromiseOK
  <2>8. Cardinality(Waits(p)') + (IF Told(p)' THEN 1 ELSE 0) = Cardinality(S)
    <3>1. CASE p \in Range(w)
      <4>1. Told(p)' /\ e \in S /\ Waits(p)' = S \ {e}
        BY <2>2, <2>3, <2>4, <3>1
      <4> QED BY <2>6, <4>1
    <3>2. CASE p \notin Range(w)
      <4>1. ~Told(p)' /\ Waits(p)' = S
        BY <2>2, <2>3, <2>4, <2>6, <3>2
      <4> QED BY <2>6, <4>1
    <3> QED BY <3>1, <3>2
  <2> QED BY <1>3, <2>1, <2>7, <2>8 DEF PromiseOK
<1>17. calls' \in 0 .. MaxCalls /\ dropped' \in SUBSET Counted /\ forgotten' \in SUBSET Elems /\ timeouts' \in [Elems -> Nat]
  BY <1>3, <1>6, <1>12 DEF EffectsInv, TypeInv, EffectTypes
<1>18. /\ \A g \in N : FrameOK(g)
       /\ \A g \in N : \A a \in Held(g) : \/ a \in Anims /\ target[a] = e
                                          \/ \E k \in Range(frames) : a \in Held(k)
       /\ Range(frames') \subseteq N \cup Range(frames)
       /\ \A g \in Range(frames) : g.code \in {"fire", "attach", "splice"} => g \in Range(frames')
       /\ \A x \in Elems : x # e => \A g \in Range(frames) : g.code = "finish" /\ g.elem = x =>
             \E k \in Range(frames') : k.code = "finish" /\ k.elem = x
       /\ \A x \in Elems : x # e => data'[x] = data[x] /\ timeouts'[x] = timeouts[x]
       /\ On("dequeue") => Top.elem = e
       /\ \A x \in Elems : x # e => (x \in forgotten' <=> x \in forgotten)
       /\ ~On("fire")
  BY <1>1, <1>2, <1>3, <1>4, <1>7, <1>8, <1>11, <1>12 DEF On
<1>19. \A x \in Elems : \A g \in Range(frames) : x # e /\ LeadsTo(g, x) => g \in Range(frames')
  BY <1>1, <1>3, <1>4, <1>8 DEF LeadsTo
<1>20. data' \in [Elems -> Datum] /\ frames' \in Seq(Frames) /\ Calm(frames') /\ Apart(frames')
       /\ (~threw /\ Due(e)' => Wakes(e)')
  BY <1>8, <1>11, <1>15
<1>21. /\ UNCHANGED <<lists, state, made, remaining, threw, timers, interval, target, instant,
                      stopped, lost>>
       /\ UNCHANGED <<parts, functions, registered, follows, called>>
  BY <1>3
<1> HIDE <1>1, <1>2, <1>3, <1>4, <1>6, <1>7
<1>30. QueueTurns(e, N)
  BY <1>5, <1>21, <1>13, <1>14, <1>15, <1>16, <1>17, <1>18, <1>19, <1>20 DEF QueueTurns
<1> QED BY <1>30, QueueStep

\* dequeue of a queue that holds another item: an animation begins, or a timeout runs.
LEMMA DequeueItem ==
    ASSUME EffectsInv, Dequeue, LeftOf(data[Top.elem].queue) # <<>>
    PROVE  EffectsInv'
<1>1. PICK e, q, left, s, fn : /\ e = Top.elem /\ q = data[e].queue /\ left = LeftOf(q)
                               /\ s = <<"inprogress">> \o Tail(left) /\ fn = Head(left)
  OBVIOUS
<1>2. PICK b, v, delay, n : /\ b = BeginFrame(fn) /\ delay = (fn = "delay")
                            /\ v = (IF delay THEN "runs" ELSE "none")
                            /\ n = (IF delay THEN timeouts[e] + 1 ELSE timeouts[e])
  OBVIOUS
<1>3. /\ frames # <<>> /\ Top.code = "dequeue" /\ left # <<>>
      /\ frames' = (IF delay THEN <<>> ELSE <<b>>) \o Below
      /\ data' = [data EXCEPT ![e].queue = s, ![e].hooks = TRUE, ![e].stop = v]
      /\ timeouts' = [timeouts EXCEPT ![e] = n]
      /\ UNCHANGED <<parts, functions, registered, state, follows, called, lists, made, remaining>>
      /\ UNCHANGED <<threw, timers, interval, target, instant, stopped, calls, lost, dropped>>
      /\ forgotten' = forgotten \ {e}
  BY <1>1, <1>2 DEF Dequeue, On, stillVars, LeftOf
<1>4. /\ Top \in Frames /\ Below \in Seq(Frames) /\ Still(Below) /\ Calm(Below) /\ Apart(Below)
      /\ Range(frames) = {Top} \cup Range(Below)
  BY <1>3, TopFacts DEF EffectsInv
<1>5. e \in Elems
  BY <1>1, <1>3, <1>4, FrameParts
<1>6. /\ data \in [Elems -> Datum] /\ data[e] \in Datum /\ q \in Seq(Items)
      /\ timeouts \in [Elems -> Nat] /\ timeouts[e] \in Nat
      /\ QueueOK(e, q) /\ DatumOK(e, data[e])
  BY <1>1, <1>5, DatumOf
<1>7. /\ left \in Seq(Items) /\ Range(left) \subseteq Range(q) /\ Once(left)
      /\ "inprogress" \notin Range(left)
  BY <1>1, <1>6, LeftFacts
<1>8. /\ s \in Seq(Items) /\ Sentinel(s) /\ Once(s) /\ s # <<>>
      /\ \A i \in DOMAIN s : i # 1 => s[i] # "inprogress"
      /\ Range(s) \cap Anims \subseteq Range(left)
      /\ fn \in Range(left) /\ fn \in Anims \cup {"delay"}
      /\ fn \in Anims => fn \notin Range(s)
  <2>1. /\ left \in Seq(Items) /\ left # <<>> /\ Once(left) /\ "inprogress" \notin Range(left)
        /\ s = <<"inprogress">> \o Tail(left)
    BY <1>1, <1>3, <1>7
  <2>2. /\ s \in Seq(Items) /\ Sentinel(s) /\ Once(s) /\ s # <<>>
        /\ \A i \in DOMAIN s : i # 1 => s[i] # "inprogress"
        /\ Range(s) \cap Anims \subseteq Range(left)
        /\ Head(left) \in Range(left) /\ Head(left) \in Anims \cup {"delay"}
        /\ Head(left) \in Anims => Head(left) \notin Range(s)
    BY <2>1, TakenFacts
  <2> QED BY <1>1, <2>2
<1>9. ~delay => fn \in Anims
  BY <1>2, <1>8
<1>10. \A a \in Range(q) \cap Anims : a \in Asked \ made /\ target[a] = e
  BY <1>6 DEF QueueOK, Range
<1>11. ~delay => /\ b \in Frames /\ b.code = "begin" /\ b.anim = fn /\ Held(b) = {fn} /\ FrameOK(b)
                 /\ fn \in Anims /\ target[fn] = e
  <2> SUFFICES ASSUME ~delay
               PROVE  /\ b \in Frames /\ b.code = "begin" /\ b.anim = fn /\ Held(b) = {fn}
                      /\ FrameOK(b) /\ fn \in Anims /\ target[fn] = e
    OBVIOUS
  <2>1. b \in Frames /\ b.code = "begin" /\ b.anim = fn
    BY <1>2, <1>9, FrameTypes DEF BeginFrame
  <2>2. fn \in Asked \ made /\ target[fn] = e
    BY <1>7, <1>8, <1>9, <1>10
  <2> QED BY <1>9, <2>1, <2>2, HeldFacts DEF FrameOK
<1>12. PICK N : N = IF delay THEN {} ELSE {b}
  OBVIOUS
<1>13. /\ frames' \in Seq(Frames) /\ Calm(frames') /\ Apart(frames')
       /\ Range(frames') = N \cup Range(Below)
  <2>1. CASE delay
    <3>1. frames' = <<>> \o Below
      BY <1>3, <2>1
    <3>2. <<>> \o Below = Below
      BY <1>4
    <3> QED BY <1>4, <1>12, <2>1, <3>1, <3>2
  <2>2. CASE ~delay
    <3>1. frames' = <<b>> \o Below
      BY <1>3, <2>2
    <3>2. \A g \in Range(Below) : Held(b) \cap Held(g) = {}
      BY <1>4, <1>6, <1>7, <1>8, <1>11, <2>2 DEF QueueOK
    <3> QED BY <1>4, <1>11, <1>12, <2>2, <3>1, <3>2, PushFacts, StillPush, ApartPush
  <2> QED BY <2>1, <2>2
<1>14. PICK d : d = [data[e] EXCEPT !.queue = s, !.hooks = TRUE, !.stop = v]
  OBVIOUS
<1>15. /\ d \in Datum /\ d.queue = s /\ d.hooks = TRUE /\ d.stop = v
       /\ d.waiters = data[e].waiters /\ d.finish = data[e].finish
  BY <1>2, <1>6, <1>8, <1>14 DEF Datum
<1>16. /\ data' \in [Elems -> Datum] /\ \A x \in Elems : x # e => data'[x] = data[x]
       /\ data'[e] = d /\ \A x \in Elems : data'[x].waiters = data[x].waiters
  <2>1. data' = [data EXCEPT ![e] = d]
    BY <1>3, <1>6, <1>14
  <2> QED BY <1>5, <1>6, <1>15, <2>1
<1>17. /\ timeouts' \in [Elems -> Nat] /\ (delay => timeouts'[e] > 0)
       /\ \A x \in Elems : x # e => timeouts'[x] = timeouts[x]
  <2>1. n \in Nat /\ (delay => n > 0)
    BY <1>2, <1>6
  <2> QED BY <1>3, <1>5, <1>6, <2>1
<1>18. QueueOK(e, data[e].queue)'
  <2>1. \A i \in DOMAIN s : s[i] \in Anims => s[i] \in Asked \ made /\ target[s[i]] = e
    BY <1>7, <1>8, <1>10 DEF Range
  <2>2. \A g \in Range(frames') : Held(g) \cap Range(s) = {}
    <3> SUFFICES ASSUME NEW g \in Range(frames'), NEW a \in Held(g), a \in Range(s) PROVE FALSE
      OBVIOUS
    <3>1. CASE g \in N
      BY <1>8, <1>11, <1>12, <3>1
    <3>2. CASE g \in Range(Below)
      <4>1. Held(g) \cap Range(q) = {}
        BY <1>4, <1>6, <3>2 DEF QueueOK
      <4>2. a \notin Anims
        BY <1>7, <1>8, <4>1
      <4>3. g \in Frames
        BY <1>4, <3>2, RangeType
      <4>4. CASE g.code = "begin"
        BY <4>2, <4>3, <4>4, HeldFacts, FrameParts
      <4>5. CASE g.code = "finish"
        BY <4>2, <4>3, <4>5, HeldFacts
      <4> QED BY <4>3, <4>4, <4>5, HeldFacts
    <3> QED BY <1>13, <3>1, <3>2
  <2> QED BY <1>3, <1>8, <1>15, <1>16, <2>1, <2>2 DEF QueueOK, Asked
<1>19. DatumOK(e, data[e])'
  <2>1. ~threw' /\ d.finish => \E g \in Range(frames') : g.code = "finish" /\ g.elem = e
    BY <1>3, <1>4, <1>6, <1>13, <1>15 DEF DatumOK
  <2>2. d.stop = "runs" => timeouts'[e] > 0
    BY <1>2, <1>15, <1>17
  <2>3. Range(d.waiters) \subseteq made' /\ Distinct(d.waiters)
    BY <1>3, <1>6, <1>15 DEF DatumOK
  <2> QED BY <1>8, <1>15, <1>16, <2>1, <2>2, <2>3 DEF DatumOK
<1>20. Wakes(e)'
  <2>1. CASE delay
    BY <1>17, <2>1 DEF Wakes
  <2>2. CASE ~delay
    <3>1. b \in Range(frames') /\ target'[b.anim] = e /\ b.code = "begin"
      BY <1>3, <1>11, <1>12, <1>13, <2>2
    <3>2. LeadsTo(b, e)'
      BY <3>1 DEF LeadsTo
    <3> QED BY <3>1, <3>2 DEF Wakes
  <2> QED BY <2>1, <2>2
<1>21. PromiseInv'
  <2>1. \A g \in Range(frames') \cup Range(frames) :
              g.code = "empty" => g \in Range(frames') /\ g \in Range(frames)
    BY <1>3, <1>4, <1>11, <1>12, <1>13
  <2> QED BY <1>3, <1>16, <2>1, WaitersKept
<1>22. calls' \in 0 .. MaxCalls /\ dropped' \in SUBSET Counted /\ forgotten' \in SUBSET Elems
  BY <1>3 DEF EffectsInv, TypeInv, EffectTypes
<1>23. /\ \A g \in N : FrameOK(g)
       /\ \A g \in N : \A a \in Held(g) : \/ a \in Anims /\ target[a] = e
                                          \/ \E k \in Range(frames) : a \in Held(k)
       /\ Range(frames') \subseteq N \cup Range(frames)
       /\ \A g \in Range(frames) : g.code \in {"fire", "attach", "splice"} => g \in Range(frames')
       /\ \A x \in Elems : x # e => \A g \in Range(frames) : g.code = "finish" /\ g.elem = x =>
             \E k \in Range(frames') : k.code = "finish" /\ k.elem = x
       /\ \A x \in Elems : x # e => data'[x] = data[x] /\ timeouts'[x] = timeouts[x]
       /\ On("dequeue") => Top.elem = e
       /\ \A x \in Elems : x # e => (x \in forgotten' <=> x \in forgotten)
       /\ ~On("fire")
  <2>1. \A g \in N : FrameOK(g)
    BY <1>11, <1>12
  <2>2. \A g \in N : \A a \in Held(g) : \/ a \in Anims /\ target[a] = e
                                        \/ \E k \in Range(frames) : a \in Held(k)
    BY <1>11, <1>12
  <2>3. \A g \in Range(frames) : g.code # "dequeue" => g \in Range(frames')
    BY <1>1, <1>3, <1>4, <1>13
  <2>4. Range(frames') \subseteq N \cup Range(frames)
    BY <1>4, <1>13
  <2>5. \A x \in Elems : x # e => data'[x] = data[x] /\ timeouts'[x] = timeouts[x]
    BY <1>1, <1>3, <1>4, <1>16, <1>17
  <2>6. (On("dequeue") => Top.elem = e) /\ ~On("fire")
    BY <1>1, <1>3, <1>4 DEF On
  <2>7. \A x \in Elems : x # e => (x \in forgotten' <=> x \in forgotten)
    BY <1>3
  <2> QED BY <2>1, <2>2, <2>3, <2>4, <2>5, <2>6, <2>7
<1>24. \A x \in Elems : \A g \in Range(frames) : x # e /\ LeadsTo(g, x) => g \in Range(frames')
  BY <1>1, <1>3, <1>4, <1>13 DEF LeadsTo
<1>25. data' \in [Elems -> Datum] /\ frames' \in Seq(Frames) /\ Calm(frames') /\ Apart(frames')
       /\ timeouts' \in [Elems -> Nat] /\ (~threw /\ Due(e)' => Wakes(e)')
  BY <1>13, <1>16, <1>17, <1>20
<1>26. /\ UNCHANGED <<lists, state, made, remaining, threw, timers, interval, target, instant,
                      stopped, lost>>
       /\ UNCHANGED <<parts, functions, registered, follows, called>>
  BY <1>3
<1> HIDE <1>1, <1>2, <1>3, <1>4, <1>6, <1>7, <1>8
<1>30. QueueTurns(e, N)
  BY <1>5, <1>18, <1>19, <1>21, <1>22, <1>23, <1>24, <1>25, <1>26 DEF QueueTurns
<1> QED BY <1>30, QueueStep

\* dequeue.
LEMMA DequeueKeeps == EffectsInv /\ Dequeue => EffectsInv'
BY DequeueEmpty, DequeueItem

-----------------------------------------------------------------------------
(* Steps on promises.                                                      *)

\* What a frame holds are animations.
LEMMA HeldType ==
    ASSUME NEW f \in Frames
    PROVE  Held(f) \subseteq Anims
<1>1. CASE f.code = "begin"
  BY <1>1, HeldFacts, FrameParts
<1>2. CASE f.code = "finish"
  BY <1>2, HeldFacts
<1> QED BY <1>1, <1>2, HeldFacts

\* The promise p exists, and may settle, in code whose frames are then rest.
MovesPromise(p, id, rest) ==
    /\ p \in Counted /\ id = <<p, "done">> /\ rest \in Seq(Frames) /\ Calm(rest) /\ Apart(rest)
    /\ Still(rest) \/ (rest # <<>> /\ Still(Tail(rest)) /\ Settler(FireFrame(id), Head(rest)))
    /\ FireWith(lists, id, rest) \/ (lists' = lists /\ frames' = rest)
    /\ \A f \in Range(rest) :
          f \in Range(frames) \/ (/\ f.code = "empty" /\ Range(f.waiters) \subseteq made'
                                  /\ Distinct(f.waiters))
    /\ \A f \in Range(rest) : f.code # "attach"
    /\ \A f \in Range(frames) : f.code # "attach"
    /\ \A f \in Range(frames) : f.code # "empty" => f \in Range(rest)
    /\ UNCHANGED <<state, threw, timers, interval, timeouts, target, instant, stopped, lost>>
    /\ UNCHANGED <<parts, functions, registered, follows, called, dropped, forgotten>>
    /\ made' = made \cup {p} /\ calls' \in 0 .. MaxCalls /\ remaining' \in [Deferreds -> Int]
    /\ data' \in [Elems -> Datum]
    /\ \A x \in Elems : /\ data'[x].queue = data[x].queue /\ data'[x].hooks = data[x].hooks
                        /\ data'[x].stop = data[x].stop /\ data'[x].finish = data[x].finish
                        /\ ~data[x].hooks => data'[x].waiters = <<>>
                        /\ Range(data'[x].waiters) \subseteq made' /\ Distinct(data'[x].waiters)

LEMMA PromiseMoves ==
    ASSUME EffectsInv, ~On("fire"), ~On("dequeue"), NEW p, NEW id, NEW rest,
           MovesPromise(p, id, rest)
    PROVE  /\ TypeInv' /\ ListInv' /\ StackInv' /\ QueueInv' /\ AnimInv' /\ WakeInv'
           /\ \A x \in ListIds : x # id => lists'[x] = lists[x]
           /\ FireWith(lists, id, rest) /\ state[p] = "pending" => lists'[id].fired
           /\ Range(frames') \subseteq {FireFrame(id)} \cup Range(rest)
           /\ Range(rest) \subseteq Range(frames')
<1> USE DEF MovesPromise
<1>0. PICK N : N = Range(rest) \ Range(frames)
  OBVIOUS
<1>00. /\ \A f \in N : /\ f \in Frames /\ f.code = "empty"
                        /\ Range(f.waiters) \subseteq made' /\ Distinct(f.waiters)
       /\ Range(rest) \subseteq N \cup Range(frames)
  BY <1>0, RangeType
<1>1. /\ id \in ListIds /\ id \in Settling /\ id[1] = p /\ id[2] = "done" /\ p \in Deferreds
      /\ p \notin Anims
  BY Names
<1>2. TypeInv /\ ListInv /\ StackInv /\ QueueInv /\ AnimInv /\ WakeInv
  BY DEF EffectsInv
<1>3. PICK g : g = FireFrame(id)
  OBVIOUS
<1>4. g \in Frames /\ g.code = "fire" /\ g.list = id /\ Held(g) = {}
  <2>1. g \in Frames /\ g.code = "fire" /\ g.list = id
    BY <1>1, <1>3, FrameTypes DEF FireFrame
  <2> QED BY <2>1, HeldFacts
<1>5. \A f \in Range(frames) : f.code = "fire" => f \in Range(rest)
  OBVIOUS
<1>6. /\ frames' \in Seq(Frames) /\ ListsOK(lists') /\ ListInv'
      /\ \A x \in ListIds : x # id => lists'[x] = lists[x]
      /\ lists'[id].fns = lists[id].fns
      /\ lists[id].fired => lists'[id].fired
      /\ Range(frames') \subseteq {g} \cup Range(rest)
      /\ Range(rest) \subseteq Range(frames')
      /\ frames' = rest \/ (frames' = <<g>> \o rest /\ lists'[id].fired)
      /\ FireWith(lists, id, rest) /\ state[p] = "pending" => lists'[id].fired
  <2>1. CASE FireWith(lists, id, rest)
    <3>1. PICK ls : ls = lists
      OBVIOUS
    <3>2. ListsOK(ls) /\ (\A x \in ListIds : Good(x[2], ls[x], state[x[1]])) /\ FireWith(ls, id, rest)
          /\ \A x \in Settling : ls[x] = lists[x]
      BY <1>2, <2>1, <3>1 DEF TypeInv, ListInv
    <3>3. /\ frames' \in Seq(Frames) /\ ListsOK(lists') /\ ListInv'
          /\ \A x \in ListIds : x # id => lists'[x] = ls[x]
          /\ lists'[id].fns = ls[id].fns
          /\ ls[id].fired => lists'[id].fired
          /\ Fired(id, ls[id], rest)
          /\ Range(frames') \subseteq {FireFrame(id)} \cup Range(rest)
          /\ Range(rest) \subseteq Range(frames')
      <4>1. CanFire(ls, id, rest)
        BY <1>1, <1>2, <1>5, <3>2 DEF CanFire
      <4>2. HasFired(ls, id, rest)
        BY <4>1, FireMoves
      <4> QED BY <4>2 DEF HasFired
    <3>4. state[p] = "pending" => lists'[id].fired
      <4>1. Good("done", lists[id], state[p])
        BY <1>1, <1>2, ListOf
      <4>2. state[p] = "pending" => lists[id].on
        BY <4>1 DEF Good
      <4> QED BY <1>1, <3>1, <3>3, <4>2 DEF Fired
    <3>5. frames' = rest \/ (frames' = <<g>> \o rest /\ lists'[id].fired)
      BY <1>3, <3>3 DEF Fired
    <3> QED BY <1>3, <3>1, <3>3, <3>4, <3>5
  <2>2. CASE ~FireWith(lists, id, rest)
    <3>1. lists' = lists /\ frames' = rest
      BY <2>2
    <3>2. threw' \/ (~threw /\ \A f \in Range(frames) : f.code = "fire" => f \in Range(frames'))
      BY <1>2, <1>5, <3>1 DEF TypeInv, DeferredTypes
    <3>3. ListsOK(lists') /\ ListInv'
      BY <1>2, <3>1, <3>2, StayMoves
    <3> QED BY <2>2, <3>1, <3>3
  <2> QED BY <2>1, <2>2
<1>7. Asked' = Asked /\ (\A a \in Asked : target'[a] = target[a]) /\ made \subseteq made'
      /\ made' \cap Anims = made \cap Anims /\ made \cap Anims \subseteq Asked
  BY <1>1, <1>2 DEF Asked, TypeInv, EffectTypes
<1>8. \A x \in ListIds : lists[x].fired => lists'[x].fired
  BY <1>6
<1>9. /\ \A a \in Anims : <<a, "done">> # id /\ <<a, "fail">> # id /\ <<a, "done">> \in ListIds
                          /\ <<a, "fail">> \in ListIds
  BY <1>1, Names
<1>10. \A a \in Anims : lists'[<<a, "done">>] = lists[<<a, "done">>]
                        /\ lists'[<<a, "fail">>] = lists[<<a, "fail">>]
  BY <1>6, <1>9
<1>11. StackInv'
  <2>1. Calm(frames') /\ Apart(frames')
    BY <1>1, <1>3, <1>6, FiredStack
  <2>2. PICK M, O : M = N \cup (IF frames' = rest THEN {} ELSE {g}) /\ O = Range(frames) \cap Range(rest)
    OBVIOUS
  <2>3. Range(frames') \subseteq M \cup O
    BY <1>00, <1>6, <2>2
  <2>4. \A f \in M : FrameOK(f)'
    <3> SUFFICES ASSUME NEW f \in M PROVE FrameOK(f)'
      OBVIOUS
    <3>1. CASE f \in N
      BY <1>00, <3>1 DEF FrameOK
    <3>2. CASE f \notin N
      BY <1>4, <1>6, <2>2, <3>2 DEF FrameOK
    <3> QED BY <3>1, <3>2
  <2>5. \A f \in O : made' \cap Held(f) \subseteq made
    <3> SUFFICES ASSUME NEW f \in O PROVE made' \cap Held(f) \subseteq made
      OBVIOUS
    <3>1. f \in Frames
      BY <1>2, <2>2, RangeType DEF TypeInv
    <3> QED BY <1>1, <3>1, HeldType
  <2>6. /\ O \in SUBSET Range(frames)
        /\ \A f \in O : f.code = "attach" =>
              ~lists'[<<f.anim, "fail">>].fired /\ ~Completes(lists'[<<f.anim, "done">>])
        /\ \A a \in Anims : state[a] # "pending" => state'[a] # "pending"
    BY <2>2
  <2> QED BY <1>2, <1>7, <1>8, <2>1, <2>3, <2>4, <2>5, <2>6, StackKept
<1>12. QueueInv'
  <2> SUFFICES ASSUME NEW x \in Elems PROVE QueueOK(x, data[x].queue)' /\ DatumOK(x, data[x])'
    BY DEF QueueInv
  <2>1. QueueOK(x, data[x].queue) /\ DatumOK(x, data[x]) /\ data[x].queue \in Seq(Items)
    BY DatumOf
  <2>2. \A f \in Range(frames') : Held(f) = {} \/ f \in Range(frames)
    <3>1. \A f \in N : Held(f) = {}
      BY <1>00, HeldFacts
    <3> QED BY <1>00, <1>4, <1>6, <3>1
  <2>3. \A f \in Range(frames) : f.code \in {"dequeue", "finish"} => f \in Range(frames')
    BY <1>6
  <2>4. QueueOK(x, data[x].queue)'
    <3>1. PICK q : q = data[x].queue
      OBVIOUS
    <3>2. QueueOK(x, q) /\ data'[x].queue = q
      BY <2>1, <3>1
    <3>3. \A i \in DOMAIN q : q[i] \in Anims => q[i] \in Asked' \ made' /\ target'[q[i]] = x
      BY <1>1, <1>7, <3>2 DEF QueueOK
    <3>4. \A f \in Range(frames') : Held(f) \cap Range(q) = {}
      BY <2>2, <3>2 DEF QueueOK
    <3> QED BY <3>2, <3>3, <3>4 DEF QueueOK
  <2>5. DequeueFrame(x) \in Range(frames) => DequeueFrame(x) \in Range(frames')
    <3>1. DequeueFrame(x).code = "dequeue"
      BY DEF DequeueFrame
    <3> QED BY <2>3, <3>1
  <2>6. /\ ~data'[x].hooks => data'[x].queue = <<>> /\ data'[x].stop = "none" /\ data'[x].waiters = <<>>
        /\ data'[x].stop = "runs" => timeouts'[x] > 0
        /\ ~threw' /\ data'[x].queue # <<>> /\ ~Sentinel(data'[x].queue) =>
              DequeueFrame(x) \in Range(frames')
        /\ ~threw' /\ data'[x].finish => \E f \in Range(frames') : f.code = "finish" /\ f.elem = x
    BY <2>1, <2>3, <2>5 DEF DatumOK
  <2> QED BY <2>4, <2>6 DEF DatumOK
<1>13. AnimInv'
  <2>1. timers' # <<>> => interval'
    BY <1>2 DEF AnimInv
  <2>2. \A d \in Deferreds : Completes(lists'[<<d, "done">>]) => d \in made' \cap Anims
    <3>1. \A d \in Deferreds : lists'[<<d, "done">>].fns = lists[<<d, "done">>].fns
      BY <1>6, Names
    <3> QED BY <1>2, <1>7, <3>1 DEF AnimInv, Completes
  <2>3. ASSUME NEW a \in Anims PROVE AnimOK(a)'
    <3>1. AnimOK(a)
      BY <1>2 DEF AnimInv
    <3>2. CASE a \in made
      <4>1. target'[a] = target[a] /\ (a \in made' <=> a \in made) /\ state'[a] = state[a]
        BY <1>7
      <4>2. AttachFrame(a) \notin Range(frames)
        <5>1. AttachFrame(a).code = "attach"
          BY DEF AttachFrame
        <5> QED BY <5>1
      <4>3. \A f \in Range(frames) : f.code = "splice" => f \in Range(frames')
        BY <1>6
      <4>4. /\ (Completes(lists[<<a, "done">>]) => Completes(lists'[<<a, "done">>]))
            /\ lists'[<<a, "done">>].fired = lists[<<a, "done">>].fired
            /\ lists'[<<a, "fail">>].fired = lists[<<a, "fail">>].fired
        BY <1>10
      <4>5. /\ (a \in stopped' => a \in stopped) /\ (a \in lost => a \in lost')
            /\ (a \in Range(timers) => a \in Range(timers'))
        OBVIOUS
      <4> QED BY <3>1, <4>1, <4>2, <4>3, <4>4, <4>5, AnimKept
    <3>3. CASE a \notin made
      <4>1. ~Ends(a) /\ ~Ends(a)' /\ a \notin stopped /\ a \notin made'
        BY <1>7, <1>10, <3>1, <3>3 DEF AnimOK, Ends
      <4> QED BY <4>1 DEF AnimOK, Ends
    <3> QED BY <3>2, <3>3
  <2> QED BY <2>1, <2>2, <2>3 DEF AnimInv
<1>14. WakeInv'
  <2>1. \A x \in Elems : \A f \in Range(frames) : LeadsTo(f, x) => Wakes(x)'
    <3> SUFFICES ASSUME NEW x \in Elems, NEW f \in Range(frames), LeadsTo(f, x) PROVE Wakes(x)'
      OBVIOUS
    <3>1. f \in Frames /\ FrameOK(f)
      BY <1>2, RangeType DEF TypeInv, StackInv
    <3>2. f \in Range(frames')
      BY <1>6 DEF LeadsTo
    <3>3. LeadsTo(f, x)'
      <4>1. CASE f.code = "fire"
        <5>1. /\ f.list[2] = "done" /\ f.list[1] \in Asked /\ target[f.list[1]] = x
              /\ ToComplete(lists[f.list]) /\ f.list \in ListIds
          BY <3>1, <4>1, FrameParts DEF LeadsTo
        <5>2. f.list[1] \in Anims /\ f.list # id
          BY <1>1, <1>2, <5>1 DEF TypeInv, EffectTypes
        <5>3. lists'[f.list] = lists[f.list]
          BY <1>6, <5>1, <5>2
        <5> QED BY <1>7, <4>1, <5>1, <5>3 DEF LeadsTo
      <4>2. CASE f.code # "fire"
        BY <1>7, <3>1, <4>2, LeadsKept
      <4> QED BY <4>1, <4>2
    <3> QED BY <3>2, <3>3 DEF Wakes
  <2>2. \A a \in made \cap Anims : state[a] = "pending" => state'[a] = "pending" \/ Wakes(target[a])'
    OBVIOUS
  <2>3. \A x \in Elems : Due(x)' => Due(x) \/ Wakes(x)'
    BY DEF Due
  <2>4. CASE threw
    BY <2>4 DEF WakeInv
  <2>5. CASE ~threw
    BY <1>2, <1>7, <2>1, <2>2, <2>3, <2>5, WakeKept
  <2> QED BY <2>4, <2>5
<1>15. TypeInv'
  <2>1. made' \in SUBSET Deferreds /\ IsFiniteSet(made') /\ timers' \in Seq(made' \cap Asked')
    <3>1. made \in SUBSET Deferreds /\ IsFiniteSet(made) /\ timers \in Seq(made \cap Asked)
      BY <1>2 DEF TypeInv, DeferredTypes, EffectTypes
    <3>2. IsFiniteSet(made')
      BY <3>1, FS_AddElement
    <3> QED BY <1>1, <1>7, <3>1, <3>2
  <2> QED BY <1>2, <1>6, <1>7, <2>1, TypesKept DEF TypeInv, DeferredTypes, EffectTypes
<1> QED BY <1>3, <1>6, <1>11, <1>12, <1>13, <1>14, <1>15

\* A promise that neither list has settled is pending.
LEMMA StillPending ==
    ASSUME EffectsInv, NEW p \in Counted, ~lists[<<p, "done">>].fired, ~lists[<<p, "fail">>].fired
    PROVE  state[p] = "pending"
<1>1. <<p, "done">> \in ListIds /\ <<p, "fail">> \in ListIds
  BY Names
<1>2. /\ Good("done", lists[<<p, "done">>], state[p]) /\ Good("fail", lists[<<p, "fail">>], state[p])
      /\ state[p] \in {"pending", "resolved", "rejected"}
  BY <1>1, ListOf DEF EffectsInv
<1>3. state[p] # Outcome("done") /\ state[p] # Outcome("fail")
  BY <1>2 DEF Good
<1> QED BY <1>2, <1>3 DEF Outcome

\* Nobody is left to be told that the queue is empty.
LEMMA EmptiesNobody ==
    ASSUME EffectsInv, Empties, Top.waiters = <<>>
    PROVE  EffectsInv'
<1>1. /\ frames # <<>> /\ Top.code = "empty" /\ frames' = Below
      /\ UNCHANGED <<parts, functions, registered, state, follows, called, lists, made, remaining>>
      /\ UNCHANGED <<threw, data, timers, interval, timeouts, target, instant, stopped, calls>>
      /\ UNCHANGED <<lost, dropped, forgotten>>
  BY DEF Empties, On, stillVars, effectVars
<1>2. /\ Below \in Seq(Frames) /\ Still(Below) /\ Calm(Below) /\ Apart(Below)
      /\ Range(frames) = {Top} \cup Range(Below)
  BY <1>1, TopFacts DEF EffectsInv
<1>3. ~On("fire") /\ ~On("dequeue")
  BY <1>1 DEF On
<1>4. Asked' = Asked /\ (\A a \in Asked : target'[a] = target[a])
      /\ \A f \in Range(frames) : f \in Range(frames') \/ f.code = "empty"
  BY <1>1, <1>2 DEF Asked
<1>5. ListsOK(lists') /\ ListInv' /\ StackInv' /\ AnimInv'
  <2>1. PICK N : N = {}
    OBVIOUS
  <2>2. /\ (\A f \in N : FrameOK(f)') /\ Range(frames') \subseteq N \cup Range(frames)
        /\ \A f \in Range(frames) : f.code \in {"fire", "attach", "splice"} => f \in Range(frames')
    BY <1>1, <1>2, <1>4, <2>1
  <2> QED BY <1>1, <1>2, <1>3, <1>4, <2>2, QueueMoves
<1>6. QueueInv'
  <2>1. threw' \/ (~threw /\ \A f \in Range(frames) :
                                 f.code \in {"dequeue", "finish"} => f \in Range(frames'))
    BY <1>1, <1>4 DEF EffectsInv, TypeInv, DeferredTypes
  <2>2. \A f \in Range(frames') : f \in Range(frames)
    BY <1>1, <1>2
  <2>3. TypeInv /\ QueueInv
    BY DEF EffectsInv
  <2> QED BY <1>1, <1>3, <2>1, <2>2, <2>3, QueueKept
<1>7. WakeInv'
  <2> SUFFICES ASSUME ~threw, NEW x \in Elems, Due(x)' PROVE Wakes(x)'
    BY <1>1 DEF WakeInv
  <2>1. \A f \in Range(frames) : LeadsTo(f, x) => f \in Range(frames')
    BY <1>4 DEF LeadsTo
  <2>2. Due(x)
    BY <1>1 DEF Due
  <2> QED BY <1>1, <2>1, <2>2, WakesStay
<1>8. PromiseInv'
  <2> SUFFICES ASSUME NEW p \in Counted PROVE PromiseOK(p)'
    BY DEF PromiseInv
  <2>1. PromiseOK(p)
    BY DEF EffectsInv, PromiseInv
  <2>2. Told(p)' <=> Told(p)
    BY <1>1, <1>2, EmptyQueue DEF Told
  <2>3. Waits(p)' = Waits(p)
    BY <1>1 DEF Waits
  <2> QED BY <1>1, <2>1, <2>2, <2>3 DEF PromiseOK
<1>9. TypeInv'
  BY <1>1, <1>2, <1>4, <1>5, TypesKept DEF EffectsInv, TypeInv, DeferredTypes, EffectTypes
<1> QED BY <1>5, <1>6, <1>7, <1>8, <1>9 DEF EffectsInv

\* The next promise is told that the queue of an element is empty.
LEMMA EmptiesNext ==
    ASSUME EffectsInv, Empties, Top.waiters # <<>>
    PROVE  EffectsInv'
<1>1. PICK ps, p, t, f, rest : /\ ps = Top.waiters /\ p = Head(ps) /\ t = Tail(ps)
                               /\ f = EmptyFrame(t) /\ rest = <<f>> \o Below
  OBVIOUS
<1>2. PICK id : id = <<p, "done">>
  OBVIOUS
<1>3. /\ frames # <<>> /\ Top.code = "empty"
      /\ remaining' = [remaining EXCEPT ![p] = @ - 1]
      /\ IF remaining[p] = 1 THEN FireWith(lists, id, rest) ELSE frames' = rest /\ lists' = lists
      /\ UNCHANGED <<parts, functions, registered, state, follows, called, made>>
      /\ UNCHANGED <<threw, data, timers, interval, timeouts, target, instant, stopped, calls>>
      /\ UNCHANGED <<lost, dropped, forgotten>>
  BY <1>1, <1>2 DEF Empties, On, stillVars, effectVars
<1>4. /\ Top \in Frames /\ FrameOK(Top) /\ Below \in Seq(Frames) /\ Still(Below) /\ Apart(Below)
      /\ Range(frames) = {Top} \cup Range(Below)
  BY <1>3, TopFacts DEF EffectsInv
<1>5. ps \in Seq(Counted) /\ ps # <<>> /\ Range(ps) \subseteq made /\ Distinct(ps)
  BY <1>1, <1>3, <1>4, FrameParts DEF FrameOK
<1>6. p \in Counted /\ t \in Seq(Counted) /\ Range(ps) = {p} \cup Range(t) /\ p \notin Range(t)
      /\ Distinct(t)
  <2>1. /\ Head(ps) \in Counted /\ Tail(ps) \in Seq(Counted) /\ 1 \in DOMAIN ps /\ ps[1] = Head(ps)
    BY <1>5, PopFacts
  <2>2. Range(ps) = {Head(ps)} \cup Range(Tail(ps))
    BY <1>5, PopFacts
  <2>3. \A i \in DOMAIN Tail(ps) : i + 1 \in DOMAIN ps /\ Tail(ps)[i] = ps[i + 1]
    BY <1>5, PopFacts
  <2>4. \A i \in DOMAIN t : i + 1 \in DOMAIN ps /\ t[i] = ps[i + 1] /\ i \in Nat /\ i >= 1
    BY <1>1, <2>1, <2>3
  <2>5. p \notin Range(t)
    <3> SUFFICES ASSUME NEW i \in DOMAIN t, t[i] = p PROVE FALSE
      BY DEF Range
    <3>1. i + 1 = 1
      BY <1>1, <1>5, <2>1, <2>4 DEF Distinct
    <3> QED BY <2>4, <3>1
  <2>6. Distinct(t)
    <3> SUFFICES ASSUME NEW i \in DOMAIN t, NEW j \in DOMAIN t, t[i] = t[j] PROVE i = j
      BY DEF Distinct
    <3>1. i + 1 = j + 1
      BY <1>5, <2>4 DEF Distinct
    <3> QED BY <2>4, <3>1
  <2> QED BY <1>1, <2>1, <2>2, <2>5, <2>6
<1>7. p \in made /\ p \in Deferreds /\ Range(t) \subseteq made
  BY <1>5, <1>6, Names
<1>8. f \in Frames /\ f.code = "empty" /\ f.waiters = t /\ Held(f) = {}
  <2>1. f \in Frames /\ f.code = "empty" /\ f.waiters = t
    BY <1>1, <1>6, FrameTypes DEF EmptyFrame
  <2> QED BY <2>1, HeldFacts
<1>9. ~On("fire") /\ ~On("dequeue")
  BY <1>3 DEF On
<1>10. /\ rest \in Seq(Frames) /\ Range(rest) = {f} \cup Range(Below) /\ Calm(rest) /\ Apart(rest)
       /\ rest # <<>> /\ Tail(rest) = Below /\ Head(rest) = f
  BY <1>1, <1>4, <1>8, PushFacts, StillPush, ApartPush
<1>11. Settler(FireFrame(id), Head(rest))
  <2>1. FireFrame(id).code = "fire" /\ FireFrame(id).list = id
    BY DEF FireFrame
  <2> QED BY <1>2, <1>6, <1>8, <1>10, <2>1 DEF Settler
<1>13. \A g \in Range(rest) :
          g \in Range(frames) \/ (/\ g.code = "empty" /\ Range(g.waiters) \subseteq made'
                                  /\ Distinct(g.waiters))
  BY <1>3, <1>4, <1>6, <1>7, <1>8, <1>10
<1>14. /\ \A g \in Range(Below) : g.code # "attach" /\ g.code # "empty"
       /\ \A g \in Range(rest) : g.code # "attach"
       /\ \A g \in Range(frames) : g.code # "attach"
       /\ \A g \in Range(frames) : g.code # "empty" => g \in Range(rest)
  <2>1. \A g \in Range(Below) : g.code # "attach" /\ g.code # "empty"
    BY <1>4 DEF Still, Delicate, Range
  <2> QED BY <1>3, <1>4, <1>8, <1>10, <2>1
<1>15. /\ made' = made \cup {p} /\ calls' \in 0 .. MaxCalls /\ remaining' \in [Deferreds -> Int]
       /\ remaining[p] \in Int /\ remaining \in [Deferreds -> Int]
  BY <1>3, <1>7 DEF EffectsInv, TypeInv, DeferredTypes, EffectTypes
<1>16. /\ data' \in [Elems -> Datum]
       /\ \A x \in Elems : /\ data'[x].queue = data[x].queue /\ data'[x].hooks = data[x].hooks
                           /\ data'[x].stop = data[x].stop /\ data'[x].finish = data[x].finish
                           /\ ~data[x].hooks => data'[x].waiters = <<>>
                           /\ Range(data'[x].waiters) \subseteq made' /\ Distinct(data'[x].waiters)
  <2>1. \A x \in Elems : DatumOK(x, data[x])
    BY DatumOf
  <2>2. data \in [Elems -> Datum]
    BY DEF EffectsInv, TypeInv, EffectTypes
  <2> QED BY <1>3, <2>1, <2>2 DEF DatumOK
<1>17. FireWith(lists, id, rest) \/ (lists' = lists /\ frames' = rest)
  BY <1>3
<1>18. /\ UNCHANGED <<state, threw, timers, interval, timeouts, target, instant, stopped, lost>>
       /\ UNCHANGED <<parts, functions, registered, follows, called, dropped, forgotten>>
  BY <1>3
<1>19. /\ TypeInv' /\ ListInv' /\ StackInv' /\ QueueInv' /\ AnimInv' /\ WakeInv'
       /\ \A x \in ListIds : x # id => lists'[x] = lists[x]
       /\ FireWith(lists, id, rest) /\ state[p] = "pending" => lists'[id].fired
       /\ Range(frames') \subseteq {FireFrame(id)} \cup Range(rest)
       /\ Range(rest) \subseteq Range(frames')
  <2>1. Still(rest) \/ (rest # <<>> /\ Still(Tail(rest)) /\ Settler(FireFrame(id), Head(rest)))
    BY <1>4, <1>10, <1>11
  <2>2. p \in Counted /\ rest \in Seq(Frames) /\ Calm(rest) /\ Apart(rest) /\ id = <<p, "done">>
    BY <1>2, <1>6, <1>10
  <2>3. /\ \A g \in Range(rest) : g.code # "attach"
        /\ \A g \in Range(frames) : g.code # "attach"
        /\ \A g \in Range(frames) : g.code # "empty" => g \in Range(rest)
    BY <1>14
  <2>4. made' = made \cup {p} /\ calls' \in 0 .. MaxCalls /\ remaining' \in [Deferreds -> Int]
    BY <1>15
  <2> HIDE <1>1, <1>2, <1>3, <1>4, <1>5, <1>6, <1>10, <1>14, <1>15
  <2>5. MovesPromise(p, id, rest)
    BY <1>13, <1>16, <1>17, <1>18, <2>1, <2>2, <2>3, <2>4 DEF MovesPromise
  <2> HIDE <1>13, <1>16, <1>17, <1>18, <2>1, <2>2, <2>3, <2>4
  <2> QED BY <1>9, <2>5, PromiseMoves
<1>20. PromiseInv'
  <2> SUFFICES ASSUME NEW x \in Counted PROVE PromiseOK(x)'
    BY DEF PromiseInv
  <2>1. PromiseOK(x) /\ <<x, "done">> \in ListIds /\ <<x, "fail">> \in ListIds
    BY Names DEF EffectsInv, PromiseInv
  <2>2. /\ Told(x) <=> x \in Range(ps)
        /\ Told(x)' <=> x \in Range(t)
    <3>1. Told(x) <=> x \in Range(ps)
      BY <1>1, <1>3, <1>4, <1>14 DEF Told
    <3>2. FireFrame(id).code = "fire"
      BY DEF FireFrame
    <3>3. Told(x)' <=> x \in Range(t)
      BY <1>8, <1>10, <1>14, <1>19, <3>2 DEF Told
    <3> QED BY <3>1, <3>3
  <2>3. Waits(x)' = Waits(x)
    BY <1>3 DEF Waits
  <2>4. lists'[<<x, "fail">>] = lists[<<x, "fail">>]
    BY <1>2, <1>19, <2>1
  <2>5. CASE x # p
    <3>1. lists'[<<x, "done">>] = lists[<<x, "done">>] /\ remaining'[x] = remaining[x]
      BY <1>2, <1>3, <1>15, <1>19, <2>1, <2>5
    <3>2. Told(x)' <=> Told(x)
      BY <1>6, <2>2, <2>5
    <3> QED BY <1>3, <2>1, <2>3, <2>4, <3>1, <3>2 DEF PromiseOK
  <2>6. CASE x = p
    <3>1. Told(x) /\ ~Told(x)' /\ x \in made' /\ dropped' = dropped
      BY <1>3, <1>6, <1>15, <2>2, <2>6
    <3>2. PICK c : c = Cardinality(Waits(x))
      OBVIOUS
    <3>3. c \in Nat
      <4>1. Waits(x) \in SUBSET Elems
        BY DEF Waits
      <4>2. IsFiniteSet(Waits(x))
        BY <4>1, EffectsAssumption, FS_Subset
      <4> QED BY <3>2, <4>2, FS_CardinalityType
    <3>4. x \notin dropped => /\ remaining[x] = c + 1 /\ remaining'[x] = c
                              /\ ~lists[<<x, "done">>].fired
      <4>1. x \notin dropped => /\ remaining[x] = c + 1
                                /\ lists[<<x, "done">>].fired <=> remaining[x] = 0
        BY <1>7, <2>1, <2>6, <3>1, <3>2 DEF PromiseOK
      <4> QED BY <1>3, <1>7, <1>15, <2>6, <3>3, <4>1
    <3>5. x \notin dropped => (lists'[<<x, "done">>].fired <=> remaining'[x] = 0)
      <4> SUFFICES ASSUME x \notin dropped PROVE lists'[<<x, "done">>].fired <=> remaining'[x] = 0
        OBVIOUS
      <4>1. CASE remaining[x] = 1
        <5>1. state[p] = "pending"
          BY <2>1, <2>6, <3>4, StillPending DEF PromiseOK
        <5>2. FireWith(lists, id, rest)
          BY <1>3, <2>6, <4>1
        <5> QED BY <1>2, <1>19, <2>6, <3>3, <3>4, <4>1, <5>1, <5>2
      <4>2. CASE remaining[x] # 1
        <5>1. lists' = lists
          BY <1>3, <2>6, <4>2
        <5> QED BY <3>3, <3>4, <4>2, <5>1
      <4> QED BY <4>1, <4>2
    <3>6. ~lists'[<<x, "fail">>].fired
      BY <2>1, <2>4 DEF PromiseOK
    <3>7. x \notin dropped => remaining'[x] = Cardinality(Waits(x)') + (IF Told(x)' THEN 1 ELSE 0)
      BY <2>3, <3>1, <3>2, <3>3, <3>4
    <3> QED BY <3>1, <3>5, <3>6, <3>7 DEF PromiseOK
  <2> QED BY <2>5, <2>6
<1> QED BY <1>19, <1>20 DEF EffectsInv

\* The promises that wait for a queue to be empty.
LEMMA EmptiesKeeps == EffectsInv /\ Empties => EffectsInv'
BY EmptiesNobody, EmptiesNext

\* promise() of some elements.
LEMMA PromiseKeeps ==
    ASSUME NEW p \in Deferreds, NEW es \in SUBSET Elems
    PROVE  EffectsInv /\ Promise(p, es) => EffectsInv'
<1> SUFFICES ASSUME EffectsInv, Promise(p, es) PROVE EffectsInv'
  OBVIOUS
<1>1. PICK busy, id, n, rest : /\ busy = Busy(es) /\ id = <<p, "done">> /\ n = Cardinality(busy)
                               /\ rest = frames
  OBVIOUS
<1>2. /\ PageCalls /\ p \in Counted \ made /\ made' = made \cup {p}
      /\ remaining' = [remaining EXCEPT ![p] = n]
      /\ data' = [x \in Elems |-> IF x \in busy
                                  THEN [data[x] EXCEPT !.waiters = Append(@, p)] ELSE data[x]]
      /\ IF busy = {} THEN FireWith(lists, id, rest) ELSE lists' = lists /\ frames' = rest
      /\ UNCHANGED <<parts, functions, registered, state, follows, called>>
      /\ UNCHANGED <<threw, timers, interval, timeouts, target, instant, stopped>>
      /\ UNCHANGED <<lost, dropped, forgotten>>
  BY <1>1 DEF Promise, stillVars
<1>3. Still(frames) /\ ~On("fire") /\ ~On("dequeue") /\ frames \in Seq(Frames)
  BY <1>2, PageTop DEF EffectsInv, PageCalls
<1>4. /\ rest \in Seq(Frames) /\ Calm(rest) /\ Apart(rest) /\ Still(rest)
      /\ \A f \in Range(rest) : f \in Range(frames)
      /\ \A f \in Range(rest) : f.code # "attach" /\ f.code # "empty"
      /\ \A f \in Range(frames) : f \in Range(rest)
  BY <1>1, <1>3 DEF EffectsInv, StackInv, Still, Delicate, Range
<1>5. busy \in SUBSET Elems /\ IsFiniteSet(busy) /\ n \in Nat /\ (n = 0 <=> busy = {})
  <2>1. busy \in SUBSET Elems
    BY <1>1 DEF Busy
  <2>2. IsFiniteSet(busy)
    BY <2>1, EffectsAssumption, FS_Subset
  <2> QED BY <1>1, <2>1, <2>2, FS_CardinalityType, FS_EmptySet
<1>6. \A x \in Elems : /\ DatumOK(x, data[x]) /\ data[x] \in Datum
                       /\ data[x].waiters \in Seq(Counted) /\ (x \in busy => data[x].hooks)
  BY <1>1, DatumOf DEF Busy
<1>7. \A x \in Elems : x \notin busy => data'[x] = data[x]
  BY <1>2
<1>8. ASSUME NEW x \in busy
      PROVE  /\ data'[x] \in Datum
             /\ data'[x].queue = data[x].queue /\ data'[x].hooks = data[x].hooks
             /\ data'[x].stop = data[x].stop /\ data'[x].finish = data[x].finish
             /\ Range(data'[x].waiters) = Range(data[x].waiters) \cup {p}
             /\ Distinct(data'[x].waiters)
  <2>1. PICK ps, qs : ps = data[x].waiters /\ qs = Append(ps, p)
    OBVIOUS
  <2>2. x \in Elems /\ data'[x] = [data[x] EXCEPT !.waiters = qs] /\ data[x] \in Datum
        /\ ps \in Seq(Counted) /\ Distinct(ps) /\ Range(ps) \subseteq made
    BY <1>2, <1>5, <1>6, <2>1 DEF DatumOK
  <2>3. /\ qs \in Seq(Counted) /\ Len(qs) = Len(ps) + 1 /\ qs[Len(ps) + 1] = p
        /\ \A i \in DOMAIN ps : qs[i] = ps[i] /\ i \in DOMAIN qs
        /\ \A i \in DOMAIN qs : i \in DOMAIN ps \/ (i = Len(ps) + 1 /\ qs[i] = p)
        /\ Len(ps) + 1 \in DOMAIN qs
    BY <1>2, <2>1, <2>2
  <2>4. /\ data'[x] \in Datum /\ data'[x].waiters = qs
        /\ data'[x].queue = data[x].queue /\ data'[x].hooks = data[x].hooks
        /\ data'[x].stop = data[x].stop /\ data'[x].finish = data[x].finish
    BY <2>2, <2>3 DEF Datum
  <2>5. Range(qs) = Range(ps) \cup {p}
    BY <2>3 DEF Range
  <2>6. Distinct(qs)
    <3> SUFFICES ASSUME NEW i \in DOMAIN qs, NEW j \in DOMAIN qs, qs[i] = qs[j] PROVE i = j
      BY DEF Distinct
    <3>1. \A k \in DOMAIN ps : ps[k] # p
      BY <1>2, <2>2 DEF Range
    <3> QED BY <2>2, <2>3, <3>1 DEF Distinct
  <2> QED BY <2>1, <2>4, <2>5, <2>6
<1>9. /\ data' \in [Elems -> Datum]
      /\ \A x \in Elems : /\ data'[x].queue = data[x].queue /\ data'[x].hooks = data[x].hooks
                          /\ data'[x].stop = data[x].stop /\ data'[x].finish = data[x].finish
                          /\ ~data[x].hooks => data'[x].waiters = <<>>
                          /\ Range(data'[x].waiters) \subseteq made' /\ Distinct(data'[x].waiters)
  <2>1. ASSUME NEW x \in Elems
        PROVE  /\ data'[x].queue = data[x].queue /\ data'[x].hooks = data[x].hooks
               /\ data'[x].stop = data[x].stop /\ data'[x].finish = data[x].finish
               /\ ~data[x].hooks => data'[x].waiters = <<>>
               /\ Range(data'[x].waiters) \subseteq made' /\ Distinct(data'[x].waiters)
               /\ data'[x] \in Datum
    <3>0. made' = made \cup {p} /\ DatumOK(x, data[x]) /\ data[x] \in Datum
      BY <1>2, <1>6
    <3>1. CASE x \in busy
      <4>1. /\ data'[x].queue = data[x].queue /\ data'[x].hooks = data[x].hooks
            /\ data'[x].stop = data[x].stop /\ data'[x].finish = data[x].finish
            /\ data'[x] \in Datum /\ Distinct(data'[x].waiters)
            /\ Range(data'[x].waiters) = Range(data[x].waiters) \cup {p}
        BY <1>8, <3>1
      <4>2. data[x].hooks /\ Range(data[x].waiters) \subseteq made
        BY <1>6, <3>0, <3>1 DEF DatumOK
      <4>3. Range(data'[x].waiters) \subseteq made'
        BY <3>0, <4>1, <4>2
      <4> HIDE <1>2, <1>8
      <4> QED BY <4>1, <4>2, <4>3
    <3>2. CASE x \notin busy
      <4>1. data'[x] = data[x]
        BY <1>7, <3>2
      <4> QED BY <3>0, <4>1 DEF DatumOK
    <3> QED BY <3>1, <3>2
  <2>2. DOMAIN data' = Elems
    BY <1>2
  <2>3. data' \in [Elems -> Datum]
    <3>1. PICK g : g = [x \in Elems |-> IF x \in busy
                                        THEN [data[x] EXCEPT !.waiters = Append(@, p)] ELSE data[x]]
      OBVIOUS
    <3>2. data' = g
      BY <1>2, <3>1
    <3>3. \A x \in Elems : g[x] \in Datum
      BY <2>1, <3>2
    <3> QED BY <3>1, <3>2, <3>3
  <2> QED BY <2>1, <2>3
<1>10. /\ calls' \in 0 .. MaxCalls /\ remaining' \in [Deferreds -> Int] /\ remaining'[p] = n
       /\ \A x \in Counted : x # p => remaining'[x] = remaining[x]
  <2>1. remaining \in [Deferreds -> Int] /\ n \in Int /\ Counted \subseteq Deferreds
    BY <1>5, Names DEF EffectsInv, TypeInv, DeferredTypes
  <2> QED BY <1>2, <2>1, CallsBound
<1>11. FireWith(lists, id, rest) \/ (lists' = lists /\ frames' = rest)
  BY <1>2
<1>12. /\ UNCHANGED <<state, threw, timers, interval, timeouts, target, instant, stopped, lost>>
       /\ UNCHANGED <<parts, functions, registered, follows, called, dropped, forgotten>>
       /\ made' = made \cup {p} /\ p \in Counted /\ id = <<p, "done">>
  BY <1>1, <1>2
<1>13. /\ TypeInv' /\ ListInv' /\ StackInv' /\ QueueInv' /\ AnimInv' /\ WakeInv'
       /\ \A x \in ListIds : x # id => lists'[x] = lists[x]
       /\ FireWith(lists, id, rest) /\ state[p] = "pending" => lists'[id].fired
       /\ Range(frames') \subseteq {FireFrame(id)} \cup Range(rest)
       /\ Range(rest) \subseteq Range(frames')
  <2>1. \A f \in Range(rest) :
           f \in Range(frames) \/ (/\ f.code = "empty" /\ Range(f.waiters) \subseteq made'
                                   /\ Distinct(f.waiters))
    BY <1>4
  <2>2. /\ \A f \in Range(rest) : f.code # "attach"
        /\ \A f \in Range(frames) : f.code # "attach"
        /\ \A f \in Range(frames) : f.code # "empty" => f \in Range(rest)
    BY <1>4
  <2>3. Still(rest) \/ (rest # <<>> /\ Still(Tail(rest)) /\ Settler(FireFrame(id), Head(rest)))
    BY <1>4
  <2>4. p \in Counted /\ rest \in Seq(Frames) /\ Calm(rest) /\ Apart(rest) /\ id = <<p, "done">>
    BY <1>4, <1>12
  <2>5. made' = made \cup {p} /\ calls' \in 0 .. MaxCalls /\ remaining' \in [Deferreds -> Int]
    BY <1>10, <1>12
  <2>6. ~On("fire") /\ ~On("dequeue")
    BY <1>3
  <2>7. /\ UNCHANGED <<state, threw, timers, interval, timeouts, target, instant, stopped, lost>>
        /\ UNCHANGED <<parts, functions, registered, follows, called, dropped, forgotten>>
    BY <1>12
  <2>8. /\ data' \in [Elems -> Datum]
        /\ \A x \in Elems : /\ data'[x].queue = data[x].queue /\ data'[x].hooks = data[x].hooks
                            /\ data'[x].stop = data[x].stop /\ data'[x].finish = data[x].finish
                            /\ ~data[x].hooks => data'[x].waiters = <<>>
                            /\ Range(data'[x].waiters) \subseteq made' /\ Distinct(data'[x].waiters)
    BY <1>9
  <2> HIDE <1>1, <1>2, <1>3, <1>4, <1>5, <1>6, <1>7, <1>8, <1>9, <1>10, <1>12
  <2>9. MovesPromise(p, id, rest)
    BY <1>11, <2>1, <2>2, <2>3, <2>4, <2>5, <2>7, <2>8 DEF MovesPromise
  <2> HIDE <1>11, <2>1, <2>2, <2>3, <2>4, <2>5, <2>7, <2>8
  <2> QED BY <2>6, <2>9, PromiseMoves
<1>14. PromiseInv'
  <2> SUFFICES ASSUME NEW x \in Counted PROVE PromiseOK(x)'
    BY DEF PromiseInv
  <2>1. PromiseOK(x) /\ <<x, "done">> \in ListIds /\ <<x, "fail">> \in ListIds
    BY Names DEF EffectsInv, PromiseInv
  <2>2. ~Told(x) /\ ~Told(x)'
    <3>1. FireFrame(id).code = "fire"
      BY DEF FireFrame
    <3> QED BY <1>4, <1>13, <3>1 DEF Told
  <2>3. lists'[<<x, "fail">>] = lists[<<x, "fail">>]
    BY <1>1, <1>13, <2>1
  <2>4. CASE x # p
    <3>1. lists'[<<x, "done">>] = lists[<<x, "done">>] /\ remaining'[x] = remaining[x]
      BY <1>1, <1>10, <1>13, <2>1, <2>4
    <3>2. Waits(x)' = Waits(x)
      <4>1. \A y \in Elems : x \in Range(data'[y].waiters) <=> x \in Range(data[y].waiters)
        BY <1>7, <1>8, <2>4
      <4> QED BY <4>1 DEF Waits
    <3>3. x \in made' <=> x \in made
      BY <1>2, <2>4
    <3> QED BY <1>2, <2>1, <2>2, <2>3, <3>1, <3>2, <3>3 DEF PromiseOK
  <2>5. CASE x = p
    <3>1. ~lists[id].fired /\ ~lists[<<p, "fail">>].fired
      BY <1>1, <1>2, <2>1, <2>5 DEF PromiseOK
    <3>2. Waits(x)' = busy
      <4>1. \A y \in Elems : p \notin Range(data[y].waiters)
        BY <1>2, <1>6 DEF DatumOK
      <4>2. \A y \in Elems : x \in Range(data'[y].waiters) <=> y \in busy
        BY <1>7, <1>8, <2>5, <4>1
      <4> QED BY <1>5, <4>2 DEF Waits
    <3>3. lists'[id].fired <=> n = 0
      <4>1. CASE busy = {}
        <5>1. state[p] = "pending"
          BY <1>1, <1>2, <3>1, StillPending
        <5> QED BY <1>2, <1>5, <1>13, <4>1, <5>1
      <4>2. CASE busy # {}
        BY <1>2, <1>5, <3>1, <4>2
      <4> QED BY <4>1, <4>2
    <3>4. remaining'[x] = n /\ Cardinality(Waits(x)') + (IF Told(x)' THEN 1 ELSE 0) = n
      BY <1>1, <1>5, <1>10, <2>2, <2>5, <3>2
    <3>5. x \in made' /\ ~lists'[<<x, "fail">>].fired
      BY <1>2, <2>3, <2>5, <3>1
    <3> QED BY <1>1, <2>5, <3>3, <3>4, <3>5 DEF PromiseOK
  <2> QED BY <2>4, <2>5
<1> QED BY <1>13, <1>14 DEF EffectsInv

-----------------------------------------------------------------------------
(* The start of an animation.                                              *)

\* The list progress has notified nobody.
LEMMA NotifiedFacts ==
    ASSUME TypeInv, ListInv, NEW a \in Deferreds,
           NEW ran, ran = [lists EXCEPT ![<<a, "progress">>] = Notified(@)]
    PROVE  /\ ListsOK(ran) /\ \A x \in ListIds : Good(x[2], ran[x], state[x[1]])
           /\ \A x \in Settling : ran[x] = lists[x]
           /\ \A x \in ListIds : /\ lists[x].fired => ran[x].fired
                                 /\ ran[x].fns = lists[x].fns
<1>1. PICK id, l, m : id = <<a, "progress">> /\ l = lists[id] /\ m = Notified(l)
  OBVIOUS
<1>2. id \in ListIds /\ id \notin Settling /\ id[2] = "progress"
  BY <1>1, Names DEF Settling
<1>3. l \in List /\ ListOK(l) /\ Good("progress", l, state[id[1]]) /\ lists \in [ListIds -> List]
  BY <1>1, <1>2, ListOf
<1>4. /\ m \in List /\ m.fired /\ m.fns = l.fns /\ m.next = l.next /\ m.length = l.length
      /\ m.on = l.on
  BY <1>1, <1>3 DEF Notified, List
<1>5. ListOK(m) /\ Good("progress", m, state[id[1]])
  BY <1>3, <1>4 DEF ListOK, Good
<1>6. ran \in [ListIds -> List] /\ ran[id] = m /\ \A x \in ListIds : x # id => ran[x] = lists[x]
  BY <1>1, <1>2, <1>3, <1>4
<1>7. \A x \in ListIds : ListOK(lists[x]) /\ Good(x[2], lists[x], state[x[1]])
  BY DEF TypeInv, ListsOK, ListInv
<1>8. ListsOK(ran)
  BY <1>5, <1>6, <1>7 DEF ListsOK
<1>9. \A x \in ListIds : Good(x[2], ran[x], state[x[1]])
  BY <1>2, <1>5, <1>6, <1>7
<1>10. \A x \in Settling : ran[x] = lists[x]
  BY <1>2, <1>6, Names
<1>11. \A x \in ListIds : (lists[x].fired => ran[x].fired) /\ ran[x].fns = lists[x].fns
  BY <1>1, <1>4, <1>6
<1> QED BY <1>8, <1>9, <1>10, <1>11

\* The animation a begins, and settles at once when it has no duration.
Begins(a, id, rest) ==
    /\ a \in Anims /\ a \in Asked \ made /\ rest \in Seq(Frames) /\ state[a] = "pending"
    /\ frames' \in Seq(Frames) /\ ListsOK(lists') /\ ListInv'
    /\ Range(frames') \subseteq {FireFrame(id)} \cup Range(rest)
    /\ Range(rest) \subseteq Range(frames')
    /\ frames' = rest \/ (frames' = <<FireFrame(id)>> \o rest /\ lists'[id].fired)
    /\ \A x \in Settling : x # id => lists'[x] = lists[x]
    /\ \A x \in ListIds : /\ lists[x].fired => lists'[x].fired
                          /\ x[2] = "done" => lists'[x].fns = lists[x].fns
    /\ a \in Range(timers') \/ lists'[id].fired
    /\ timers' # <<>> => interval'
    /\ timers' \in Seq(made' \cap Asked) /\ interval' \in BOOLEAN
    /\ Range(timers) \subseteq Range(timers')

\* What doAnimation does with the callback lists and the timers.
LEMMA BeginMoves ==
    ASSUME EffectsInv, Begin, NEW a, a = Top.anim, NEW id, id = <<a, "done">>,
           NEW rest, rest = <<AttachFrame(a)>> \o Below
    PROVE  Begins(a, id, rest)
<1>1. PICK ran : ran = [lists EXCEPT ![<<a, "progress">>] = Notified(@)]
  OBVIOUS
<1>2. /\ frames # <<>> /\ Top.code = "begin" /\ made' = made \cup {a}
      /\ IF a \in instant
         THEN FireWith(ran, id, rest) /\ timers' = timers /\ interval' = interval
         ELSE timers' = Append(timers, a) /\ interval' = TRUE /\ lists' = ran /\ frames' = rest
      /\ UNCHANGED <<state, threw>>
  BY <1>1 DEF Begin, On, stillVars
<1>3. /\ Top \in Frames /\ FrameOK(Top) /\ Below \in Seq(Frames)
      /\ Range(frames) = {Top} \cup Range(Below)
  BY <1>2, TopFacts DEF EffectsInv
<1>4. a \in Anims /\ a \in Asked \ made /\ a \in Deferreds /\ id \in Settling /\ id \in ListIds
  BY <1>2, <1>3, FrameParts, Names DEF FrameOK
<1>5. rest \in Seq(Frames) /\ Range(rest) = {AttachFrame(a)} \cup Range(Below)
  BY <1>3, <1>4, FrameTypes, PushFacts
<1>6. TypeInv /\ ListInv /\ ~On("fire")
  BY <1>2 DEF EffectsInv, On
<1>7. \A f \in Range(frames) : f.code = "fire" => f \in Range(rest)
  BY <1>2, <1>3, <1>5
<1>8. state[a] = "pending" /\ ~lists[id].fired
  BY <1>4 DEF EffectsInv, AnimInv, AnimOK, Ends
<1>9. /\ ListsOK(ran) /\ \A x \in ListIds : Good(x[2], ran[x], state[x[1]])
      /\ \A x \in Settling : ran[x] = lists[x]
      /\ \A x \in ListIds : (lists[x].fired => ran[x].fired) /\ ran[x].fns = lists[x].fns
  <2>1. TypeInv /\ ListInv /\ a \in Deferreds
    BY <1>4, <1>6
  <2>2. ListsOK(ran) /\ (\A x \in Settling : ran[x] = lists[x])
    BY <1>1, <2>1, NotifiedFacts
  <2>3. \A x \in ListIds : Good(x[2], ran[x], state[x[1]])
    BY <1>1, <2>1, NotifiedFacts
  <2>4. \A x \in ListIds : (lists[x].fired => ran[x].fired) /\ ran[x].fns = lists[x].fns
    BY <1>1, <2>1, NotifiedFacts, SMTT(30)
  <2> QED BY <2>2, <2>3, <2>4
<1>10. timers \in Seq(made \cap Asked) /\ interval \in BOOLEAN
  BY <1>6 DEF TypeInv, EffectTypes
<1>11. \A x \in Settling : x \in ListIds
  BY Names
<1>12. CASE a \in instant
  <2>1. FireWith(ran, id, rest) /\ timers' = timers /\ interval' = interval
    BY <1>2, <1>12
  <2>2. state' = state /\ threw' = threw
    BY <1>2
  <2>3. /\ frames' \in Seq(Frames) /\ ListsOK(lists') /\ ListInv'
        /\ \A x \in ListIds : x # id => lists'[x] = ran[x]
        /\ lists'[id].fns = ran[id].fns
        /\ ran[id].fired => lists'[id].fired
        /\ Fired(id, ran[id], rest)
        /\ Range(frames') \subseteq {FireFrame(id)} \cup Range(rest)
        /\ Range(rest) \subseteq Range(frames')
    <3>1. CanFire(ran, id, rest)
      BY <1>4, <1>5, <1>6, <1>7, <1>9, <2>1, <2>2 DEF CanFire
    <3>2. HasFired(ran, id, rest)
      BY <3>1, FireMoves
    <3> QED BY <3>2 DEF HasFired
  <2>4. ran[id].on
    <3>1. Good("done", lists[id], state[a])
      BY <1>4, <1>6, ListOf
    <3>2. lists[id].on
      BY <1>8, <3>1 DEF Good
    <3> QED BY <1>4, <1>9, <3>2
  <2>5. frames' = <<FireFrame(id)>> \o rest /\ lists'[id].fired
    BY <1>4, <1>8, <1>9, <2>3, <2>4 DEF Fired
  <2>6. timers' \in Seq(made' \cap Asked)
    BY <1>2, <1>10, <2>1
  <2>7. timers' # <<>> => interval'
    BY <2>1 DEF EffectsInv, AnimInv
  <2>8. \A x \in ListIds : lists'[x].fns = lists[x].fns /\ (lists[x].fired => lists'[x].fired)
    BY <1>9, <2>3
  <2>9. \A x \in Settling : x # id => lists'[x] = lists[x]
    BY <1>9, <1>11, <2>3
  <2> HIDE <1>1, <1>2, <1>3
  <2> QED BY <1>4, <1>5, <1>8, <1>10, <2>1, <2>3, <2>5, <2>6, <2>7, <2>8, <2>9 DEF Begins
<1>13. CASE a \notin instant
  <2>1. timers' = Append(timers, a) /\ interval' = TRUE /\ lists' = ran /\ frames' = rest
    BY <1>2, <1>13
  <2>2. /\ timers' \in Seq(made' \cap Asked) /\ Range(timers) \subseteq Range(timers')
        /\ a \in Range(timers')
    <3>1. PICK u : u = Append(timers, a)
      OBVIOUS
    <3>2. timers \in Seq(made' \cap Asked) /\ a \in made' \cap Asked
      BY <1>2, <1>4, <1>10
    <3>3. /\ u \in Seq(made' \cap Asked) /\ u[Len(timers) + 1] = a /\ Len(timers) + 1 \in DOMAIN u
          /\ \A i \in DOMAIN timers : u[i] = timers[i] /\ i \in DOMAIN u
      BY <3>1, <3>2
    <3> QED BY <2>1, <3>1, <3>3 DEF Range
  <2>3. ListInv'
    <3>1. PendingOK(lists', state', frames')
      <4>1. \A x \in Settling : state[x[1]] = "pending" => ~lists[x].fired
        BY <1>6, Quiet
      <4> QED BY <1>2, <1>9, <2>1, <4>1 DEF PendingOK
    <3>2. LoopsOK(lists', frames', threw')
      <4> SUFFICES ASSUME NEW d \in Deferreds, lists'[<<d, "done">>].firing, ~threw'
                   PROVE  FireFrame(<<d, "done">>) \in Range(frames')
        BY DEF LoopsOK
      <4>1. lists'[<<d, "done">>] = lists[<<d, "done">>]
        BY <1>9, <2>1, Names
      <4>2. FireFrame(<<d, "done">>) \in Range(frames)
        BY <1>2, <1>6, <4>1 DEF ListInv, LoopsOK
      <4>3. FireFrame(<<d, "done">>).code = "fire"
        BY DEF FireFrame
      <4> QED BY <1>7, <2>1, <4>2, <4>3
    <3>3. \A x \in ListIds : Good(x[2], lists'[x], state'[x[1]])
      BY <1>2, <1>9, <2>1
    <3> QED BY <3>1, <3>2, <3>3 DEF ListInv
  <2>4. ListsOK(lists')
    BY <1>9, <2>1
  <2>5. \A x \in ListIds : lists'[x].fns = lists[x].fns /\ (lists[x].fired => lists'[x].fired)
    BY <1>9, <2>1
  <2>6. \A x \in Settling : x # id => lists'[x] = lists[x]
    BY <1>9, <2>1
  <2> HIDE <1>1, <1>2, <1>3
  <2> QED BY <1>4, <1>5, <1>8, <2>1, <2>2, <2>3, <2>4, <2>5, <2>6 DEF Begins
<1> QED BY <1>12, <1>13

\* doAnimation: the animation exists, and its first tick has run.
LEMMA BeginKeeps == EffectsInv /\ Begin => EffectsInv'
<1> SUFFICES ASSUME EffectsInv, Begin PROVE EffectsInv'
  OBVIOUS
<1>1. PICK a, id, n, rest : /\ a = Top.anim /\ id = <<a, "done">> /\ n = AttachFrame(a)
                            /\ rest = <<n>> \o Below
  OBVIOUS
<1>2. /\ frames # <<>> /\ Top.code = "begin" /\ made' = made \cup {a}
      /\ UNCHANGED <<parts, functions, registered, state, follows, called, remaining, threw>>
      /\ UNCHANGED <<data, timeouts, target, instant, stopped, calls, lost, dropped, forgotten>>
  BY <1>1 DEF Begin, On, stillVars
<1>3. /\ a \in Anims /\ a \in Asked \ made /\ rest \in Seq(Frames) /\ state[a] = "pending"
      /\ frames' \in Seq(Frames) /\ ListsOK(lists') /\ ListInv'
      /\ Range(frames') \subseteq {FireFrame(id)} \cup Range(rest)
      /\ Range(rest) \subseteq Range(frames')
      /\ frames' = rest \/ (frames' = <<FireFrame(id)>> \o rest /\ lists'[id].fired)
      /\ \A x \in Settling : x # id => lists'[x] = lists[x]
      /\ \A x \in ListIds : /\ lists[x].fired => lists'[x].fired
                            /\ x[2] = "done" => lists'[x].fns = lists[x].fns
      /\ a \in Range(timers') \/ lists'[id].fired
      /\ timers' # <<>> => interval'
      /\ timers' \in Seq(made' \cap Asked) /\ interval' \in BOOLEAN
      /\ Range(timers) \subseteq Range(timers')
  <2>1. a = Top.anim /\ id = <<a, "done">> /\ rest = <<AttachFrame(a)>> \o Below
    BY <1>1
  <2> HIDE <1>1, <1>2
  <2>2. Begins(a, id, rest)
    BY <2>1, BeginMoves
  <2> QED BY <2>2 DEF Begins
<1>4. /\ Top \in Frames /\ FrameOK(Top) /\ Below \in Seq(Frames) /\ Still(Below) /\ Apart(Below)
      /\ Range(frames) = {Top} \cup Range(Below)
      /\ \A f \in Range(Below) : Held(Top) \cap Held(f) = {}
  BY <1>2, TopFacts DEF EffectsInv
<1>5. /\ a \in Deferreds /\ a \notin Counted /\ id \in Settling /\ id \in ListIds
      /\ <<a, "fail">> \in ListIds /\ <<a, "fail">> \in Settling /\ <<a, "fail">> # id
      /\ id[1] = a /\ id[2] = "done"
  BY <1>1, <1>3, Names
<1>6. Held(Top) = {a}
  BY <1>1, <1>2, <1>4, HeldFacts
<1>7. n \in Frames /\ n.code = "attach" /\ n.anim = a /\ Held(n) = {}
  <2>1. n \in Frames /\ n.code = "attach" /\ n.anim = a
    BY <1>1, <1>3, FrameTypes DEF AttachFrame
  <2> QED BY <2>1, HeldFacts
<1>8. Range(rest) = {n} \cup Range(Below)
  BY <1>1, <1>4, <1>7, PushFacts
<1>9. Head(rest) = n /\ Tail(rest) = Below /\ rest # <<>>
  BY <1>1, <1>4, <1>7, PushFacts
<1>10. Calm(rest) /\ Apart(rest)
  BY <1>1, <1>4, <1>7, StillPush, ApartPush
<1>11. PICK g : g = FireFrame(id)
  OBVIOUS
<1>12. g \in Frames /\ g.code = "fire" /\ g.list = id /\ Held(g) = {}
  <2>1. g \in Frames /\ g.code = "fire" /\ g.list = id
    BY <1>5, <1>11, FrameTypes DEF FireFrame
  <2> QED BY <2>1, HeldFacts
<1>13. \A f \in Range(Below) : f.code \notin {"attach", "empty", "begin"}
  BY <1>4 DEF Still, Delicate, Range
<1>14. /\ \A f \in Range(frames') : f \in {g, n} \/ f \in Range(Below)
       /\ \A f \in Range(frames) : f = Top \/ f \in Range(frames')
       /\ n \in Range(frames')
  BY <1>3, <1>4, <1>8, <1>11
<1>15. /\ Asked' = Asked /\ (\A b \in Asked : target'[b] = target[b]) /\ made \subseteq made'
       /\ a \in made' /\ made \cap Anims \subseteq Asked /\ Asked \subseteq Anims
  BY <1>2 DEF EffectsInv, TypeInv, EffectTypes, Asked
<1>16. ~Ends(a) /\ a \notin stopped /\ ~Completes(lists[id])
  BY <1>1, <1>3, <1>5 DEF EffectsInv, AnimInv, AnimOK
<1>17. ~lists'[<<a, "fail">>].fired /\ ~Completes(lists'[id]) /\ ~lists[id].fired
  <2>1. lists'[<<a, "fail">>] = lists[<<a, "fail">>]
    BY <1>3, <1>5
  <2>2. lists'[id].fns = lists[id].fns
    BY <1>3, <1>5
  <2> QED BY <1>1, <1>3, <1>16, <2>1, <2>2 DEF Ends, Completes
<1>18. StackInv'
  <2>1. Calm(frames') /\ Apart(frames')
    <3>1. Settler(g, n)
      BY <1>5, <1>7, <1>12 DEF Settler
    <3>2. Still(Tail(rest)) /\ Settler(FireFrame(id), Head(rest))
      BY <1>4, <1>9, <1>11, <3>1
    <3> HIDE <1>1, <1>2, <1>4
    <3> QED BY <1>3, <1>5, <1>9, <1>10, <3>2, FiredStack
  <2>2. PICK N, O : /\ N = {n} \cup (IF frames' = rest THEN {} ELSE {g}) /\ O = Range(Below)
    OBVIOUS
  <2>3. Range(frames') \subseteq N \cup O
    BY <1>3, <1>8, <1>11, <2>2
  <2>4. \A f \in N : FrameOK(f)'
    <3>1. FrameOK(n)'
      BY <1>1, <1>3, <1>7, <1>15, <1>17 DEF FrameOK
    <3>2. lists'[id].fired => FrameOK(g)'
      BY <1>12 DEF FrameOK
    <3> QED BY <1>3, <2>2, <3>1, <3>2
  <2>5. \A f \in O : made' \cap Held(f) \subseteq made
    BY <1>2, <1>4, <1>6, <2>2
  <2>6. /\ O \in SUBSET Range(frames)
        /\ \A f \in O : f.code = "attach" =>
              ~lists'[<<f.anim, "fail">>].fired /\ ~Completes(lists'[<<f.anim, "done">>])
    BY <1>4, <1>13, <2>2
  <2>7. \A b \in Anims : state[b] # "pending" => state'[b] # "pending"
    BY <1>2
  <2>8. \A x \in ListIds : lists[x].fired => lists'[x].fired
    BY <1>3
  <2>9. TypeInv /\ StackInv /\ Asked \subseteq Asked' /\ made \subseteq made'
    BY <1>15 DEF EffectsInv
  <2> HIDE <1>1, <1>2, <1>3, <1>4
  <2> QED BY <2>1, <2>3, <2>4, <2>5, <2>6, <2>7, <2>8, <2>9, StackKept
<1>19. QueueInv'
  <2>1. \A e \in Elems : made' \cap Range(data[e].queue) \subseteq made
    <3>1. \A e \in Elems : Held(Top) \cap Range(data[e].queue) = {}
      BY <1>4 DEF EffectsInv, QueueInv, QueueOK
    <3> QED BY <1>2, <1>6, <3>1
  <2>2. \A f \in Range(frames') : Held(f) = {} \/ f \in Range(frames)
    BY <1>4, <1>7, <1>12, <1>14
  <2>3. threw' \/ (~threw /\ \A f \in Range(frames) :
                                 f.code \in {"dequeue", "finish"} => f \in Range(frames'))
    BY <1>2, <1>14 DEF EffectsInv, TypeInv, DeferredTypes
  <2>4. TypeInv /\ QueueInv /\ ~On("dequeue")
    BY <1>2 DEF EffectsInv, On
  <2> QED BY <1>2, <1>15, <2>1, <2>2, <2>3, <2>4, QueueKept
<1>20. AnimInv'
  <2>1. \A d \in Deferreds : Completes(lists'[<<d, "done">>]) => d \in made' \cap Anims
    <3>1. \A d \in Deferreds : lists'[<<d, "done">>].fns = lists[<<d, "done">>].fns
      BY <1>3, Names
    <3>2. \A d \in Deferreds : Completes(lists[<<d, "done">>]) => d \in made \cap Anims
      BY DEF EffectsInv, AnimInv
    <3> QED BY <1>15, <3>1, <3>2 DEF Completes
  <2>2. ASSUME NEW b \in Anims PROVE AnimOK(b)'
    <3>1. AnimOK(b)
      BY DEF EffectsInv, AnimInv
    <3>2. CASE b = a
      <4>1. a \notin stopped' /\ AttachFrame(a) \in Range(frames')
        BY <1>1, <1>2, <1>14, <1>16
      <4> QED BY <1>1, <1>3, <1>15, <1>17, <3>2, <4>1 DEF AnimOK
    <3>3. CASE b # a
      <4>1. <<b, "done">> \in Settling /\ <<b, "fail">> \in Settling /\ <<b, "done">> # id
            /\ <<b, "fail">> # id
        BY <1>1, <3>3, Names
      <4>2. lists'[<<b, "done">>] = lists[<<b, "done">>] /\ lists'[<<b, "fail">>] = lists[<<b, "fail">>]
        BY <1>3, <4>1
      <4>3. b \in made' <=> b \in made
        BY <1>2, <3>3
      <4>4. /\ state'[b] = state[b] /\ target' = target /\ stopped' = stopped /\ lost' = lost
            /\ b \in Range(timers) => b \in Range(timers')
        BY <1>2, <1>3
      <4>5. /\ AttachFrame(b) \notin Range(frames)
            /\ \A f \in Range(frames) : f.code = "splice" => f \in Range(frames')
        <5>1. AttachFrame(b).code = "attach"
          BY DEF AttachFrame
        <5> QED BY <1>2, <1>4, <1>13, <1>14, <5>1
      <4> QED BY <3>1, <4>2, <4>3, <4>4, <4>5, AnimKept
    <3> QED BY <3>2, <3>3
  <2>3. timers' # <<>> => interval'
    BY <1>3
  <2> QED BY <2>1, <2>2, <2>3 DEF AnimInv
<1>21. WakeInv'
  <2>1. \A x \in Elems : \A f \in Range(frames) : LeadsTo(f, x) => Wakes(x)'
    <3> SUFFICES ASSUME NEW x \in Elems, NEW f \in Range(frames), LeadsTo(f, x) PROVE Wakes(x)'
      OBVIOUS
    <3>1. CASE f = Top
      <4>1. target[a] = x
        BY <1>1, <1>2, <3>1 DEF LeadsTo
      <4>2. LeadsTo(n, x)'
        BY <1>2, <1>7, <4>1 DEF LeadsTo
      <4> QED BY <1>14, <4>2 DEF Wakes
    <3>2. CASE f # Top
      <4>1. f \in Range(Below) /\ f \in Range(frames')
        BY <1>4, <1>14, <3>2
      <4>2. f \in Frames /\ FrameOK(f)
        BY RangeType DEF EffectsInv, TypeInv, StackInv
      <4>3. f.code = "fire" /\ f.list[2] = "done" => lists'[f.list] = lists[f.list]
        <5> SUFFICES ASSUME f.code = "fire", f.list[2] = "done" PROVE lists'[f.list] = lists[f.list]
          OBVIOUS
        <5>1. f.list \in ListIds /\ lists[f.list].fired
          BY <4>2, FrameParts DEF FrameOK
        <5>2. f.list # id
          BY <1>17, <5>1
        <5>3. f.list \in Settling
          BY <5>1 DEF Settling, ListIds
        <5> QED BY <1>3, <5>2, <5>3
      <4>4. LeadsTo(f, x)'
        BY <1>15, <4>2, <4>3, LeadsKept
      <4> QED BY <4>1, <4>4 DEF Wakes
    <3> QED BY <3>1, <3>2
  <2>2. /\ WakeInv /\ (threw' \/ ~threw) /\ timeouts' = timeouts /\ data' = data /\ state' = state
        /\ forgotten' = forgotten
    BY <1>2 DEF EffectsInv, WakeInv
  <2> QED BY <1>15, <2>1, <2>2, WakeKept DEF Due
<1>22. PromiseInv'
  <2>1. made' \cap Counted = made \cap Counted
    BY <1>2, <1>5
  <2>2. \A f \in Range(frames') \cup Range(frames) :
           f.code = "empty" => f \in Range(frames') /\ f \in Range(frames)
    BY <1>2, <1>4, <1>7, <1>12, <1>13, <1>14
  <2>3. \A p \in Counted : /\ lists'[<<p, "done">>].fired = lists[<<p, "done">>].fired
                           /\ lists'[<<p, "fail">>].fired = lists[<<p, "fail">>].fired
    <3> TAKE p \in Counted
    <3>1. <<p, "done">> \in Settling /\ <<p, "fail">> \in Settling /\ <<p, "done">> # id
          /\ <<p, "fail">> # id
      BY <1>1, <1>5, Names
    <3> QED BY <1>3, <3>1
  <2>4. PromiseInv
    BY DEF EffectsInv
  <2> QED BY <1>2, <2>1, <2>2, <2>3, <2>4, PromiseKept
<1>23. TypeInv'
  <2>1. made \in SUBSET Deferreds /\ IsFiniteSet(made)
    BY DEF EffectsInv, TypeInv, DeferredTypes
  <2>2. made' \in SUBSET Deferreds /\ IsFiniteSet(made') /\ made' \cap Anims \subseteq Asked'
    BY <1>2, <1>3, <1>5, <1>15, <2>1, FS_AddElement
  <2> QED BY <1>2, <1>3, <1>15, <2>2, TypesKept DEF EffectsInv, TypeInv, DeferredTypes, EffectTypes
<1> QED BY <1>3, <1>18, <1>19, <1>20, <1>21, <1>22, <1>23 DEF EffectsInv

-----------------------------------------------------------------------------
(* Functions for the deferred of an animation.                             *)

\* After add, the function that ends in dequeue will be called, or the animation
\* has yet to settle.
LEMMA AddedWakes ==
    ASSUME EffectsInv, ~threw, NEW a \in made \cap Anims, NEW id, id = <<a, "done">>,
           UNCHANGED <<state, made, target>>, ~lists[<<a, "fail">>].fired,
           lists'[id] \in List, lists'[id].on = lists[id].on,
           lists[id].on => lists'[id].fns = Append(lists[id].fns, Internal("complete")),
           \/ /\ lists'[id].next = lists[id].next
              /\ lists[id].on => ~lists[id].memory \/ lists[id].firing
              /\ lists[id].on /\ lists[id].firing => lists'[id].length = Len(lists'[id].fns)
           \/ /\ FireFrame(id) \in Range(frames')
              /\ lists'[id].next = Len(lists[id].fns) + 1
              /\ lists'[id].length = Len(lists'[id].fns),
           FireFrame(id) \in Range(frames) => FireFrame(id) \in Range(frames')
    PROVE  Wakes(target[a])'
<1>1. /\ a \in Anims /\ a \in Deferreds /\ a \in Asked /\ id \in ListIds /\ id[1] = a
      /\ id[2] = "done" /\ Asked' = Asked /\ a \in made' /\ target'[a] = target[a]
      /\ state'[a] = state[a] /\ <<a, "fail">> \in ListIds
  BY Names DEF EffectsInv, TypeInv, EffectTypes, Asked
<1>2. CASE state[a] = "pending"
  BY <1>1, <1>2 DEF Wakes
<1>3. CASE state[a] # "pending"
  <2>1. PICK l, m : l = lists[id] /\ m = lists'[id]
    OBVIOUS
  <2>2. /\ l \in List /\ ListOK(l) /\ Good("done", l, state[a])
        /\ state[a] \in {"resolved", "rejected"} /\ Good("fail", lists[<<a, "fail">>], state[a])
    BY <1>1, <1>3, <2>1, ListOf DEF EffectsInv
  <2>3. state[a] = "resolved"
    BY <2>2 DEF Good, Outcome
  <2>4. l.on /\ l.fired /\ l.memory = l.fired /\ (l.firing => l.length = Len(l.fns))
    BY <2>2, <2>3 DEF Good, Outcome
  <2>5. /\ l.fns \in Seq(Entry) /\ l.next \in Nat /\ l.length \in Nat /\ l.next <= l.length + 1
        /\ m.fns \in Seq(Entry) /\ m.next \in Nat /\ m.length \in Nat /\ m.on
        /\ m.fns = Append(l.fns, Internal("complete"))
    BY <2>1, <2>2, <2>4, ListFields DEF ListOK
  <2>6. PICK i : i = Len(l.fns) + 1
    OBVIOUS
  <2>7. i \in DOMAIN m.fns /\ m.fns[i] = Internal("complete") /\ Len(m.fns) = i
    BY <2>5, <2>6
  <2>8. m.next <= i /\ i <= m.length /\ FireFrame(id) \in Range(frames')
    <3>1. CASE FireFrame(id) \in Range(frames') /\ m.next = Len(l.fns) + 1 /\ m.length = Len(m.fns)
      BY <2>5, <2>6, <2>7, <3>1
    <3>2. CASE m.next = l.next /\ l.firing /\ m.length = Len(m.fns)
      <4>1. FireFrame(id) \in Range(frames)
        BY <1>1, <2>1, <3>2 DEF EffectsInv, ListInv, LoopsOK
      <4> QED BY <2>4, <2>5, <2>6, <2>7, <3>2, <4>1
    <3>3. l.firing \in BOOLEAN
      BY <2>2, ListFields
    <3> QED BY <2>1, <2>4, <3>1, <3>2, <3>3
  <2>9. ToComplete(m)
    BY <2>5, <2>7, <2>8 DEF ToComplete
  <2>10. LeadsTo(FireFrame(id), target[a])'
    <3>1. FireFrame(id).code = "fire" /\ FireFrame(id).list = id
      BY DEF FireFrame
    <3> QED BY <1>1, <2>1, <2>9, <3>1 DEF LeadsTo
  <2> QED BY <2>8, <2>10 DEF Wakes
<1> QED BY <1>2, <1>3

\* A function is added to a list of the animation a, by code whose frames are rest
\* when add is over: where it is not the page's own, it is what attach adds.
AddsTo(a, id, e, f, rest) ==
    /\ a \in made \cap Anims /\ id = <<a, id[2]>> /\ id[2] \in {"done", "fail", "progress"}
    /\ e \in Entry /\ Allowed(e, id[2])
    /\ rest \in Seq(Frames) /\ Still(rest) /\ Apart(rest) /\ AddAll([x \in {id} |-> e], rest)
    /\ f \in Frames /\ f.code \in {"begun", "callback"} /\ FrameOK(f)
    /\ Range(rest) \subseteq {f} \cup Range(frames)
    /\ \A g \in Range(frames) : g \in Range(rest) \/ g = AttachFrame(a)
    /\ \A g \in Range(frames) : g.code # "empty"
    /\ \A g \in Range(frames) : g.code = "attach" =>
          /\ g = AttachFrame(a) /\ e = Internal("complete") /\ id[2] = "done"
          /\ ~lists[<<a, "fail">>].fired
    /\ id[2] = "done" => e = Internal("complete") /\ ~Completes(lists[id])
    /\ UNCHANGED <<state, made, remaining, threw, data, timers, interval, timeouts, target>>
    /\ UNCHANGED <<instant, stopped, lost, dropped, forgotten>>

LEMMA AddsKeep ==
    ASSUME EffectsInv, ~On("fire"), ~On("dequeue"), NEW a, NEW id, NEW e, NEW f, NEW rest,
           AddsTo(a, id, e, f, rest)
    PROVE  /\ frames' \in Seq(Frames) /\ ListsOK(lists')
           /\ ListInv' /\ StackInv' /\ QueueInv' /\ AnimInv' /\ WakeInv' /\ PromiseInv'
<1>1. /\ a \in made \cap Anims /\ id = <<a, id[2]>> /\ id[2] \in {"done", "fail", "progress"}
      /\ e \in Entry /\ Allowed(e, id[2]) /\ id[2] # "complete"
      /\ rest \in Seq(Frames) /\ Still(rest) /\ Apart(rest) /\ AddAll([x \in {id} |-> e], rest)
  BY DEF AddsTo
<1>2. /\ f \in Frames /\ f.code \in {"begun", "callback"} /\ FrameOK(f)
      /\ Range(rest) \subseteq {f} \cup Range(frames)
      /\ \A g \in Range(frames) : g \in Range(rest) \/ g = AttachFrame(a)
      /\ \A g \in Range(frames) : g.code # "empty"
      /\ \A g \in Range(frames) : g.code = "attach" =>
            /\ g = AttachFrame(a) /\ e = Internal("complete") /\ id[2] = "done"
            /\ ~lists[<<a, "fail">>].fired
      /\ id[2] = "done" => e = Internal("complete") /\ ~Completes(lists[id])
  BY DEF AddsTo
<1>3. /\ UNCHANGED <<state, made, remaining, threw, data, timers, interval, timeouts, target>>
      /\ UNCHANGED <<instant, stopped, lost, dropped, forgotten>>
  BY DEF AddsTo
<1>4. /\ id \in ListIds /\ id[1] = a /\ a \in Deferreds /\ a \in Anims /\ a \in made
      /\ a \notin Counted
  BY <1>1, Names DEF ListIds, Kinds
<1>5. AttachFrame(a).code = "attach" /\ AttachFrame(a).anim = a
  BY DEF AttachFrame
<1>6. \A g \in Range(frames) : g.code # "attach" => g \in Range(rest)
  BY <1>2, <1>5
<1>7. TypeInv /\ ListInv /\ StackInv /\ QueueInv /\ AnimInv /\ WakeInv /\ PromiseInv
  BY DEF EffectsInv
<1>8. /\ frames' \in Seq(Frames) /\ ListsOK(lists') /\ ListInv'
      /\ \A x \in ListIds : x # id => lists'[x] = lists[x]
      /\ lists'[id].on = lists[id].on
      /\ lists[id].on => lists'[id].fns = Append(lists[id].fns, e)
      /\ ~lists[id].on => lists'[id] = lists[id]
      /\ lists[id].fired => lists'[id].fired
      /\ id \in Settling => lists'[id].fired = lists[id].fired
      /\ \/ /\ frames' = rest /\ lists'[id].next = lists[id].next
            /\ lists[id].on => ~lists[id].memory \/ lists[id].firing
            /\ lists[id].on /\ lists[id].firing => lists'[id].length = Len(lists'[id].fns)
            /\ lists'[id].firing = lists[id].firing
         \/ /\ frames' = <<FireFrame(id)>> \o rest /\ lists[id].on /\ lists'[id].fired
            /\ lists'[id].next = Len(lists[id].fns) + 1
            /\ lists'[id].length = Len(lists'[id].fns)
            /\ lists[id].memory
      /\ Range(frames') \subseteq {FireFrame(id)} \cup Range(rest)
      /\ Range(rest) \subseteq Range(frames')
  <2>1. \A g \in Range(frames) : g.code = "fire" => g \in Range(rest)
    BY <1>6
  <2>2. state' = state /\ threw' = threw
    BY <1>3
  <2>3. CanAddTo(id, e, rest)
    BY <1>1, <1>4, <1>7, <2>1, <2>2 DEF CanAddTo
  <2>4. HasAddedTo(id, e, rest)
    BY <2>3, AddMoves
  <2> QED BY <2>4 DEF HasAddedTo
<1>9. PICK g : g = FireFrame(id)
  OBVIOUS
<1>10. g \in Frames /\ g.code = "fire" /\ g.list = id /\ Held(g) = {}
  <2>1. g \in Frames /\ g.code = "fire" /\ g.list = id
    BY <1>4, <1>9, FrameTypes DEF FireFrame
  <2> QED BY <2>1, HeldFacts
<1>11. \A h \in Range(rest) : h.code \notin {"attach", "empty", "begin"}
  BY <1>1 DEF Still, Delicate, Range
<1>12. /\ Calm(rest) /\ Held(f) = {}
       /\ frames' = rest \/ (frames' = <<FireFrame(id)>> \o rest /\ lists'[id].fired)
  <2>1. Calm(rest)
    BY <1>1 DEF Still, Calm
  <2>2. Held(f) = {}
    BY <1>2, HeldFacts
  <2> QED BY <1>8, <2>1, <2>2
<1>13. /\ Asked' = Asked /\ (\A b \in Asked : target'[b] = target[b]) /\ made \subseteq made'
       /\ made \cap Anims \subseteq Asked /\ a \in Asked
  BY <1>1, <1>3, <1>7 DEF TypeInv, EffectTypes, Asked
<1>14. /\ \A x \in ListIds : lists[x].fired => lists'[x].fired
       /\ \A x \in Settling : lists'[x].fired = lists[x].fired
  BY <1>8, Names
<1>15. StackInv'
  <2>1. Calm(frames') /\ Apart(frames')
    BY <1>1, <1>4, <1>12, FiredStack
  <2>2. PICK N, O : /\ N = {f} \cup (IF frames' = rest THEN {} ELSE {g})
                    /\ O = Range(frames) \cap Range(rest)
    OBVIOUS
  <2>3. Range(frames') \subseteq N \cup O
    BY <1>2, <1>8, <1>9, <2>2
  <2>4. \A h \in N : FrameOK(h)'
    <3>1. FrameOK(f)'
      BY <1>2, <1>3, <1>13 DEF FrameOK
    <3>2. lists'[id].fired => FrameOK(g)'
      BY <1>10 DEF FrameOK
    <3> QED BY <1>12, <2>2, <3>1, <3>2
  <2>5. \A h \in O : made' \cap Held(h) \subseteq made
    BY <1>3
  <2>6. /\ O \in SUBSET Range(frames)
        /\ \A h \in O : h.code = "attach" =>
              ~lists'[<<h.anim, "fail">>].fired /\ ~Completes(lists'[<<h.anim, "done">>])
    BY <1>11, <2>2
  <2>7. \A b \in Anims : state[b] # "pending" => state'[b] # "pending"
    BY <1>3
  <2>8. Asked \subseteq Asked' /\ made \subseteq made'
    BY <1>13
  <2> HIDE <1>1, <1>2, <1>3, <1>8, <1>12, <1>13
  <2> QED BY <1>7, <1>14, <2>1, <2>3, <2>4, <2>5, <2>6, <2>7, <2>8, StackKept
<1>16. \A h \in Range(frames) : h.code # "attach" => h \in Range(frames')
  BY <1>6, <1>8
<1>17. QueueInv'
  <2>1. \A x \in Elems : made' \cap Range(data[x].queue) \subseteq made
    BY <1>3
  <2>2. \A h \in Range(frames') : Held(h) = {} \/ h \in Range(frames)
    BY <1>2, <1>8, <1>9, <1>10, <1>12
  <2>3. threw' \/ (~threw /\ \A h \in Range(frames) :
                                 h.code \in {"dequeue", "finish"} => h \in Range(frames'))
    BY <1>3, <1>7, <1>16 DEF TypeInv, DeferredTypes
  <2>4. UNCHANGED <<data, timeouts, target>> /\ made \subseteq made'
    BY <1>3
  <2> HIDE <1>1, <1>2, <1>3, <1>8, <1>12, <1>13
  <2> QED BY <1>7, <2>1, <2>2, <2>3, <2>4, QueueKept
<1>18. \A d \in Deferreds : Completes(lists[<<d, "done">>]) => Completes(lists'[<<d, "done">>])
  <2> SUFFICES ASSUME NEW d \in Deferreds, Completes(lists[<<d, "done">>])
               PROVE  Completes(lists'[<<d, "done">>])
    OBVIOUS
  <2>1. <<d, "done">> # id
    BY <1>2
  <2> QED BY <1>8, <2>1, Names
<1>19. id[2] = "done" /\ lists[id].on => Completes(lists'[id])
  <2> SUFFICES ASSUME id[2] = "done", lists[id].on PROVE Completes(lists'[id])
    OBVIOUS
  <2>1. PICK q, u : q = lists[id].fns /\ u = lists'[id].fns
    OBVIOUS
  <2>2. q \in Seq(Entry)
    BY <1>4, <1>7, <2>1, ListOf, ListFields
  <2>3. u = Append(q, e) /\ e = Internal("complete")
    BY <1>2, <1>8, <2>1
  <2>4. u[Len(q) + 1] = e /\ Len(q) + 1 \in DOMAIN u
    BY <1>1, <2>2, <2>3
  <2> QED BY <2>1, <2>3, <2>4 DEF Completes
<1>20. AnimInv'
  <2>1. \A d \in Deferreds : Completes(lists'[<<d, "done">>]) => d \in made' \cap Anims
    <3> SUFFICES ASSUME NEW d \in Deferreds, Completes(lists'[<<d, "done">>])
                 PROVE  d \in made' \cap Anims
      OBVIOUS
    <3>1. CASE <<d, "done">> = id
      BY <1>1, <1>3, <1>4, <3>1
    <3>2. CASE <<d, "done">> # id
      <4>1. lists'[<<d, "done">>] = lists[<<d, "done">>]
        BY <1>8, <3>2, Names
      <4> QED BY <1>3, <1>7, <4>1 DEF AnimInv
    <3> QED BY <3>1, <3>2
  <2>2. ASSUME NEW b \in Anims PROVE AnimOK(b)'
    <3>1. AnimOK(b) /\ b \in Deferreds /\ <<b, "done">> \in ListIds
          /\ <<b, "done">> \in Settling /\ <<b, "fail">> \in Settling
      BY <1>7, Names DEF AnimInv
    <3>2. /\ lists'[<<b, "done">>].fired = lists[<<b, "done">>].fired
          /\ lists'[<<b, "fail">>].fired = lists[<<b, "fail">>].fired
      BY <1>14, <3>1
    <3>3. state[b] = "pending" =>
             /\ Completes(lists[<<b, "done">>]) => Completes(lists'[<<b, "done">>])
             /\ AttachFrame(b) \in Range(frames) =>
                   AttachFrame(b) \in Range(frames') \/ Completes(lists'[<<b, "done">>])
             /\ lists[<<b, "fail">>].fired => \A h \in Range(frames) :
                   h.code = "splice" => h \in Range(frames')
      <4>1. \A h \in Range(frames) : h.code = "splice" => h \in Range(frames')
        BY <1>16
      <4>2. state[b] = "pending" /\ AttachFrame(b) \in Range(frames) =>
               Completes(lists'[<<b, "done">>])
        <5> SUFFICES ASSUME state[b] = "pending", AttachFrame(b) \in Range(frames)
                     PROVE  Completes(lists'[<<b, "done">>])
          OBVIOUS
        <5>1. AttachFrame(b).code = "attach" /\ AttachFrame(b).anim = b
          BY DEF AttachFrame
        <5>2. b = a /\ id[2] = "done"
          BY <1>2, <1>5, <5>1
        <5>3. Good("done", lists[<<b, "done">>], state[b])
          BY <1>7, <3>1, ListOf
        <5>4. lists[<<b, "done">>].on
          BY <5>3 DEF Good
        <5> QED BY <1>1, <1>19, <5>2, <5>4
      <4> QED BY <1>18, <3>1, <4>1, <4>2
    <3>4. /\ target'[b] = target[b] /\ (b \in made' <=> b \in made) /\ state'[b] = state[b]
          /\ (b \in stopped' => b \in stopped) /\ (b \in lost => b \in lost')
          /\ b \in Range(timers) => b \in Range(timers')
      BY <1>3
    <3> HIDE <1>1, <1>2, <1>3, <1>8, <1>12, <1>13
    <3> QED BY <3>1, <3>2, <3>3, <3>4, AnimKept
  <2>3. timers' # <<>> => interval'
    BY <1>3, <1>7 DEF AnimInv
  <2> QED BY <2>1, <2>2, <2>3 DEF AnimInv
<1>21. WakeInv'
  <2>0. CASE threw
    BY <1>3, <2>0 DEF WakeInv
  <2>1. CASE ~threw
    <3>1. \A x \in Elems : \A h \in Range(frames) : LeadsTo(h, x) => Wakes(x)'
      <4> SUFFICES ASSUME NEW x \in Elems, NEW h \in Range(frames), LeadsTo(h, x) PROVE Wakes(x)'
        OBVIOUS
      <4>1. CASE h.code = "attach"
        <5>1. h = AttachFrame(a) /\ e = Internal("complete") /\ id = <<a, "done">>
              /\ ~lists[<<a, "fail">>].fired
          BY <1>1, <1>2, <4>1
        <5>2. target[a] = x
          BY <1>5, <4>1, <5>1 DEF LeadsTo
        <5>3. lists'[id] \in List
          BY <1>4, <1>8 DEF ListsOK
        <5>4. g \in Range(frames) => g \in Range(frames')
          BY <1>10, <1>16
        <5>5. \/ /\ lists'[id].next = lists[id].next
                 /\ lists[id].on => ~lists[id].memory \/ lists[id].firing
                 /\ lists[id].on /\ lists[id].firing => lists'[id].length = Len(lists'[id].fns)
              \/ /\ g \in Range(frames')
                 /\ lists'[id].next = Len(lists[id].fns) + 1
                 /\ lists'[id].length = Len(lists'[id].fns)
          <6>1. frames' = <<g>> \o rest => g \in Range(frames')
            BY <1>1, <1>10, PushFacts
          <6> QED BY <1>8, <1>9, <6>1
        <5>6. Wakes(target[a])'
          <6>1. UNCHANGED <<state, made, target>>
            BY <1>3
          <6>2. lists'[id].on = lists[id].on
                /\ (lists[id].on => lists'[id].fns = Append(lists[id].fns, Internal("complete")))
            BY <1>8, <5>1
          <6>3. a \in made \cap Anims
            BY <1>1
          <6> HIDE <1>1, <1>2, <1>3, <1>8, <1>12, <1>13
          <6> QED BY <1>9, <2>1, <5>1, <5>3, <5>4, <5>5, <6>1, <6>2, <6>3, AddedWakes
        <5>7. target'[a] = x
          BY <1>3, <5>2
        <5> QED BY <5>6, <5>7
      <4>2. CASE h.code # "attach"
        <5>1. h \in Frames /\ FrameOK(h) /\ h \in Range(frames')
          BY <1>7, <1>16, <4>2, RangeType DEF TypeInv, StackInv
        <5>2. h.code = "fire" /\ h.list[2] = "done" =>
                 (ToComplete(lists[h.list]) => ToComplete(lists'[h.list]))
          <6> SUFFICES ASSUME h.code = "fire", ToComplete(lists[h.list]), h.list[2] = "done"
                       PROVE  ToComplete(lists'[h.list])
            OBVIOUS
          <6>1. h.list \in ListIds /\ Completes(lists[h.list])
            BY <5>1, FrameParts DEF ToComplete, Completes
          <6>2. h.list # id
            BY <1>2, <6>1
          <6> QED BY <1>8, <6>1, <6>2
        <5>3. LeadsTo(h, x)'
          BY <1>13, <5>1, <5>2, LeadsKept
        <5> QED BY <5>1, <5>3 DEF Wakes
      <4> QED BY <4>1, <4>2
    <3>2. /\ (threw' \/ ~threw) /\ timeouts' = timeouts /\ data' = data /\ state' = state
          /\ forgotten' = forgotten
      BY <1>3, <2>1
    <3> QED BY <1>7, <1>13, <3>1, <3>2, WakeKept DEF Due
  <2> QED BY <2>0, <2>1
<1>22. PromiseInv'
  <2>1. \A h \in Range(frames') \cup Range(frames) :
           h.code = "empty" => h \in Range(frames') /\ h \in Range(frames)
    BY <1>2, <1>8, <1>9, <1>10, <1>11
  <2>2. \A p \in Counted : /\ lists'[<<p, "done">>].fired = lists[<<p, "done">>].fired
                           /\ lists'[<<p, "fail">>].fired = lists[<<p, "fail">>].fired
    BY <1>14, Names
  <2>3. /\ UNCHANGED <<remaining, dropped>> /\ made' \cap Counted = made \cap Counted
        /\ \A x \in Elems : data'[x].waiters = data[x].waiters
    BY <1>3
  <2> HIDE <1>1, <1>2, <1>3, <1>8, <1>12, <1>13
  <2> QED BY <1>7, <2>1, <2>2, <2>3, PromiseKept
<1> QED BY <1>8, <1>15, <1>17, <1>20, <1>21, <1>22

\* doAnimation: done(complete).
LEMMA AttachKeeps == EffectsInv /\ Attach => EffectsInv'
<1> SUFFICES ASSUME EffectsInv, Attach PROVE EffectsInv'
  OBVIOUS
<1>1. PICK a, id, e, f, rest : /\ a = Top.anim /\ id = <<a, "done">> /\ e = Internal("complete")
                               /\ f = BegunFrame(a) /\ rest = <<f>> \o Below
  OBVIOUS
<1>2. /\ frames # <<>> /\ Top.code = "attach" /\ AddAll([x \in {id} |-> e], rest)
      /\ UNCHANGED <<parts, functions, registered, state, follows, called, made, remaining>>
      /\ UNCHANGED <<threw, data, timers, interval, timeouts, target, instant, stopped, calls>>
      /\ UNCHANGED <<lost, dropped, forgotten>>
  BY <1>1 DEF Attach, On, stillVars, effectVars
<1>3. /\ Top \in Frames /\ FrameOK(Top) /\ Below \in Seq(Frames) /\ Still(Below) /\ Apart(Below)
      /\ Range(frames) = {Top} \cup Range(Below)
  BY <1>2, TopFacts DEF EffectsInv
<1>4. /\ a \in made \cap Anims /\ a \in Asked /\ Top = AttachFrame(a)
      /\ ~lists[<<a, "fail">>].fired /\ ~Completes(lists[id])
  BY <1>1, <1>2, <1>3, FrameParts DEF FrameOK
<1>5. f \in Frames /\ f.code = "begun" /\ FrameOK(f) /\ ~Delicate(f) /\ Held(f) = {}
  <2>1. f \in Frames /\ f.code = "begun" /\ f.anim = a
    BY <1>1, <1>4, FrameTypes DEF BegunFrame
  <2> QED BY <1>4, <2>1, HeldFacts DEF FrameOK, Delicate
<1>6. rest \in Seq(Frames) /\ Range(rest) = {f} \cup Range(Below)
  BY <1>1, <1>3, <1>5, PushFacts
<1>7. Still(rest) /\ Apart(rest)
  BY <1>1, <1>3, <1>5, StillPush, ApartPush
<1>8. \A g \in Range(Below) : g.code \notin {"attach", "empty"}
  BY <1>3 DEF Still, Delicate, Range
<1>9. e \in Entry /\ Allowed(e, "done")
  BY <1>1 DEF Entry, Internal, Allowed
<1>10. AddsTo(a, id, e, f, rest)
  <2>1. id = <<a, id[2]>> /\ id[2] = "done"
    BY <1>1
  <2>2. /\ \A g \in Range(frames) : g \in Range(rest) \/ g = AttachFrame(a)
        /\ \A g \in Range(frames) : g.code # "empty"
        /\ \A g \in Range(frames) : g.code = "attach" => g = AttachFrame(a)
        /\ Range(rest) \subseteq {f} \cup Range(frames)
    BY <1>2, <1>3, <1>4, <1>6, <1>8
  <2>3. /\ UNCHANGED <<state, made, remaining, threw, data, timers, interval, timeouts, target>>
        /\ UNCHANGED <<instant, stopped, lost, dropped, forgotten>> /\ AddAll([x \in {id} |-> e], rest)
    BY <1>2
  <2> QED BY <1>1, <1>4, <1>5, <1>6, <1>7, <1>9, <2>1, <2>2, <2>3 DEF AddsTo
<1>11. ~On("fire") /\ ~On("dequeue")
  BY <1>2 DEF On
<1>12. /\ frames' \in Seq(Frames) /\ ListsOK(lists')
       /\ ListInv' /\ StackInv' /\ QueueInv' /\ AnimInv' /\ WakeInv' /\ PromiseInv'
  BY <1>10, <1>11, AddsKeep
<1>13. TypeInv'
  <2>1. Asked' = Asked
    BY <1>2 DEF Asked
  <2> QED BY <1>2, <1>12, <2>1, TypesKept DEF EffectsInv, TypeInv, DeferredTypes, EffectTypes
<1> QED BY <1>12, <1>13 DEF EffectsInv

\* fail and progress, which the page calls on the promise of an animation.
LEMMA PageDeferredKeeps == EffectsInv /\ PageDeferred => EffectsInv'
<1> SUFFICES ASSUME EffectsInv, PageDeferred PROVE EffectsInv'
  OBVIOUS
<1>1. PICK a \in Anims, k \in {"fail", "progress"} : Add(a, k)
  BY DEF PageDeferred
<1>2. PICK id, n, e, f : /\ id = <<a, k>> /\ n = functions + 1 /\ e = User(n)
                         /\ f = BegunFrame(a)
  OBVIOUS
<1>3. /\ PageCalls /\ a \in made /\ Room(1) /\ functions' = n
      /\ AddAll([x \in {id} |-> e], frames)
      /\ registered' = [x \in ListIds |-> IF x \in {id} THEN Append(registered[x], n)
                                          ELSE registered[x]]
      /\ UNCHANGED <<state, made, remaining, parts, follows, called, threw>>
      /\ UNCHANGED <<data, timers, interval, timeouts, target, instant, stopped, lost, dropped, forgotten>>
  BY <1>1, <1>2 DEF PageDeferred, Add, MakesFn, NewFn, Registers
<1>4. /\ Still(frames) /\ ~On("fire") /\ ~On("dequeue")
      /\ frames \in Seq(Frames) /\ Range(frames) \subseteq Frames
  BY <1>3, PageTop DEF EffectsInv, PageCalls
<1>5. n \in 1 .. MaxObjects
  <2>1. functions \in 0 .. MaxObjects /\ MaxObjects \in Nat /\ IsFiniteSet(made)
    BY DeferredAssumption DEF EffectsInv, TypeInv, DeferredTypes
  <2>2. made \cap Counted \in SUBSET made
    OBVIOUS
  <2>3. Cardinality(made \cap Counted) \in Nat
    BY <2>1, <2>2, FS_Subset, FS_CardinalityType
  <2>4. functions + Cardinality(made \cap Counted) + 1 <= MaxObjects
    BY <1>3 DEF Room
  <2> QED BY <1>2, <2>1, <2>3, <2>4
<1>6. e \in Entry /\ Allowed(e, k)
  BY <1>2, <1>5 DEF Entry, User, Fns, Allowed
<1>7. a \in made \cap Anims /\ a \in Asked
  BY <1>1, <1>3 DEF EffectsInv, TypeInv, EffectTypes
<1>8. f \in Frames /\ f.code = "begun" /\ FrameOK(f)
  <2>1. f \in Frames /\ f.code = "begun" /\ f.anim = a
    BY <1>2, FrameTypes DEF BegunFrame
  <2> QED BY <1>7, <2>1 DEF FrameOK
<1>9. \A g \in Range(frames) : g.code \notin {"attach", "empty"}
  BY <1>4 DEF Still, Delicate, Range
<1>10. AddsTo(a, id, e, f, frames)
  <2>1. id = <<a, id[2]>> /\ id[2] = k /\ k # "done" /\ k \in {"done", "fail", "progress"}
    BY <1>2
  <2>2. Apart(frames)
    BY DEF EffectsInv, StackInv
  <2>3. /\ UNCHANGED <<state, made, remaining, threw, data, timers, interval, timeouts, target>>
        /\ UNCHANGED <<instant, stopped, lost, dropped, forgotten>> /\ AddAll([x \in {id} |-> e], frames)
    BY <1>3
  <2> QED BY <1>4, <1>6, <1>7, <1>8, <1>9, <2>1, <2>2, <2>3 DEF AddsTo
<1>11. /\ frames' \in Seq(Frames) /\ ListsOK(lists')
       /\ ListInv' /\ StackInv' /\ QueueInv' /\ AnimInv' /\ WakeInv' /\ PromiseInv'
  BY <1>4, <1>10, AddsKeep
<1>12. TypeInv'
  <2>1. Asked' = Asked
    BY <1>3 DEF Asked
  <2>2. functions' \in 0 .. MaxObjects
    BY <1>3, <1>5
  <2>3. registered' \in [ListIds -> Seq(Fns)]
    <3>1. registered \in [ListIds -> Seq(Fns)] /\ n \in Fns
      BY <1>5 DEF EffectsInv, TypeInv, DeferredTypes, Fns
    <3> QED BY <1>3, <3>1
  <2>4. calls' \in 0 .. MaxCalls
    BY <1>3, CallsBound
  <2> QED BY <1>3, <1>11, <2>1, <2>2, <2>3, <2>4, TypesKept
          DEF EffectsInv, TypeInv, DeferredTypes, EffectTypes
<1> QED BY <1>11, <1>12 DEF EffectsInv

-----------------------------------------------------------------------------
(* The theorems.                                                           *)

\* A page in which nothing has happened.
LEMMA EffectsInvInit == Init => EffectsInv
<1> SUFFICES ASSUME Init PROVE EffectsInv
  OBVIOUS
<1>1. /\ lists = [id \in ListIds |-> NewList(id[2])] /\ frames = <<>>
      /\ state = [d \in Deferreds |-> "pending"] /\ made = {}
      /\ remaining = [d \in Deferreds |-> 0] /\ functions = 0
      /\ parts = [d \in Deferreds |-> {}] /\ follows = [d \in Deferreds |-> d]
      /\ registered = [id \in ListIds |-> <<>>] /\ called = [id \in ListIds |-> <<>>]
      /\ threw = FALSE
  BY DEF Init, DeferredInit
<1>2. /\ data = [e \in Elems |-> NoData] /\ timers = <<>> /\ interval = FALSE
      /\ timeouts = [e \in Elems |-> 0] /\ target = <<>> /\ instant = {} /\ stopped = {}
      /\ calls = 0 /\ lost = {} /\ dropped = {} /\ forgotten = {}
  BY DEF Init
<1>3. \A k \in Kinds :
         /\ NewList(k) \in List /\ ListOK(NewList(k)) /\ Good(k, NewList(k), "pending")
         /\ ~NewList(k).fired /\ ~NewList(k).firing /\ ~Completes(NewList(k))
  <2> TAKE k \in Kinds
  <2>1. PICK q : q = (IF k \in {"done", "fail"} THEN <<SettleEntry>> ELSE <<>>)
    OBVIOUS
  <2>2. PICK l : l = [on |-> TRUE, open |-> k = "progress", memory |-> FALSE, fired |-> FALSE,
                      firing |-> FALSE, next |-> 1, length |-> 0, queued |-> 0, fns |-> q]
    OBVIOUS
  <2>3. l = NewList(k)
    BY <2>1, <2>2 DEF NewList
  <2>4. /\ q \in Seq(Entry) /\ \A i \in DOMAIN q : q[i] = SettleEntry
        /\ k \in {"done", "fail"} => q # <<>> /\ q[1] = SettleEntry
        /\ k \notin {"done", "fail"} => DOMAIN q = {}
    <3>1. SettleEntry \in Entry
      BY DEF Entry
    <3>2. CASE k \in {"done", "fail"}
      BY <2>1, <3>1, <3>2
    <3>3. CASE k \notin {"done", "fail"}
      BY <2>1, <3>3
    <3> QED BY <3>2, <3>3
  <2>5. /\ l.on /\ (k # "progress" => ~l.open) /\ ~l.memory /\ ~l.fired /\ ~l.firing /\ l.next = 1
        /\ l.length = 0 /\ l.fns = q
    BY <2>2
  <2>6. l \in List
    BY <2>2, <2>4 DEF List
  <2>7. ListOK(l)
    BY <2>4, <2>5 DEF ListOK
  <2>8. \A i \in DOMAIN q : Allowed(q[i], k)
    BY <2>4 DEF Kinds, Allowed
  <2>9. Good(k, l, "pending")
    <3>1. Outcome(k) # "pending"
      BY DEF Outcome
    <3>2. l.on /\ ~l.firing /\ l.next = 1 /\ l.fns = q /\ (l.fired = l.firing) /\ (l.memory = l.fired)
      BY <2>2
    <3>3. k \in {"done", "fail"} => ~l.open /\ q # <<>> /\ q[1] = SettleEntry
      BY <2>4, <2>5
    <3> QED BY <2>8, <3>1, <3>2, <3>3 DEF Good
  <2>10. ~Completes(l)
    <3>1. SettleEntry # Internal("complete")
      BY DEF SettleEntry, Internal
    <3> QED BY <2>4, <2>5, <3>1 DEF Completes
  <2> QED BY <2>3, <2>5, <2>6, <2>7, <2>9, <2>10
<1>4. \A id \in ListIds : /\ lists[id] = NewList(id[2]) /\ id[2] \in Kinds /\ id[1] \in Deferreds
                          /\ state[id[1]] = "pending"
  BY <1>1 DEF ListIds
<1>5. Range(frames) = {} /\ DOMAIN frames = {} /\ frames \in Seq(Frames)
  BY <1>1 DEF Range
<1>6. \A id \in ListIds : /\ lists[id] \in List /\ ListOK(lists[id])
                          /\ Good(id[2], lists[id], state[id[1]])
                          /\ ~lists[id].fired /\ ~lists[id].firing /\ ~Completes(lists[id])
  BY <1>3, <1>4
<1>7. \A e \in Elems : data[e] = NoData /\ timeouts[e] = 0
  BY <1>2
<1>8. NoData \in Datum /\ NoData.queue = <<>> /\ NoData.stop = "none" /\ NoData.waiters = <<>>
      /\ NoData.finish = FALSE
  BY DEF NoData, Datum
<1>9. TypeInv
  <2>1. ListsOK(lists)
    BY <1>1, <1>6 DEF ListsOK
  <2>2. DeferredTypes
    <3>1. MaxObjects \in Nat /\ IsFiniteSet({})
      BY FS_EmptySet, DeferredAssumption
    <3>2. functions \in 0 .. MaxObjects /\ made \in SUBSET Deferreds /\ IsFiniteSet(made)
      BY <1>1, <3>1
    <3>3. /\ state \in [Deferreds -> {"pending", "resolved", "rejected"}]
          /\ remaining \in [Deferreds -> Int] /\ follows \in [Deferreds -> Deferreds]
          /\ parts \in [Deferreds -> SUBSET Deferreds] /\ threw \in BOOLEAN
      <4>1. follows \in [Deferreds -> Deferreds] /\ threw \in BOOLEAN
        BY <1>1
      <4>2. remaining \in [Deferreds -> Int] /\ parts \in [Deferreds -> SUBSET Deferreds]
        BY <1>1
      <4>3. state \in [Deferreds -> {"pending", "resolved", "rejected"}]
        BY <1>1
      <4> QED BY <4>1, <4>2, <4>3
    <3>4. registered \in [ListIds -> Seq(Fns)] /\ called \in [ListIds -> Seq(Fns)]
      <4>1. <<>> \in Seq(Fns)
        OBVIOUS
      <4> QED BY <1>1, <4>1
    <3> QED BY <3>2, <3>3, <3>4 DEF DeferredTypes
  <2>3. Asked = {} /\ target \in [Asked -> Elems]
    BY <1>2 DEF Asked
  <2>4. EffectTypes
    <3>1. data \in [Elems -> Datum] /\ timeouts \in [Elems -> Nat]
      BY <1>2, <1>8
    <3>2. calls \in 0 .. MaxCalls
      BY <1>2, EffectsAssumption
    <3>3. /\ timers \in Seq(made \cap Asked) /\ interval \in BOOLEAN
          /\ instant \in SUBSET Asked /\ stopped \in SUBSET Asked /\ lost \in SUBSET Asked
          /\ dropped \in SUBSET Counted /\ forgotten \in SUBSET Elems
          /\ made \cap Anims \subseteq Asked
      <4>1. timers \in Seq(made \cap Asked) /\ interval \in BOOLEAN
        <5>1. interval \in BOOLEAN
          BY <1>2
        <5>2. timers = <<>>
          BY <1>2
        <5>3. PICK S : S = made \cap Asked
          OBVIOUS
        <5>4. <<>> \in Seq(S)
          OBVIOUS
        <5> QED BY <5>1, <5>2, <5>3, <5>4
      <4>2. /\ instant \in SUBSET Asked /\ stopped \in SUBSET Asked /\ lost \in SUBSET Asked
            /\ dropped \in SUBSET Counted /\ forgotten \in SUBSET Elems
        BY <1>2
      <4> QED BY <1>1, <4>1, <4>2
    <3>4. Asked \in SUBSET Anims
      BY <2>3
    <3> QED BY <2>3, <3>1, <3>2, <3>3, <3>4 DEF EffectTypes
  <2> QED BY <1>5, <2>1, <2>2, <2>4 DEF TypeInv
<1>10. ListInv
  <2>1. PendingOK(lists, state, frames)
    BY <1>6, Names DEF PendingOK
  <2>2. LoopsOK(lists, frames, threw)
    BY <1>6, Names DEF LoopsOK
  <2> QED BY <1>6, <2>1, <2>2 DEF ListInv
<1>11. StackInv
  BY <1>5 DEF StackInv, Calm, Apart
<1>12. QueueInv
  <2>1. DOMAIN <<>> = {} /\ Range(<<>>) = {}
    BY DEF Range
  <2>2. ASSUME NEW e \in Elems PROVE QueueOK(e, data[e].queue) /\ DatumOK(e, data[e])
    <3>1. QueueOK(e, <<>>)
      BY <1>5, <2>1 DEF QueueOK, Once
    <3>2. DatumOK(e, NoData)
      BY <1>5, <1>8, <2>1 DEF DatumOK, Distinct
    <3> QED BY <1>7, <1>8, <3>1, <3>2
  <2> QED BY <2>2 DEF QueueInv
<1>13. AnimInv
  BY <1>1, <1>2, <1>4, <1>6, Names DEF AnimInv, AnimOK, Ends
<1>14. WakeInv
  <2>1. ~NoData.hooks
    BY DEF NoData
  <2> QED BY <1>7, <1>8, <2>1, EmptyQueue DEF WakeInv, Due
<1>15. PromiseInv
  BY <1>1, <1>6, Names DEF PromiseInv, PromiseOK
<1> QED BY <1>9, <1>10, <1>11, <1>12, <1>13, <1>14, <1>15 DEF EffectsInv

\* A step that changes nothing.
LEMMA EffectsStutter == EffectsInv /\ UNCHANGED vars => EffectsInv'
<1> SUFFICES ASSUME EffectsInv, UNCHANGED vars PROVE EffectsInv'
  OBVIOUS
<1>1. /\ UNCHANGED <<lists, frames, state, remaining, follows, called, threw, made, parts>>
      /\ UNCHANGED <<functions, registered, data, timers, interval, timeouts, target, instant>>
      /\ UNCHANGED <<stopped, calls, lost, dropped, forgotten>>
  BY DEF vars, deferredVars, effectVars, givenVars
<1>2. Asked' = Asked /\ \A code : On(code)' <=> On(code)
  BY <1>1 DEF Asked, On, Top
<1>3. TypeInv' /\ ListInv'
  BY <1>1, <1>2 DEF EffectsInv, TypeInv, DeferredTypes, EffectTypes, ListInv
<1>4. StackInv'
  <2>1. \A f : FrameOK(f)' <=> FrameOK(f)
    BY <1>1, <1>2 DEF FrameOK, Ends
  <2> QED BY <1>1, <2>1 DEF EffectsInv, StackInv
<1>5. QueueInv'
  <2>1. \A e : QueueOK(e, data[e].queue)' <=> QueueOK(e, data[e].queue)
    BY <1>1, <1>2 DEF QueueOK
  <2>2. \A e : DatumOK(e, data[e])' <=> DatumOK(e, data[e])
    BY <1>1, <1>2 DEF DatumOK, On, Top
  <2> QED BY <2>1, <2>2 DEF EffectsInv, QueueInv
<1>6. AnimInv'
  <2>1. \A a : AnimOK(a)' <=> AnimOK(a)
    BY <1>1 DEF AnimOK, Ends
  <2> QED BY <1>1, <2>1 DEF EffectsInv, AnimInv
<1>7. WakeInv'
  <2>1. \A f, e : LeadsTo(f, e)' <=> LeadsTo(f, e)
    BY <1>1, <1>2 DEF LeadsTo
  <2>2. \A e : Wakes(e)' <=> Wakes(e)
    BY <1>1, <2>1 DEF Wakes
  <2> QED BY <1>1, <2>2 DEF EffectsInv, WakeInv, Due
<1>8. PromiseInv'
  <2>1. \A p : (Told(p)' <=> Told(p)) /\ Waits(p)' = Waits(p)
    BY <1>1 DEF Told, Waits
  <2>2. \A p : PromiseOK(p)' <=> PromiseOK(p)
    BY <1>1, <2>1 DEF PromiseOK
  <2> QED BY <2>2 DEF EffectsInv, PromiseInv
<1> QED BY <1>3, <1>4, <1>5, <1>6, <1>7, <1>8 DEF EffectsInv

\* A step of the loop of fire(), or the return of a function.
LEMMA DeferredStepKeeps == EffectsInv /\ DeferredStep /\ UNCHANGED effectVars => EffectsInv'
<1> SUFFICES ASSUME EffectsInv, DeferredStep, UNCHANGED effectVars PROVE EffectsInv'
  OBVIOUS
<1>1. ASSUME On("fire"), HasNext PROVE NextEntry.kind \notin {"count", "forward"}
  <2>1. PICK id, l : id = Firing /\ l = lists[id]
    OBVIOUS
  <2>2. Allowed(NextEntry, id[2]) /\ id[2] \in Kinds
    BY <1>1, <2>1, FireTop
  <2>3. SettleEntry.kind = "settle" /\ Internal("complete").kind = "internal"
    BY DEF SettleEntry, Internal
  <2> QED BY <2>2, <2>3 DEF Allowed, Kinds
<1>2. ~Counts /\ ~Forwards
  BY <1>1 DEF Counts, Forwards
<1>3. Settles \/ Calls \/ PassEnds \/ Returns
  BY <1>2 DEF DeferredStep
<1> QED BY <1>3, SettlesKeeps, CallsKeeps, PassEndsKeeps, ReturnsKeeps

\* Every step.
LEMMA EffectsNext == EffectsInv /\ [Next]_vars => EffectsInv'
<1> SUFFICES ASSUME EffectsInv, [Next]_vars PROVE EffectsInv'
  OBVIOUS
<1>1. CASE Running
  BY <1>1, DeferredStepKeeps, DequeueKeeps, EmptiesKeeps, BeginKeeps, AttachKeeps, BegunKeeps,
     CompleteKeeps, TickNextKeeps, TickedKeeps, StopQueueKeeps, LoopKeeps, SpliceKeeps,
     FinishNextKeeps DEF Running
<1>2. ASSUME NEW e \in Elems, NEW a \in Anims, Animate(e, a) PROVE EffectsInv'
  BY <1>2, AnimateKeeps
<1>3. ASSUME NEW e \in Elems, Delay(e) \/ TimeoutFires(e) \/ ClearQueue(e) \/ Finish(e) \/ CleanData(e)
      PROVE  EffectsInv'
  BY <1>3, DelayKeeps, TimeoutFiresKeeps, ClearQueueKeeps, FinishKeeps, CleanDataKeeps
<1>4. ASSUME NEW e \in Elems, NEW clear \in BOOLEAN, NEW gotoEnd \in BOOLEAN, Stop(e, clear, gotoEnd)
      PROVE  EffectsInv'
  BY <1>4, StopKeeps
<1>5. ASSUME NEW p \in Deferreds, NEW es \in (SUBSET Elems) \ {{}}, Promise(p, es) PROVE EffectsInv'
  BY <1>5, PromiseKeeps
<1>6. CASE Tick \/ GoesOn \/ \E a \in Anims : Expires(a)
  BY <1>6, TickKeeps, GoesOnKeeps, ExpiresKeeps
<1>7. CASE Effects
  BY <1>2, <1>3, <1>4, <1>5, <1>6, <1>7 DEF Effects
<1>8. CASE PageDeferred \/ PageThrows
  BY <1>8, PageDeferredKeeps, PageThrowsKeeps
<1>9. CASE UNCHANGED vars
  BY <1>9, EffectsStutter
<1> QED BY <1>1, <1>7, <1>8, <1>9 DEF Next

\* Between any two steps of the fx queue, its animations and the functions of the page
\* (jquery-2.1.3.js:3868-4008, 6343-6907): every list settles its deferred first, what
\* must not be interrupted is on top of the stack, every item of a queue and of a stack
\* is there once, and each queue that is in progress, or that somebody else than finish has emptied,
\* has something that leads to dequeue, unless dequeue has emptied it.
THEOREM EffectsInvariant == Spec => []EffectsInv
BY EffectsInvInit, EffectsNext, PTL DEF Spec

\* The stack holds only frames of this module, and queues only animations, delays and
\* sentinels, whatever the functions of the page call (jquery-2.1.3.js:3868-4008,
\* 6343-6907).
THEOREM EffectsTypeCorrect == Spec => []TypeOK
<1>1. EffectsInv => TypeOK
  <2> SUFFICES ASSUME EffectsInv PROVE TypeOK
    OBVIOUS
  <2>1. /\ frames \in Seq(Frames) /\ ListsOK(lists) /\ DeferredTypes /\ EffectTypes
    BY DEF EffectsInv, TypeInv
  <2>2. \A i \in DOMAIN frames : frames[i] \in Frames
    BY <2>1
  <2>3. \A i \in DOMAIN frames : frames[i].code \in EffectCodes
    BY <2>2, FrameParts
  <2>4. \A f \in Frames : /\ f.code = "fire" => f.list \in ListIds
                          /\ f.code = "callback" => f.list \in ListIds /\ f.then = NoDeferred
    <3> SUFFICES ASSUME NEW f \in Frames
                 PROVE  /\ f.code = "fire" => f.list \in ListIds
                        /\ f.code = "callback" => f.list \in ListIds /\ f.then = NoDeferred
      OBVIOUS
    <3>1. f.code = "fire" => f.list \in ListIds
      BY FrameParts
    <3>2. f.code = "callback" => f \in CallFrames
      BY DEF Frames, FireFrames, CallFrames, DequeueFrames, EmptyFrames, AnimFrames, TickFrames,
             TimerFrames, StopFrames, LoopFrames, SpliceFrames, FinishFrames
    <3> QED BY <3>1, <3>2 DEF CallFrames
  <2>5. DeferredTypeOK
    <3>1. /\ lists \in [ListIds -> List]
          /\ \A id \in ListIds : lists[id].next <= lists[id].length + 1
      BY <2>1 DEF ListsOK, ListOK
    <3> QED BY <2>1, <2>2, <2>4, <3>1 DEF DeferredTypeOK, DeferredTypes
  <2>6. \A e \in Elems :
           /\ data[e].queue \in Seq(Anims \cup {"delay", "inprogress"})
           /\ data[e].stop \in {"none", "runs", "cleared"}
           /\ data[e].waiters \in Seq(Deferreds)
    <3> TAKE e \in Elems
    <3>1. data[e].queue \in Seq(Items) /\ data[e].stop \in {"none", "runs", "cleared"}
          /\ data[e].waiters \in Seq(Counted)
      BY DatumOf
    <3>2. data[e].waiters \in Seq(Deferreds)
      BY <3>1, Names
    <3> QED BY <3>1, <3>2 DEF Items
  <2>7. /\ timers \in Seq(Anims) /\ dropped \subseteq Deferreds
        /\ \A a \in Asked : target[a] \in Elems
    BY <2>1, Names DEF EffectTypes
  <2> QED BY <2>1, <2>3, <2>5, <2>6, <2>7 DEF TypeOK, EffectTypes
<1> QED BY <1>1, EffectsInvariant, PTL

\* jQuery.timers keeps every animation that has begun and not settled, for as long as
\* no splice of stop or finish took it for another, and the interval runs for them
\* (jquery-2.1.3.js:6622, 6755-6765, 6800-6803, 6843-6878), whatever functions of the page throw.
THEOREM AnimationsAreTicked == Spec => []TimersRun
<1>1. EffectsInv => TimersRun
  <2> SUFFICES ASSUME EffectsInv, Idle PROVE /\ timers # <<>> => interval
                                             /\ \A a \in (made \cap Anims) \ lost :
                                                   state[a] = "pending" => a \in Range(timers)
    BY DEF TimersRun
  <2>1. ~On("fire")
    BY DEF Idle, On
  <2>2. TypeInv /\ ListInv /\ AnimInv
    BY DEF EffectsInv
  <2>3. ASSUME NEW a \in (made \cap Anims) \ lost, state[a] = "pending" PROVE a \in Range(timers)
    <3>1. ~lists[<<a, "done">>].fired
      BY <2>1, <2>2, <2>3, Quiet, Names
    <3> QED BY <2>2, <2>3, <3>1 DEF AnimInv, AnimOK
  <2> QED BY <2>2, <2>3 DEF AnimInv
<1> QED BY <1>1, EffectsInvariant, PTL

\* Where dequeue has put "inprogress" at the head of a queue (jquery-2.1.3.js:3897-3926),
\* something is left that calls dequeue when it is over, unless a function threw.
THEOREM QueuesGoOn == Spec => []SentinelIsKept
<1>1. EffectsInv => SentinelIsKept
  <2> SUFFICES ASSUME EffectsInv, Idle, ~threw, NEW e \in Elems, Sentinel(data[e].queue)
               PROVE  \/ timeouts[e] > 0
                      \/ \E a \in made \cap Anims : target[a] = e /\ state[a] = "pending"
    BY DEF SentinelIsKept, WillDequeue
  <2>1. Range(frames) = {}
    BY DEF Idle, Range
  <2>2. Wakes(e)
    BY DEF EffectsInv, WakeInv, Due
  <2> QED BY <2>1, <2>2 DEF Wakes
<1> QED BY <1>1, EffectsInvariant, PTL

\* promise() counts the elements whose queues it waits for, and resolves when the last
\* of them is empty and not before (jquery-2.1.3.js:3980-4007), unless an element was
\* removed; a queue that is empty at rest has told them, or has something that will,
\* unless finish emptied it without a word (:6792-6799).
THEOREM PromisesWaitForQueues == Spec => []PromisesWait
<1>1. EffectsInv => PromisesWait
  <2> SUFFICES ASSUME EffectsInv, Idle PROVE PromisesWait
    BY DEF PromisesWait
  <2>1. Range(frames) = {} /\ ~On("fire")
    BY DEF Idle, Range, On
  <2>2. TypeInv /\ ListInv /\ PromiseInv
    BY DEF EffectsInv
  <2>3. ASSUME ~threw, NEW e \in Elems \ forgotten
        PROVE  Sentinel(data[e].queue) \/ data[e] = NoData \/ WillDequeue(e)
    <3>1. PICK d : d = data[e]
      OBVIOUS
    <3>2. d \in Datum /\ DatumOK(e, d)
      BY <3>1, DatumOf
    <3>3. d.queue = <<>> \/ Sentinel(d.queue)
      BY <2>1, <2>3, <3>2 DEF DatumOK
    <3>4. ~d.finish
      BY <2>1, <2>3, <3>2 DEF DatumOK
    <3>5. CASE ~d.hooks
      <4>1. d.queue = <<>> /\ d.stop = "none" /\ d.waiters = <<>> /\ d.hooks = FALSE
            /\ d.finish = FALSE
        BY <3>2, <3>4, <3>5 DEF DatumOK, Datum
      <4>2. d = [queue |-> d.queue, hooks |-> d.hooks, stop |-> d.stop, waiters |-> d.waiters,
                 finish |-> d.finish]
        BY <3>2 DEF Datum
      <4>3. d = NoData
        BY <4>1, <4>2 DEF NoData
      <4> QED BY <3>1, <4>3
    <3>6. CASE d.hooks
      <4>1. Wakes(e)
        BY <2>3, <3>1, <3>6 DEF EffectsInv, WakeInv, Due
      <4> QED BY <2>1, <4>1 DEF Wakes, WillDequeue
    <3> QED BY <3>5, <3>6
  <2>4. ASSUME NEW p \in made \cap Counted, p \notin dropped
        PROVE  /\ remaining[p] = Cardinality(Waits(p))
               /\ state[p] = "resolved" <=> Waits(p) = {}
    <3>1. PICK w, c : w = Waits(p) /\ c = Cardinality(w)
      OBVIOUS
    <3>2. c \in Nat /\ (c = 0 <=> w = {})
      <4>1. w \in SUBSET Elems
        BY <3>1 DEF Waits
      <4>2. IsFiniteSet(w)
        BY <4>1, EffectsAssumption, FS_Subset
      <4> QED BY <3>1, <4>2, FS_CardinalityType, FS_EmptySet
    <3>3. ~Told(p)
      BY <2>1 DEF Told
    <3>4. PromiseOK(p) /\ p \in made \ dropped
      BY <2>2, <2>4 DEF PromiseInv
    <3>5. remaining[p] = c
      <4>1. remaining[p] = Cardinality(Waits(p)) + (IF Told(p) THEN 1 ELSE 0)
        BY <3>4 DEF PromiseOK
      <4> QED BY <3>1, <3>2, <3>3, <4>1
    <3>6. (lists[<<p, "done">>].fired <=> c = 0) /\ ~lists[<<p, "fail">>].fired
      BY <3>4, <3>5 DEF PromiseOK
    <3>7. state[p] = "resolved" <=> lists[<<p, "done">>].fired
      <4>1. /\ <<p, "done">> \in ListIds /\ <<p, "fail">> \in ListIds /\ <<p, "done">> \in Settling
        BY Names
      <4>2. /\ Good("done", lists[<<p, "done">>], state[p])
            /\ Good("fail", lists[<<p, "fail">>], state[p])
            /\ state[p] \in {"pending", "resolved", "rejected"}
        BY <2>2, <4>1, ListOf
      <4>3. state[p] = "resolved" => lists[<<p, "done">>].fired
        BY <4>2 DEF Good, Outcome
      <4>4. state[p] # "rejected"
        BY <3>6, <4>2 DEF Good, Outcome
      <4>5. lists[<<p, "done">>].fired => state[p] # "pending"
        BY <2>1, <2>2, <4>1, Quiet
      <4> QED BY <4>2, <4>3, <4>4, <4>5
    <3> QED BY <3>1, <3>2, <3>5, <3>6, <3>7
  <2> QED BY <2>3, <2>4 DEF PromisesWait, Waits
<1> QED BY <1>1, EffectsInvariant, PTL
=============================================================================

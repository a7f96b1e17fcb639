-------------------------- MODULE JQueryAjaxProofs --------------------------
(***************************************************************************)
(* Requests and callback lists, for any number of deferreds, functions of  *)
(* the page and requests: no answer comes late, the count of the active    *)
(* requests is right, each list calls its functions once and in order,     *)
(* complete comes after the outcome, and what then and when return ends as *)
(* it should, whatever functions of the page do in the middle of each      *)
(* other.                                                                  *)
(***************************************************************************)
EXTENDS JQueryAjax, FiniteSetTheorems, TLAPS

-----------------------------------------------------------------------------
(* What runs.                                                              *)

FireFrames == [code : {"fire"}, list : ListIds]
CallFrames == [code : {"callback"}, list : ListIds, then : Deferreds \cup {NoDeferred}]
HookFrames == [code : {"hook"}, at : Hooks, request : Requests]
StatusFrames == [code : {"status"}, request : Requests]
CloseFrames == [code : {"close"}, request : Requests]
PlainFrames == FireFrames \cup CallFrames
AjaxFrames == HookFrames \cup StatusFrames \cup CloseFrames
Frames == PlainFrames \cup AjaxFrames

\* The frames of ajax(), and those of done that a counted request is sure to pass.
Setup == {"prefilter", "ajaxStart", "beforeSend", "ajaxSend"}
SetupFrames == [code : {"hook"}, at : Setup, request : Requests]
EndFrames == [code : {"hook"}, at : {"ajaxSettled", "ajaxComplete"}, request : Requests]

-----------------------------------------------------------------------------
(* The invariant: types.                                                   *)

ListOK(l) ==
    /\ l.next >= 1 /\ l.next <= l.length + 1
    /\ l.on => l.length <= Len(l.fns)

ListsOK(ls) == ls \in [ListIds -> List] /\ \A id \in ListIds : ListOK(ls[id])

DeferredTypes ==
    /\ state \in [Deferreds -> {"pending", "resolved", "rejected"}]
    /\ made \in SUBSET Deferreds /\ IsFiniteSet(made)
    /\ remaining \in [Deferreds -> Int]
    /\ functions \in 0 .. MaxObjects
    /\ parts \in [Deferreds -> SUBSET Deferreds]
    /\ follows \in [Deferreds -> Deferreds]
    /\ registered \in [ListIds -> Seq(Fns)]
    /\ called \in [ListIds -> Seq(Fns)]
    /\ threw \in BOOLEAN

AjaxTypes ==
    /\ phase \in [Requests -> {"new", "setup", "sent", "done"}]
    /\ transport \in [Requests -> BOOLEAN]
    /\ xhr \in [Requests -> {"none", "listening", "off"}]
    /\ timer \in [Requests -> BOOLEAN]
    /\ counted \in [Requests -> BOOLEAN]
    /\ status \in [Requests -> 0 .. MaxObjects]
    /\ active \in Int
    /\ twice \in SUBSET Requests

TypeInv == frames \in Seq(Frames) /\ ListsOK(lists) /\ DeferredTypes /\ AjaxTypes

-----------------------------------------------------------------------------
(* The invariant: requests.                                                *)

RequestInv ==
    \A r \in Requests :
        /\ phase[r] = "new" => xhr[r] = "none" /\ ~counted[r] /\ r \notin twice
        /\ phase[r] # "new" => r \in made
        /\ transport[r] => phase[r] # "done"
        /\ xhr[r] = "listening" => phase[r] = "sent" /\ transport[r]
        /\ timer[r] => phase[r] = "sent"
        /\ r \in twice => phase[r] = "done"

\* What holds of a request while the frame f runs.
FrameOK(f) ==
    /\ f \in SetupFrames =>
          /\ phase[f.request] \in {"setup", "done"}
          /\ xhr[f.request] = "none" /\ f.request \notin twice
          /\ counted[f.request] <=> f.at # "prefilter"
          /\ f.at = "ajaxSend" => transport[f.request] \/ phase[f.request] = "done"
    /\ f \in StatusFrames => phase[f.request] = "done" /\ status[f.request] # 0
    /\ f \in CloseFrames => phase[f.request] = "done"
    /\ f \in EndFrames => phase[f.request] = "done" /\ counted[f.request]

FramesInv == \A i \in DOMAIN frames : FrameOK(frames[i])

\* A request is set up once, and its status is not looked up below that, nor twice.
PairOK(f, g) ==
    /\ f \in SetupFrames /\ g \in SetupFrames \cup StatusFrames => f.request # g.request
    /\ f \in StatusFrames /\ g \in StatusFrames => f.request # g.request

StackOK(s) == \A i, j \in DOMAIN s : i < j => PairOK(s[i], s[j])

\* How many of the frames s are among fs.
Number(s, fs) == Cardinality({i \in DOMAIN s : s[i] \in fs})

\* The counted requests: those that are not done, and what is left of done.
Open == {r \in Requests : counted[r] /\ phase[r] # "done"}
Ending == {f \in StatusFrames \cup CloseFrames \cup EndFrames : counted[f.request]}

ActiveInv ==
    ~threw => active = Cardinality(Open) + Number(frames, Ending) - Cardinality(twice)

\* twice is finite, so that it can be counted.
TwiceInv == twice \subseteq made

-----------------------------------------------------------------------------
(* The invariant: callback lists.                                          *)

Paged(e) == e.kind \in {"user", "then"}

\* The functions of the page in fns, from n to m.
PagesIn(fns, n, m) == {p \in n .. m : Paged(fns[p])}
PagesFrom(fns, n) == PagesIn(fns, n, Len(fns))

\* What is still to be called, from n, is what was given and has not been called.
Due(fns, n, ca, re) ==
    /\ Len(re) = Len(ca) + Cardinality(PagesFrom(fns, n))
    /\ \A p \in PagesFrom(fns, n) :
          fns[p].fn = re[Len(ca) + Cardinality(PagesIn(fns, n, p))]

\* The list l, of an outcome or of complete, has made the calls ca and been given re.
ListInv(l, ca, re) ==
    /\ Len(ca) <= Len(re) /\ \A i \in 1 .. Len(ca) : ca[i] = re[i]
    /\ ~l.open /\ l.queued = 0
    /\ l.on => Due(l.fns, l.next, ca, re) /\ l.memory = l.fired
    /\ ~l.on => ~l.fired
    /\ ~l.fired => ca = <<>> /\ ~l.firing /\ l.next = 1 /\ l.length = 0
    /\ l.fired /\ ~l.firing => l.fns = <<>> /\ l.next = 1 /\ l.length = 0
    /\ l.firing => l.length = Len(l.fns)

Calling == Deferreds \X {"done", "fail", "complete"}
Settling == Deferreds \X {"done", "fail"}

\* The list l of the outcome out, of a deferred whose state is s, has made the calls ca:
\* the deferred settles at the first entry of the list that fires first.
SettlingInv(l, s, out, ca) ==
    /\ s = "pending" =>
          /\ l.on /\ l.next = 1 /\ l.fns # <<>> /\ ca = <<>>
          /\ \A p \in DOMAIN l.fns : l.fns[p].kind = "settle" <=> p = 1
          /\ l.fired => l.length >= 1
    /\ s = out =>
          /\ l.on /\ l.fired
          /\ \A p \in DOMAIN l.fns : p >= l.next => l.fns[p].kind # "settle"
    /\ s \notin {"pending", out} => ~l.on

GoodList(id, l, s, ca, re) ==
    /\ id \in Calling => ListInv(l, ca, re)
    /\ id \in Settling => SettlingInv(l, s, Outcome(id[2]), ca)
    /\ id \notin Settling => \A p \in DOMAIN l.fns : l.fns[p].kind # "settle"

\* A list that fires has its loop in the stack fs, once, and no other has; a throw
\* takes the loops away.
LoopOK(id, firing, fs, th) ==
    /\ \A i, j \in DOMAIN fs : fs[i] = FireFrame(id) /\ fs[j] = FireFrame(id) => i = j
    /\ \A i \in DOMAIN fs : fs[i] = FireFrame(id) => firing
    /\ firing /\ ~th => \E i \in DOMAIN fs : fs[i] = FireFrame(id)

\* A deferred that is pending while a list of it fires is about to settle.
PendingOK(ls, st, fs) ==
    \A id \in Settling :
        st[id[1]] = "pending" /\ ls[id].fired => fs # <<>> /\ Head(fs) = FireFrame(id)

CallsOK(ls, fs, st, ca, re, th) ==
    /\ \A id \in ListIds : GoodList(id, ls[id], st[id[1]], ca[id], re[id])
    /\ \A id \in Calling : LoopOK(id, ls[id].firing, fs, th)
    /\ PendingOK(ls, st, fs)

CallsInv == CallsOK(lists, frames, state, called, registered, threw)

\* No deferred is about to settle.
NoneSettles(ls, st) == \A id \in Settling : st[id[1]] = "pending" => ~ls[id].fired

AjaxInv == TypeInv /\ RequestInv /\ FramesInv /\ StackOK(frames) /\ ActiveInv /\ TwiceInv

-----------------------------------------------------------------------------
(* Lemmas about stacks of frames.                                          *)

\* The frames of fs in a stack can be counted.
LEMMA NumberType ==
    ASSUME NEW F, NEW s \in Seq(F), NEW fs
    PROVE  /\ IsFiniteSet({i \in DOMAIN s : s[i] \in fs})
           /\ Number(s, fs) \in Nat
           /\ (\A i \in DOMAIN s : s[i] \notin fs) <=> Number(s, fs) = 0
<1> DEFINE S == {i \in DOMAIN s : s[i] \in fs}
<1>1. IsFiniteSet(1 .. Len(s)) /\ DOMAIN s = 1 .. Len(s)
  BY FS_Interval
<1>2. S \in SUBSET (1 .. Len(s))
  BY <1>1
<1>3. IsFiniteSet(S)
  BY <1>1, <1>2, FS_Subset
<1>4. Cardinality(S) \in Nat /\ (Cardinality(S) = 0 <=> S = {})
  BY <1>3, FS_CardinalityType, FS_EmptySet
<1> QED BY <1>3, <1>4 DEF Number

\* The frames of fs in p \o s are those in p and those in s.
LEMMA NumberConcat ==
    ASSUME NEW F, NEW p \in Seq(F), NEW s \in Seq(F), NEW fs
    PROVE  Number(p \o s, fs) = Number(p, fs) + Number(s, fs)
<1> DEFINE P == {i \in DOMAIN p : p[i] \in fs}
           S == {i \in DOMAIN s : s[i] \in fs}
           U == {i \in DOMAIN (p \o s) : (p \o s)[i] \in fs}
           V == {i \in Len(p) + 1 .. Len(p) + Len(s) : s[i - Len(p)] \in fs}
           g == [i \in S |-> i + Len(p)]
<1>1. IsFiniteSet(P) /\ IsFiniteSet(S)
  BY NumberType
<1>2. U = P \cup V
  OBVIOUS
<1>3. P \cap V = {}
  OBVIOUS
<1>4. g \in Bijection(S, V)
  <2>1. \A i \in S : g[i] \in V
    <3> TAKE i \in S
    <3>1. i \in 1 .. Len(s) /\ s[i] \in fs /\ Len(p) \in Nat
      OBVIOUS
    <3>2. PICK k : k = i + Len(p)
      OBVIOUS
    <3>3. k \in Len(p) + 1 .. Len(p) + Len(s) /\ k - Len(p) = i
      BY <3>1, <3>2
    <3> QED BY <3>1, <3>2, <3>3
  <2>2. \A i, j \in S : g[i] = g[j] => i = j
    OBVIOUS
  <2>3. \A k \in V : \E i \in S : g[i] = k
    <3> TAKE k \in V
    <3>1. k \in Len(p) + 1 .. Len(p) + Len(s) /\ Len(p) \in Nat /\ Len(s) \in Nat
      OBVIOUS
    <3>2. PICK i : i = k - Len(p)
      OBVIOUS
    <3>3. i \in 1 .. Len(s) /\ k = i + Len(p)
      BY <3>1, <3>2
    <3>4. i \in S
      BY <3>2, <3>3
    <3> QED BY <3>3, <3>4
  <2> HIDE DEF S, V
  <2> QED BY <2>1, <2>2, <2>3 DEF Bijection, Injection, Surjection, IsInjective
<1>5. IsFiniteSet(V) /\ Cardinality(V) = Cardinality(S)
  BY <1>1, <1>4, FS_Bijection DEF ExistsBijection
<1>6. Cardinality(P \cap V) = 0
  BY <1>3, FS_EmptySet
<1>7. Cardinality(P \cup V) = Cardinality(P) + Cardinality(V) - Cardinality(P \cap V)
  BY <1>1, <1>5, FS_Union
<1>8. Cardinality(P) \in Nat /\ Cardinality(S) \in Nat
  BY <1>1, FS_CardinalityType
<1>9. Number(p \o s, fs) = Cardinality(U) /\ Number(p, fs) = Cardinality(P)
      /\ Number(s, fs) = Cardinality(S)
  BY DEF Number
<1> HIDE DEF P, S, U, V
<1> QED BY <1>2, <1>5, <1>6, <1>7, <1>8, <1>9

\* A frame alone.
LEMMA NumberOne ==
    ASSUME NEW F, NEW f \in F, NEW fs
    PROVE  Number(<<f>>, fs) = IF f \in fs THEN 1 ELSE 0
<1>1. DOMAIN <<f>> = {1} /\ <<f>>[1] = f
  OBVIOUS
<1>2. {i \in DOMAIN <<f>> : <<f>>[i] \in fs} = IF f \in fs THEN {1} ELSE {}
  BY <1>1
<1> QED BY <1>2, FS_Singleton, FS_EmptySet DEF Number

\* The top is taken off.
LEMMA NumberTail ==
    ASSUME NEW F, NEW s \in Seq(F), s # <<>>, NEW fs
    PROVE  /\ Tail(s) \in Seq(F) /\ Head(s) \in F /\ s = <<Head(s)>> \o Tail(s)
           /\ Number(s, fs) = Number(Tail(s), fs) + (IF Head(s) \in fs THEN 1 ELSE 0)
<1>1. Tail(s) \in Seq(F) /\ Head(s) \in F
  OBVIOUS
<1>2. s = <<Head(s)>> \o Tail(s)
  BY <1>1
<1>3. <<Head(s)>> \in Seq(F)
  BY <1>1
<1>4. Number(s, fs) = Number(<<Head(s)>>, fs) + Number(Tail(s), fs)
  BY ZenonT(60), <1>1, <1>2, <1>3, NumberConcat
<1>5. Number(<<Head(s)>>, fs) = (IF Head(s) \in fs THEN 1 ELSE 0)
  BY <1>1, NumberOne
<1>6. Number(Tail(s), fs) \in Nat
  BY <1>1, NumberType
<1> QED BY <1>1, <1>2, <1>4, <1>5, <1>6

\* What is in p \o s is in p or in s.
LEMMA Elements ==
    ASSUME NEW F, NEW p \in Seq(F), NEW s \in Seq(F), NEW i \in DOMAIN (p \o s)
    PROVE  \/ i \in DOMAIN p /\ (p \o s)[i] = p[i]
           \/ i - Len(p) \in DOMAIN s /\ (p \o s)[i] = s[i - Len(p)]
OBVIOUS


\* What runs plainly says nothing of a request.
LEMMA PlainOK ==
    ASSUME NEW f \in PlainFrames
    PROVE  /\ f \in Frames /\ FrameOK(f) /\ FrameOK(f)'
           /\ f \notin SetupFrames \cup StatusFrames \cup CloseFrames \cup EndFrames
BY DEF PlainFrames, FireFrames, CallFrames, SetupFrames, StatusFrames, CloseFrames,
       EndFrames, Frames, FrameOK

\* Plain frames are put on s.
LEMMA StackPlain ==
    ASSUME NEW p \in Seq(PlainFrames), NEW s \in Seq(Frames)
    PROVE  /\ p \o s \in Seq(Frames)
           /\ StackOK(s) => StackOK(p \o s)
           /\ \A i \in DOMAIN (p \o s) :
                 \/ (p \o s)[i] \in PlainFrames
                 \/ \E j \in DOMAIN s : (p \o s)[i] = s[j]
           /\ \A fs : fs \cap PlainFrames = {} => Number(p \o s, fs) = Number(s, fs)
<1>1. p \in Seq(Frames)
  BY DEF Frames
<1>2. p \o s \in Seq(Frames)
  BY <1>1
<1>3. \A i \in DOMAIN (p \o s) :
         \/ (p \o s)[i] \in PlainFrames
         \/ i - Len(p) \in DOMAIN s /\ (p \o s)[i] = s[i - Len(p)]
  <2> TAKE i \in DOMAIN (p \o s)
  <2>1. CASE i \in DOMAIN p /\ (p \o s)[i] = p[i]
    BY <2>1
  <2> QED BY <1>1, <2>1, Elements
<1>4. StackOK(s) => StackOK(p \o s)
  <2> SUFFICES ASSUME StackOK(s), NEW i \in DOMAIN (p \o s), NEW j \in DOMAIN (p \o s), i < j
               PROVE  PairOK((p \o s)[i], (p \o s)[j])
    BY DEF StackOK
  <2>1. CASE (p \o s)[i] \in PlainFrames \/ (p \o s)[j] \in PlainFrames
    BY <2>1, PlainOK DEF PairOK
  <2>2. CASE (p \o s)[i] \notin PlainFrames /\ (p \o s)[j] \notin PlainFrames
    BY <1>2, <1>3, <2>2 DEF StackOK
  <2> QED BY <2>1, <2>2
<1>5. \A fs : fs \cap PlainFrames = {} => Number(p \o s, fs) = Number(s, fs)
  <2> TAKE fs
  <2> HAVE fs \cap PlainFrames = {}
  <2>1. Number(p \o s, fs) = Number(p, fs) + Number(s, fs)
    BY <1>1, NumberConcat
  <2>2. \A i \in DOMAIN p : p[i] \notin fs
    OBVIOUS
  <2>3. Number(p, fs) = 0 /\ Number(s, fs) \in Nat
    BY <2>2, NumberType
  <2> QED BY <2>1, <2>3
<1> QED BY <1>2, <1>3, <1>4, <1>5

\* A frame is put on s.
LEMMA StackPush ==
    ASSUME NEW a \in Frames, NEW s \in Seq(Frames)
    PROVE  /\ <<a>> \o s \in Seq(Frames)
           /\ StackOK(s) /\ (\A j \in DOMAIN s : PairOK(a, s[j])) => StackOK(<<a>> \o s)
           /\ \A i \in DOMAIN (<<a>> \o s) :
                 \/ (<<a>> \o s)[i] = a
                 \/ \E j \in DOMAIN s : (<<a>> \o s)[i] = s[j]
           /\ \A fs : Number(<<a>> \o s, fs) = Number(s, fs) + (IF a \in fs THEN 1 ELSE 0)
<1>1. <<a>> \in Seq(Frames) /\ <<a>> \o s \in Seq(Frames)
  OBVIOUS
<1>2. \A i \in DOMAIN (<<a>> \o s) :
         \/ i = 1 /\ (<<a>> \o s)[i] = a
         \/ i - 1 \in DOMAIN s /\ (<<a>> \o s)[i] = s[i - 1]
  OBVIOUS
<1>3. StackOK(s) /\ (\A j \in DOMAIN s : PairOK(a, s[j])) => StackOK(<<a>> \o s)
  <2> SUFFICES ASSUME StackOK(s), \A j \in DOMAIN s : PairOK(a, s[j]),
                      NEW i \in DOMAIN (<<a>> \o s), NEW j \in DOMAIN (<<a>> \o s), i < j
               PROVE  PairOK((<<a>> \o s)[i], (<<a>> \o s)[j])
    BY DEF StackOK
  <2>1. i \in Int /\ j \in Int /\ i >= 1
    BY <1>1
  <2>2. j - 1 \in DOMAIN s /\ (<<a>> \o s)[j] = s[j - 1]
    BY <1>2, <2>1
  <2>3. CASE i = 1 /\ (<<a>> \o s)[i] = a
    BY <2>2, <2>3
  <2>4. CASE i - 1 \in DOMAIN s /\ (<<a>> \o s)[i] = s[i - 1]
    BY <2>1, <2>2, <2>4 DEF StackOK
  <2> QED BY <1>2, <2>3, <2>4
<1>4. \A fs : Number(<<a>> \o s, fs) = Number(s, fs) + (IF a \in fs THEN 1 ELSE 0)
  <2> TAKE fs
  <2>1. Number(<<a>> \o s, fs) = Number(<<a>>, fs) + Number(s, fs)
    BY <1>1, NumberConcat
  <2>2. Number(<<a>>, fs) = (IF a \in fs THEN 1 ELSE 0)
    BY NumberOne
  <2>3. Number(s, fs) \in Nat
    BY NumberType
  <2> QED BY <2>1, <2>2, <2>3
<1> QED BY <1>1, <1>2, <1>3, <1>4

\* The top is taken off s.
LEMMA StackPop ==
    ASSUME NEW s \in Seq(Frames), s # <<>>
    PROVE  /\ Tail(s) \in Seq(Frames) /\ Head(s) \in Frames /\ 1 \in DOMAIN s /\ s[1] = Head(s)
           /\ StackOK(s) => /\ StackOK(Tail(s))
                            /\ \A j \in DOMAIN Tail(s) : PairOK(Head(s), Tail(s)[j])
           /\ \A j \in DOMAIN Tail(s) : \E i \in DOMAIN s : Tail(s)[j] = s[i]
           /\ \A fs : Number(s, fs) = Number(Tail(s), fs) + (IF Head(s) \in fs THEN 1 ELSE 0)
<1>1. Tail(s) \in Seq(Frames) /\ Head(s) \in Frames /\ 1 \in DOMAIN s /\ s[1] = Head(s)
  OBVIOUS
<1>2. \A j \in DOMAIN Tail(s) : j \in Int /\ j >= 1 /\ j + 1 \in DOMAIN s /\ Tail(s)[j] = s[j + 1]
  OBVIOUS
<1>3. StackOK(s) => /\ StackOK(Tail(s))
                    /\ \A j \in DOMAIN Tail(s) : PairOK(Head(s), Tail(s)[j])
  <2> HAVE StackOK(s)
  <2>1. ASSUME NEW i \in DOMAIN Tail(s), NEW j \in DOMAIN Tail(s), i < j
        PROVE  PairOK(Tail(s)[i], Tail(s)[j])
    BY <1>2, <2>1 DEF StackOK
  <2>2. ASSUME NEW j \in DOMAIN Tail(s)
        PROVE  PairOK(Head(s), Tail(s)[j])
    BY <1>1, <1>2 DEF StackOK
  <2> QED BY <2>1, <2>2 DEF StackOK
<1>4. \A fs : Number(s, fs) = Number(Tail(s), fs) + (IF Head(s) \in fs THEN 1 ELSE 0)
  BY NumberTail
<1> QED BY <1>1, <1>2, <1>3, <1>4


-----------------------------------------------------------------------------
(* Lemmas about the operations of Callbacks.                               *)

\* A finite set as a sequence: each element once.
LEMMA SetAsSeq ==
    ASSUME NEW S, IsFiniteSet(S)
    PROVE  /\ SetToSeq(S) \in Seq(S)
           /\ \A x \in S : \E i \in DOMAIN SetToSeq(S) : SetToSeq(S)[i] = x
           /\ \A i, j \in DOMAIN SetToSeq(S) : SetToSeq(S)[i] = SetToSeq(S)[j] => i = j
<1>1. PICK n : n = Cardinality(S)
  OBVIOUS
<1>2. n \in Nat /\ ExistsBijection(1 .. n, S)
  BY <1>1, FS_CardinalityType
<1>3. PICK g : g \in Bijection(1 .. n, S)
  BY <1>2 DEF ExistsBijection
<1>4. g \in [1 .. n -> S] /\ IsInjective(g)
  BY <1>3 DEF Bijection, Injection, IsInjective
<1>5. PICK f : f = SetToSeq(S)
  OBVIOUS
<1>6. f \in [1 .. n -> S] /\ IsInjective(f)
  BY <1>1, <1>4, <1>5 DEF SetToSeq
<1>7. f \in Injection(1 .. n, S) /\ IsFiniteSet(1 .. n) /\ Cardinality(1 .. n) = n
  BY <1>2, <1>6, FS_Interval DEF Injection, IsInjective
<1>8. f \in Surjection(1 .. n, S)
  BY <1>1, <1>7, FS_Injection
<1> QED BY <1>2, <1>5, <1>6, <1>8 DEF Surjection, IsInjective


\* The fields of a list.
LEMMA ListFields ==
    ASSUME NEW l \in List
    PROVE  /\ l = [on |-> l.on, open |-> l.open, memory |-> l.memory, fired |-> l.fired,
                   firing |-> l.firing, next |-> l.next, length |-> l.length,
                   queued |-> l.queued, fns |-> l.fns]
           /\ l.on \in BOOLEAN /\ l.open \in BOOLEAN /\ l.memory \in BOOLEAN
           /\ l.fired \in BOOLEAN /\ l.firing \in BOOLEAN
           /\ l.next \in Nat /\ l.length \in Nat /\ l.queued \in Nat /\ l.fns \in Seq(Entry)
BY DEF List

\* A list may be put together of its fields.
LEMMA ListMade ==
    ASSUME NEW on \in BOOLEAN, NEW open \in BOOLEAN, NEW memory \in BOOLEAN,
           NEW fired \in BOOLEAN, NEW firing \in BOOLEAN, NEW next \in Nat,
           NEW length \in Nat, NEW queued \in Nat, NEW fns \in Seq(Entry)
    PROVE  [on |-> on, open |-> open, memory |-> memory, fired |-> fired,
            firing |-> firing, next |-> next, length |-> length,
            queued |-> queued, fns |-> fns] \in List
BY DEF List

\* A list that starts is one.
LEMMA StartedOK ==
    ASSUME NEW l \in List, NEW n \in 1 .. Len(l.fns) + 1
    PROVE  /\ Started(l, n) \in List /\ ListOK(Started(l, n))
           /\ Started(l, n) = [l EXCEPT !.memory = TRUE, !.fired = TRUE, !.firing = TRUE,
                                        !.next = n, !.length = Len(l.fns)]
<1>1. l.fns \in Seq(Entry) /\ Len(l.fns) \in Nat
  BY ListFields
<1>2. Started(l, n) \in List
  <2>1. PICK k : k = Len(l.fns)
    OBVIOUS
  <2>2. [l EXCEPT !.memory = TRUE, !.fired = TRUE, !.firing = TRUE, !.next = n,
                  !.length = k] \in List
    <3>1. n \in Nat /\ k \in Nat
      BY <1>1, <2>1
    <3> QED BY <3>1 DEF List
  <2> QED BY <2>1, <2>2 DEF Started
<1>3. Started(l, n).next = n /\ Started(l, n).length = Len(l.fns) /\ Started(l, n).fns = l.fns
  BY ListFields DEF Started, List
<1> QED BY <1>1, <1>2, <1>3 DEF Started, ListOK

\* A list to which an entry is added is one.
LEMMA AddedOK ==
    ASSUME NEW l \in List, ListOK(l), NEW e \in Entry
    PROVE  Added(l, e) \in List /\ ListOK(Added(l, e))
<1>1. /\ l.fns \in Seq(Entry) /\ Len(l.fns) \in Nat
      /\ l.next \in Nat /\ l.length \in Nat
  BY ListFields
<1>2. PICK n : n = Len(l.fns)
  OBVIOUS
<1>3. Append(l.fns, e) \in Seq(Entry) /\ Len(Append(l.fns, e)) = n + 1 /\ n \in Nat
  BY <1>1, <1>2
<1>4. /\ Pushed(l, e) \in List
      /\ Pushed(l, e) = [l EXCEPT !.fns = Append(l.fns, e)]
      /\ Pushed(l, e).fns = Append(l.fns, e) /\ Pushed(l, e).next = l.next
      /\ Pushed(l, e).length = l.length /\ Pushed(l, e).on = l.on
  BY <1>3 DEF Pushed, List
<1>5. PICK q : q = Pushed(l, e)
  OBVIOUS
<1>6. q \in List /\ q.fns \in Seq(Entry) /\ Len(q.fns) = n + 1 /\ q.next = l.next
      /\ q.length = l.length
  BY <1>3, <1>4, <1>5
<1>7. CASE ~l.on
  BY <1>7 DEF Added
<1>8. CASE l.on /\ l.firing
  <2>1. Added(l, e) = [q EXCEPT !.length = n + 1]
    BY <1>2, <1>5, <1>8 DEF Added
  <2>2. [q EXCEPT !.length = n + 1] \in List
    BY <1>3, <1>6 DEF List
  <2>3. [q EXCEPT !.length = n + 1].next = l.next /\ [q EXCEPT !.length = n + 1].length = n + 1
        /\ [q EXCEPT !.length = n + 1].fns = q.fns
    BY <1>6 DEF List
  <2>4. l.next >= 1 /\ l.next <= n + 2
    BY <1>1, <1>2, <1>3, <1>8 DEF ListOK
  <2>5. PICK m : m = [q EXCEPT !.length = n + 1]
    OBVIOUS
  <2>6. m \in List /\ m.next = l.next /\ m.length = n + 1 /\ Len(m.fns) = n + 1
    BY <1>6, <2>2, <2>3, <2>5
  <2>7. ListOK(m)
    BY <1>1, <1>3, <2>4, <2>6 DEF ListOK
  <2> QED BY <2>1, <2>5, <2>6, <2>7
<1>9. CASE l.on /\ ~l.firing /\ l.memory
  <2>1. Added(l, e) = Started(q, n + 1)
    BY <1>2, <1>5, <1>9 DEF Added
  <2>2. n + 1 \in 1 .. Len(q.fns) + 1
    BY <1>3, <1>6
  <2>3. Started(q, n + 1) \in List /\ ListOK(Started(q, n + 1))
    BY <1>6, <2>2, StartedOK
  <2> QED BY <2>1, <2>3
<1>10. CASE l.on /\ ~l.firing /\ ~l.memory
  BY <1>1, <1>2, <1>3, <1>5, <1>6, <1>10 DEF Added, ListOK
<1>11. l.on \in BOOLEAN /\ l.firing \in BOOLEAN /\ l.memory \in BOOLEAN
  BY ListFields
<1> QED BY <1>7, <1>8, <1>9, <1>10, <1>11

\* A list that is switched off, or locked, is one.
LEMMA DisabledOK ==
    ASSUME NEW l \in List, ListOK(l)
    PROVE  /\ Disabled(l) \in List /\ ListOK(Disabled(l))
           /\ Locked(l) \in List /\ ListOK(Locked(l))
<1>1. <<>> \in Seq(Entry)
  OBVIOUS
<1>2. Disabled(l) \in List
  BY <1>1 DEF Disabled, List
<1>3. Disabled(l).next = l.next /\ Disabled(l).length = l.length /\ ~Disabled(l).on
  BY DEF Disabled, List
<1>4. [l EXCEPT !.open = FALSE, !.queued = 0] \in List
  BY DEF List
<1>5. ListOK([l EXCEPT !.open = FALSE, !.queued = 0])
  BY DEF List, ListOK
<1> QED BY <1>2, <1>3, <1>4, <1>5 DEF Locked, ListOK

\* A list whose loop goes on to the next entry is one.
LEMMA SteppedOK ==
    ASSUME NEW l \in List, ListOK(l), l.on, l.next <= l.length
    PROVE  [l EXCEPT !.next = @ + 1] \in List /\ ListOK([l EXCEPT !.next = @ + 1])
BY DEF List, ListOK

\* A list whose pass has ended is one.
LEMMA EndedOK ==
    ASSUME NEW l \in List
    PROVE  LET m == [l EXCEPT !.firing = FALSE, !.fns = IF l.open THEN l.fns ELSE <<>>,
                              !.next = 1, !.length = 0]
           IN  m \in List /\ ListOK(m)
<1>1. PICK f : f = IF l.open THEN l.fns ELSE <<>>
  OBVIOUS
<1>2. f \in Seq(Entry) /\ Len(f) \in Nat
  BY <1>1, ListFields
<1> DEFINE m == [l EXCEPT !.firing = FALSE, !.fns = f, !.next = 1, !.length = 0]
<1>3. m \in List /\ m.next = 1 /\ m.length = 0 /\ m.fns = f
  BY <1>2 DEF List
<1>4. m \in List /\ ListOK(m)
  BY <1>2, <1>3 DEF ListOK
<1> QED BY <1>1, <1>4


\* What fireWith does: the lists stay lists, and one loop is started at most.
LEMMA FireWithShape ==
    ASSUME NEW ls, ListsOK(ls), NEW id \in ListIds, NEW rest \in Seq(Frames),
           FireWith(ls, id, rest)
    PROVE  /\ ListsOK(lists')
           /\ \E p \in Seq(PlainFrames) : frames' = p \o rest
<1>1. ls[id] \in List /\ ListOK(ls[id])
  BY DEF ListsOK
<1>2. PICK l : l = ls[id]
  OBVIOUS
<1>3. l \in List /\ ListOK(l) /\ Len(l.fns) \in Nat
  BY <1>1, <1>2, ListFields
<1>4. <<>> \in Seq(PlainFrames) /\ <<>> \o rest = rest
  OBVIOUS
<1>5. CASE ~l.on \/ (l.fired /\ ~l.open)
  BY <1>2, <1>4, <1>5 DEF FireWith
<1>6. CASE ~(~l.on \/ (l.fired /\ ~l.open)) /\ l.firing
  <2>1. lists' = [ls EXCEPT ![id].queued = @ + 1] /\ frames' = rest
    BY <1>2, <1>6 DEF FireWith
  <2>2. PICK m : m = [l EXCEPT !.queued = @ + 1]
    OBVIOUS
  <2>3. m \in List /\ ListOK(m)
    BY SMTT(60), <1>3, <2>2 DEF List, ListOK
  <2>4. lists' = [ls EXCEPT ![id] = m]
    BY <1>2, <2>1, <2>2 DEF ListsOK
  <2> QED BY <1>4, <2>1, <2>3, <2>4 DEF ListsOK
<1>7. CASE ~(~l.on \/ (l.fired /\ ~l.open)) /\ ~l.firing
  <2>1. lists' = [ls EXCEPT ![id] = Started(l, 1)] /\ frames' = <<FireFrame(id)>> \o rest
    BY <1>2, <1>7 DEF FireWith
  <2>2. Started(l, 1) \in List /\ ListOK(Started(l, 1))
    <3>1. 1 \in 1 .. Len(l.fns) + 1
      BY <1>3
    <3> QED BY <1>3, <3>1, StartedOK
  <2>3. <<FireFrame(id)>> \in Seq(PlainFrames)
    BY DEF FireFrame, PlainFrames, FireFrames
  <2> QED BY <2>1, <2>2, <2>3 DEF ListsOK
<1> QED BY <1>5, <1>6, <1>7

\* The page, or jQuery for it, adds entries to some lists; those that are functions
\* of the page are given to them.
Gives(ids, cbs, rest) ==
    /\ ids \subseteq ListIds /\ IsFiniteSet(ids)
    /\ cbs \in [ids -> Entry \ {SettleEntry}]
    /\ AddAll(cbs, rest)
    /\ registered' = [id \in ListIds |->
                        IF id \in ids /\ Paged(cbs[id]) THEN Append(registered[id], cbs[id].fn)
                                                        ELSE registered[id]]

\* The lists that start when cbs are added.
Passes(cbs) == {id \in DOMAIN cbs : lists[id].on /\ ~lists[id].firing /\ lists[id].memory}

\* The frames that start are those of the lists that start, each once.
LEMMA PassFrames ==
    ASSUME NEW ids \in SUBSET ListIds, IsFiniteSet(ids)
    PROVE  /\ SetToSeq({FireFrame(id) : id \in ids}) \in Seq(FireFrames)
           /\ \A id \in ids : \E i \in DOMAIN SetToSeq({FireFrame(q) : q \in ids}) :
                 SetToSeq({FireFrame(q) : q \in ids})[i] = FireFrame(id)
           /\ \A i \in DOMAIN SetToSeq({FireFrame(id) : id \in ids}) : \E id \in ids :
                 SetToSeq({FireFrame(q) : q \in ids})[i] = FireFrame(id)
           /\ \A i, j \in DOMAIN SetToSeq({FireFrame(id) : id \in ids}) :
                 SetToSeq({FireFrame(id) : id \in ids})[i]
                 = SetToSeq({FireFrame(id) : id \in ids})[j] => i = j
<1> DEFINE S == {FireFrame(id) : id \in ids}
           g == [id \in ids |-> FireFrame(id)]
<1>1. g \in Surjection(ids, S)
  BY DEF Surjection, FireFrame
<1>2. IsFiniteSet(S)
  BY <1>1, FS_Surjection
<1>3. S \subseteq FireFrames
  BY DEF FireFrames, FireFrame
<1>4. PICK p : p = SetToSeq(S)
  OBVIOUS
<1>5. /\ p \in Seq(S)
      /\ \A x \in S : \E i \in DOMAIN p : p[i] = x
      /\ \A i, j \in DOMAIN p : p[i] = p[j] => i = j
  BY <1>2, <1>4, SetAsSeq
<1>6. p \in Seq(FireFrames)
  BY <1>3, <1>5
<1>7. \A i \in DOMAIN p : p[i] \in S
  BY <1>5
<1> QED BY <1>4, <1>5, <1>6, <1>7

\* What adding does: the lists stay lists, and loops are started at most.
LEMMA GivesShape ==
    ASSUME ListsOK(lists), registered \in [ListIds -> Seq(Fns)],
           NEW ids, NEW cbs, NEW rest \in Seq(Frames), Gives(ids, cbs, rest)
    PROVE  /\ ListsOK(lists')
           /\ registered' \in [ListIds -> Seq(Fns)]
           /\ \E p \in Seq(PlainFrames) : frames' = p \o rest
<1>1. ListsOK(lists')
  <2>1. DOMAIN cbs = ids
    BY DEF Gives
  <2>2. lists' = [id \in ListIds |-> IF id \in ids THEN Added(lists[id], cbs[id]) ELSE lists[id]]
    BY <2>1 DEF Gives, AddAll
  <2>3. ASSUME NEW id \in ListIds
        PROVE  lists'[id] \in List /\ ListOK(lists'[id])
    BY <2>2, AddedOK DEF ListsOK, Gives
  <2> QED BY <2>2, <2>3 DEF ListsOK
<1>2. registered' \in [ListIds -> Seq(Fns)]
  <2>1. ASSUME NEW id \in ListIds
        PROVE  registered'[id] \in Seq(Fns)
    <3>1. CASE id \in ids /\ Paged(cbs[id])
      <4>1. cbs[id].fn \in Fns
        BY <3>1 DEF Gives, Paged, Entry, SettleEntry
      <4>2. registered[id] \in Seq(Fns)
        OBVIOUS
      <4>3. registered'[id] = Append(registered[id], cbs[id].fn)
        BY <3>1 DEF Gives
      <4> QED BY <4>1, <4>2, <4>3
    <3>2. CASE ~(id \in ids /\ Paged(cbs[id]))
      BY <3>2 DEF Gives
    <3> QED BY <3>1, <3>2
  <2> QED BY <2>1 DEF Gives
<1>3. \E p \in Seq(PlainFrames) : frames' = p \o rest
  <2>1. Passes(cbs) \in SUBSET ids /\ ids \in SUBSET ListIds /\ IsFiniteSet(ids)
    BY DEF Gives, Passes
  <2>2. IsFiniteSet(Passes(cbs)) /\ Passes(cbs) \in SUBSET ListIds
    BY <2>1, FS_Subset
  <2>3. frames' = SetToSeq({FireFrame(id) : id \in Passes(cbs)}) \o rest
    BY DEF Gives, AddAll, Passes
  <2>4. SetToSeq({FireFrame(id) : id \in Passes(cbs)}) \in Seq(FireFrames)
    BY <2>2, PassFrames
  <2>5. FireFrames \subseteq PlainFrames
    BY DEF PlainFrames
  <2>6. SetToSeq({FireFrame(id) : id \in Passes(cbs)}) \in Seq(PlainFrames)
    BY <2>4, <2>5
  <2> QED BY <2>3, <2>6
<1> QED BY <1>1, <1>2, <1>3


-----------------------------------------------------------------------------
(* What the page adds.                                                     *)

\* A function the page makes is one of Fns.
LEMMA MadeFn ==
    ASSUME TypeInv, MakesFn
    PROVE  NewFn \in Fns /\ functions' \in 0 .. MaxObjects /\ User(NewFn) \in Entry
<1>1. IsFiniteSet(made \cap Counted)
  BY FS_Intersection DEF TypeInv, DeferredTypes
<1>2. Cardinality(made \cap Counted) \in Nat
  BY <1>1, FS_CardinalityType
<1>3. functions \in Nat /\ functions + Cardinality(made \cap Counted) + 1 <= MaxObjects
      /\ functions' = functions + 1 /\ MaxObjects \in Nat
  BY DeferredAssumption DEF TypeInv, DeferredTypes, MakesFn, Room, NewFn
<1>4. NewFn \in Fns /\ functions' \in 0 .. MaxObjects
  BY <1>2, <1>3 DEF NewFn, Fns
<1> QED BY <1>4 DEF User, Entry

\* The two lists of an outcome.
LEMMA OutcomesOK ==
    ASSUME NEW d \in Deferreds
    PROVE  /\ Outcomes(d) \subseteq ListIds /\ IsFiniteSet(Outcomes(d))
           /\ <<d, "done">> \in ListIds /\ <<d, "fail">> \in ListIds
           /\ Outcomes(d) \subseteq Settling
<1>1. Outcomes(d) = {<<d, "done">>} \cup {<<d, "fail">>}
  BY DEF Outcomes
<1>2. IsFiniteSet({<<d, "done">>}) /\ IsFiniteSet({<<d, "done">>} \cup {<<d, "fail">>})
  BY FS_Singleton, FS_AddElement
<1> QED BY <1>1, <1>2 DEF ListIds, Kinds, Settling

\* done, fail and complete.
LEMMA AddGives ==
    ASSUME TypeInv, NEW d \in Deferreds, NEW k \in Kinds, Add(d, k)
    PROVE  \E ids, cbs : Gives(ids, cbs, frames)
<1>1. PICK ids : ids = {<<d, k>>}
  OBVIOUS
<1>2. PICK cbs : cbs = [id \in ids |-> User(NewFn)]
  OBVIOUS
<1>3. <<d, k>> \in ListIds
  BY DEF ListIds
<1>4. ids \subseteq ListIds /\ IsFiniteSet(ids)
  BY <1>1, <1>3, FS_Singleton
<1>5. User(NewFn) \in Entry \ {SettleEntry} /\ Paged(User(NewFn)) /\ User(NewFn).fn = NewFn
  BY MadeFn DEF Add, User, SettleEntry, Paged
<1>6. AddAll(cbs, frames) /\ Registers(ids, NewFn)
  BY <1>1, <1>2 DEF Add
<1>7. registered' = [id \in ListIds |->
                       IF id \in ids /\ Paged(cbs[id]) THEN Append(registered[id], cbs[id].fn)
                                                       ELSE registered[id]]
  BY <1>2, <1>5, <1>6 DEF Registers
<1> QED BY <1>2, <1>4, <1>5, <1>6, <1>7 DEF Gives

\* always, and statusCode, which adds with always.
LEMMA OutcomesGive ==
    ASSUME NEW d \in Deferreds, NEW f \in Fns, NEW rest,
           AddAll([id \in Outcomes(d) |-> User(f)], rest), Registers(Outcomes(d), f)
    PROVE  \E ids, cbs : Gives(ids, cbs, rest)
<1>1. PICK cbs : cbs = [id \in Outcomes(d) |-> User(f)]
  OBVIOUS
<1>2. User(f) \in Entry \ {SettleEntry} /\ Paged(User(f)) /\ User(f).fn = f
  BY DEF User, SettleEntry, Paged, Entry
<1>3. registered' = [id \in ListIds |->
                       IF id \in Outcomes(d) /\ Paged(cbs[id]) THEN Append(registered[id], cbs[id].fn)
                                                               ELSE registered[id]]
  BY <1>1, <1>2 DEF Registers
<1>4. Gives(Outcomes(d), cbs, rest)
  BY <1>1, <1>2, <1>3, OutcomesOK DEF Gives
<1> QED BY <1>4

\* then: the function is given to done alone.
LEMMA ThenGives ==
    ASSUME TypeInv, NEW d \in Deferreds, NEW t \in Deferreds, ThenCall(d, t)
    PROVE  \E ids, cbs : Gives(ids, cbs, frames)
<1>1. PICK cbs : cbs = [id \in Outcomes(d) |-> IF id[2] = "done" THEN ThenEntry(NewFn, t)
                                               ELSE Forward(<<t, "fail">>)]
  OBVIOUS
<1>2. NewFn \in Fns
  BY MadeFn DEF ThenCall
<1>3. /\ ThenEntry(NewFn, t) \in Entry \ {SettleEntry} /\ Paged(ThenEntry(NewFn, t))
      /\ ThenEntry(NewFn, t).fn = NewFn
  BY <1>2 DEF ThenEntry, SettleEntry, Paged, Entry
<1>4. /\ Forward(<<t, "fail">>) \in Entry \ {SettleEntry}
      /\ ~Paged(Forward(<<t, "fail">>))
  BY OutcomesOK DEF Forward, SettleEntry, Paged, Entry
<1>5. \A id \in Outcomes(d) : id[2] = "done" <=> id = <<d, "done">>
  BY DEF Outcomes
<1>6. \A id \in ListIds : id \in {<<d, "done">>} <=> id \in Outcomes(d) /\ Paged(cbs[id])
  BY <1>1, <1>3, <1>4, <1>5 DEF Outcomes
<1>7. \A id \in {<<d, "done">>} : id \in Outcomes(d) /\ cbs[id].fn = NewFn
  BY <1>1, <1>3, <1>5 DEF Outcomes
<1>8. registered' = [id \in ListIds |->
                       IF id \in {<<d, "done">>} THEN Append(registered[id], NewFn)
                                                 ELSE registered[id]]
  BY DEF ThenCall, Registers
<1>9. registered' = [id \in ListIds |->
                       IF id \in Outcomes(d) /\ Paged(cbs[id]) THEN Append(registered[id], cbs[id].fn)
                                                               ELSE registered[id]]
  BY <1>6, <1>7, <1>8
<1>10. AddAll(cbs, frames)
  BY <1>1 DEF ThenCall
<1>11. cbs \in [Outcomes(d) -> Entry \ {SettleEntry}]
  BY <1>1, <1>3, <1>4
<1>12. Gives(Outcomes(d), cbs, frames)
  BY <1>9, <1>10, <1>11, OutcomesOK DEF Gives
<1> QED BY <1>12

\* What gives no function of the page leaves registered alone.
LEMMA QuietGives ==
    ASSUME registered \in [ListIds -> Seq(Fns)],
           NEW ids \in SUBSET ListIds, IsFiniteSet(ids), NEW rest,
           NEW cbs \in [ids -> {e \in Entry \ {SettleEntry} : ~Paged(e)}],
           AddAll(cbs, rest), UNCHANGED registered
    PROVE  Gives(ids, cbs, rest)
<1>1. \A id \in ids : ~Paged(cbs[id])
  OBVIOUS
<1>2. registered = [id \in ListIds |-> registered[id]]
  OBVIOUS
<1>3. registered' = [id \in ListIds |->
                       IF id \in ids /\ Paged(cbs[id]) THEN Append(registered[id], cbs[id].fn)
                                                       ELSE registered[id]]
  BY <1>1, <1>2
<1>4. cbs \in [ids -> Entry \ {SettleEntry}]
  OBVIOUS
<1> QED BY <1>3, <1>4 DEF Gives

\* A set of two is finite.
LEMMA TwoFinite ==
    ASSUME TypeInv, NEW ds \in SUBSET made, Cardinality(ds) = 2
    PROVE  /\ UNION {Outcomes(d) : d \in ds} \in SUBSET ListIds
           /\ IsFiniteSet(UNION {Outcomes(d) : d \in ds})
<1>1. IsFiniteSet(ds) /\ ds \subseteq Deferreds
  BY FS_Subset DEF TypeInv, DeferredTypes
<1>2. ds # {}
  BY FS_EmptySet
<1>3. PICK a : a \in ds
  BY <1>2
<1>4. Cardinality(ds \ {a}) = 1 /\ IsFiniteSet(ds \ {a})
  BY <1>1, <1>3, FS_RemoveElement
<1>5. PICK b : ds \ {a} = {b}
  BY <1>4, FS_Singleton
<1>6. ds = {a, b} /\ a \in Deferreds /\ b \in Deferreds
  BY <1>1, <1>3, <1>5
<1>7. UNION {Outcomes(d) : d \in ds} = Outcomes(a) \cup Outcomes(b)
  BY <1>6
<1>8. /\ Outcomes(a) \in SUBSET ListIds /\ IsFiniteSet(Outcomes(a))
      /\ Outcomes(b) \in SUBSET ListIds /\ IsFiniteSet(Outcomes(b))
  BY <1>6, OutcomesOK
<1>9. IsFiniteSet(Outcomes(a) \cup Outcomes(b))
  BY <1>8, FS_Union
<1> QED BY <1>7, <1>8, <1>9

\* when.
LEMMA WhenGives ==
    ASSUME TypeInv, NEW m \in Deferreds, NEW ds, When(m, ds)
    PROVE  \E ids, cbs : Gives(ids, cbs, frames)
<1>1. PICK ids : ids = UNION {Outcomes(d) : d \in ds}
  OBVIOUS
<1>2. PICK cbs : cbs = [id \in ids |-> IF id[2] = "done" THEN Count(m)
                                       ELSE Forward(<<m, "fail">>)]
  OBVIOUS
<1>3. ids \in SUBSET ListIds /\ IsFiniteSet(ids)
  BY <1>1, TwoFinite DEF When
<1>4. Count(m) \in Entry \ {SettleEntry} /\ ~Paged(Count(m))
  BY DEF Count, SettleEntry, Paged, Entry
<1>5. /\ Forward(<<m, "fail">>) \in Entry \ {SettleEntry}
      /\ ~Paged(Forward(<<m, "fail">>))
  BY OutcomesOK DEF Forward, SettleEntry, Paged, Entry
<1>6. cbs \in [ids -> {e \in Entry \ {SettleEntry} : ~Paged(e)}]
  BY <1>2, <1>4, <1>5
<1>7. AddAll(cbs, frames) /\ UNCHANGED registered
  BY <1>1, <1>2 DEF When
<1>8. Gives(ids, cbs, frames)
  BY <1>3, <1>6, <1>7, QuietGives DEF TypeInv, DeferredTypes
<1> QED BY <1>8

\* then, when the function returns a promise.
LEMMA ReturnsPromiseGives ==
    ASSUME TypeInv, NEW p \in Deferreds, Top.then \in Deferreds, ReturnsPromise(p)
    PROVE  \E ids, cbs : Gives(ids, cbs, Below)
<1>1. PICK t : t = Top.then
  OBVIOUS
<1>2. PICK cbs : cbs = [id \in Outcomes(p) |-> Forward(<<t, id[2]>>)]
  OBVIOUS
<1>3. ASSUME NEW id \in Outcomes(p)
      PROVE  /\ Forward(<<t, id[2]>>) \in Entry \ {SettleEntry}
             /\ ~Paged(Forward(<<t, id[2]>>))
  <2>1. <<t, id[2]>> \in ListIds
    BY <1>1 DEF Outcomes, ListIds, Kinds
  <2> QED BY <2>1 DEF Forward, SettleEntry, Paged, Entry
<1>4. cbs \in [Outcomes(p) -> {e \in Entry \ {SettleEntry} : ~Paged(e)}]
  BY <1>2, <1>3
<1>5. AddAll(cbs, Below) /\ UNCHANGED registered
  BY <1>1, <1>2 DEF ReturnsPromise, givenVars
<1>6. Gives(Outcomes(p), cbs, Below)
  BY <1>4, <1>5, OutcomesOK, QuietGives DEF TypeInv, DeferredTypes
<1> QED BY <1>6


-----------------------------------------------------------------------------
(* The types, and what a step does to the stack.                           *)

\* What the code of the top frame says of it.
LEMMA TopFrame ==
    ASSUME TypeInv, frames # <<>>
    PROVE  /\ Top \in Frames /\ Below \in Seq(Frames)
           /\ On("fire") => Top \in FireFrames /\ Firing \in ListIds /\ Top = FireFrame(Firing)
           /\ On("callback") => /\ Top \in CallFrames /\ Top.list \in ListIds
                                /\ Top.then \in Deferreds \cup {NoDeferred}
           /\ On("hook") => Top \in HookFrames /\ Top.request \in Requests /\ Top.at \in Hooks
           /\ On("status") => Top \in StatusFrames /\ Top = StatusFrame(Top.request)
           /\ On("close") => Top \in CloseFrames /\ Top = CloseFrame(Top.request)
<1>1. Top \in Frames /\ Below \in Seq(Frames)
  BY DEF TypeInv, Top, Below
<1>2. CASE Top \in FireFrames
  BY <1>1, <1>2 DEF FireFrames, On, Firing, FireFrame
<1>3. CASE Top \in CallFrames
  BY <1>1, <1>3 DEF CallFrames, On
<1>4. CASE Top \in HookFrames
  BY <1>1, <1>4 DEF HookFrames, On
<1>5. CASE Top \in StatusFrames
  BY <1>1, <1>5 DEF StatusFrames, On, StatusFrame
<1>6. CASE Top \in CloseFrames
  BY <1>1, <1>6 DEF CloseFrames, On, CloseFrame
<1> QED BY <1>1, <1>2, <1>3, <1>4, <1>5, <1>6 DEF Frames, PlainFrames, AjaxFrames

\* A plain step: the stack gets plain frames, when it loses one it is a plain one.
Grows(s) == \E p \in Seq(PlainFrames) : frames' = p \o s
PlainStep ==
    \/ Grows(frames)
    \/ frames # <<>> /\ Top \in PlainFrames /\ Grows(Below)
    \/ frames' = <<>> /\ threw'

\* The entry that fire() calls next.
LEMMA NextIsEntry ==
    ASSUME TypeInv, On("fire"), HasNext
    PROVE  /\ Firing \in ListIds /\ lists[Firing] \in List /\ ListOK(lists[Firing])
           /\ lists[Firing].on /\ lists[Firing].next <= lists[Firing].length
           /\ lists[Firing].next \in DOMAIN lists[Firing].fns
           /\ NextEntry \in Entry /\ NextEntry = lists[Firing].fns[lists[Firing].next]
           /\ ListsOK(Stepped) /\ Firing \in DOMAIN Stepped
           /\ Stepped = [lists EXCEPT ![Firing] = [lists[Firing] EXCEPT !.next = @ + 1]]
<1>1. Firing \in ListIds
  BY TopFrame DEF On
<1>2. lists[Firing] \in List /\ ListOK(lists[Firing]) /\ lists \in [ListIds -> List]
  BY <1>1 DEF TypeInv, ListsOK
<1>3. PICK l : l = lists[Firing]
  OBVIOUS
<1>4. l \in List /\ ListOK(l) /\ l.on /\ l.next <= l.length
  BY <1>2, <1>3 DEF HasNext
<1>5. l.next \in Nat /\ l.length \in Nat /\ l.fns \in Seq(Entry)
  BY <1>4, ListFields
<1>6. l.next \in DOMAIN l.fns
  BY <1>4, <1>5 DEF ListOK
<1>7. l.fns[l.next] \in Entry
  BY <1>5, <1>6
<1>8. [l EXCEPT !.next = @ + 1] \in List /\ ListOK([l EXCEPT !.next = @ + 1])
  BY <1>4, SteppedOK
<1>9. Stepped = [lists EXCEPT ![Firing] = [l EXCEPT !.next = @ + 1]]
  BY <1>1, <1>2, <1>3 DEF Stepped
<1>10. ListsOK(Stepped) /\ Firing \in DOMAIN Stepped
  BY <1>1, <1>8, <1>9 DEF TypeInv, ListsOK
<1> QED BY <1>1, <1>3, <1>4, <1>6, <1>7, <1>9, <1>10 DEF NextEntry

\* Nothing, and one frame, as what is put on a stack.
LEMMA GrowsBy ==
    ASSUME NEW s \in Seq(Frames)
    PROVE  /\ frames' = s => Grows(s)
           /\ \A f \in PlainFrames : frames' = <<f>> \o s => Grows(s)
<1>1. <<>> \in Seq(PlainFrames) /\ <<>> \o s = s
  OBVIOUS
<1>2. \A f \in PlainFrames : <<f>> \in Seq(PlainFrames)
  OBVIOUS
<1> QED BY <1>1, <1>2 DEF Grows

LEMMA GrowsType ==
    ASSUME NEW s \in Seq(Frames), Grows(s)
    PROVE  frames' \in Seq(Frames)
BY StackPlain DEF Grows


\* The steps of the loop and of the functions it calls.
LEMMA SettlesTypes ==
    ASSUME TypeInv, Settles
    PROVE  ListsOK(lists)' /\ DeferredTypes' /\ PlainStep
<1>1. /\ Firing \in ListIds /\ ListsOK(Stepped)
  BY NextIsEntry DEF Settles
<1>2. PICK d : d = Firing[1]
  OBVIOUS
<1>3. d \in Deferreds
  BY <1>1, <1>2 DEF ListIds
<1>4. PICK other : other = <<d, IF Firing[2] = "done" THEN "fail" ELSE "done">>
  OBVIOUS
<1>5. other \in ListIds /\ <<d, "progress">> \in ListIds /\ other # <<d, "progress">>
  BY <1>3, <1>4 DEF ListIds, Kinds
<1>6. PICK ls : ls = Stepped
  OBVIOUS
<1>7. lists' = [ls EXCEPT ![other] = Disabled(@), ![<<d, "progress">>] = Locked(@)]
  BY <1>2, <1>4, <1>6 DEF Settles
<1>8. ls \in [ListIds -> List] /\ \A id \in ListIds : ListOK(ls[id])
  BY <1>1, <1>6 DEF ListsOK
<1>9. /\ Disabled(ls[other]) \in List /\ ListOK(Disabled(ls[other]))
      /\ Locked(ls[<<d, "progress">>]) \in List /\ ListOK(Locked(ls[<<d, "progress">>]))
  BY <1>5, <1>8, DisabledOK
<1>10. ListsOK(lists)'
  BY <1>5, <1>7, <1>8, <1>9 DEF ListsOK
<1>11. DeferredTypes'
  BY <1>3 DEF Settles, TypeInv, DeferredTypes, Outcome, givenVars
<1>12. PlainStep
  BY GrowsBy DEF Settles, PlainStep, TypeInv
<1> QED BY <1>10, <1>11, <1>12

LEMMA CallsTypes ==
    ASSUME TypeInv, Calls
    PROVE  ListsOK(lists)' /\ DeferredTypes' /\ PlainStep
<1>1. /\ Firing \in ListIds /\ ListsOK(Stepped) /\ NextEntry \in Entry
  BY NextIsEntry DEF Calls
<1>2. PICK e : e = NextEntry
  OBVIOUS
<1>3. e \in Entry /\ e.kind \in {"user", "then"}
  BY <1>1, <1>2 DEF Calls
<1>4. e.fn \in Fns /\ (e.kind = "then" => e.to \in Deferreds)
  BY <1>3 DEF Entry, SettleEntry
<1>5. ListsOK(lists)'
  BY <1>1 DEF Calls, ListsOK
<1>6. PICK t : t = IF e.kind = "then" THEN e.to ELSE NoDeferred
  OBVIOUS
<1>7. CallFrame(Firing, t) \in PlainFrames
  BY <1>1, <1>4, <1>6 DEF CallFrame, PlainFrames, CallFrames
<1>8. frames' = <<CallFrame(Firing, t)>> \o frames
  BY <1>2, <1>6 DEF Calls
<1>9. PlainStep
  BY <1>7, <1>8, GrowsBy DEF PlainStep, TypeInv
<1>10. called' \in [ListIds -> Seq(Fns)]
  BY <1>1, <1>2, <1>4 DEF TypeInv, DeferredTypes, Calls
<1>11. DeferredTypes'
  BY <1>10 DEF Calls, TypeInv, DeferredTypes, givenVars
<1> QED BY <1>5, <1>9, <1>11

\* One step of fireWith on a deferred's list.
LEMMA FireGrows ==
    ASSUME NEW ls, ListsOK(ls), NEW id \in ListIds, NEW rest \in Seq(Frames),
           FireWith(ls, id, rest)
    PROVE  ListsOK(lists)' /\ Grows(rest)
<1>1. ListsOK(lists') /\ \E p \in Seq(PlainFrames) : frames' = p \o rest
  BY FireWithShape
<1> QED BY <1>1 DEF Grows, ListsOK

LEMMA CountsTypes ==
    ASSUME TypeInv, Counts
    PROVE  ListsOK(lists)' /\ DeferredTypes' /\ PlainStep
<1>1. /\ Firing \in ListIds /\ ListsOK(Stepped) /\ NextEntry \in Entry
  BY NextIsEntry DEF Counts
<1>2. PICK m : m = NextEntry.of
  OBVIOUS
<1>3. m \in Deferreds
  BY <1>1, <1>2 DEF Counts, Entry, SettleEntry
<1>4. <<m, "done">> \in ListIds
  BY <1>3, OutcomesOK
<1>5. frames \in Seq(Frames)
  BY DEF TypeInv
<1>6. PICK ls : ls = Stepped
  OBVIOUS
<1>9. DeferredTypes'
  BY <1>2, <1>3 DEF Counts, TypeInv, DeferredTypes, givenVars
<1>7. CASE remaining[m] = 1
  <2>1. FireWith(ls, <<m, "done">>, frames)
    BY <1>2, <1>6, <1>7 DEF Counts
  <2>2. ListsOK(lists)' /\ Grows(frames)
    BY <1>1, <1>4, <1>5, <1>6, <2>1, FireGrows
  <2> QED BY <1>9, <2>2 DEF PlainStep
<1>8. CASE remaining[m] # 1
  BY <1>1, <1>2, <1>5, <1>8, <1>9, GrowsBy DEF Counts, ListsOK, PlainStep
<1> QED BY <1>7, <1>8

LEMMA ForwardsTypes ==
    ASSUME TypeInv, Forwards
    PROVE  ListsOK(lists)' /\ DeferredTypes' /\ PlainStep
<1>1. /\ Firing \in ListIds /\ ListsOK(Stepped) /\ NextEntry \in Entry
  BY NextIsEntry DEF Forwards
<1>2. NextEntry.to \in ListIds
  BY <1>1 DEF Forwards, Entry, SettleEntry
<1>3. PICK ls : ls = Stepped
  OBVIOUS
<1>4. PICK id : id = NextEntry.to
  OBVIOUS
<1>5. FireWith(ls, id, frames) /\ frames \in Seq(Frames)
  BY <1>3, <1>4 DEF Forwards, TypeInv
<1>6. ListsOK(lists)' /\ Grows(frames)
  BY <1>1, <1>2, <1>3, <1>4, <1>5, FireGrows
<1> QED BY <1>6 DEF Forwards, TypeInv, DeferredTypes, givenVars, PlainStep

LEMMA PassEndsTypes ==
    ASSUME TypeInv, PassEnds
    PROVE  ListsOK(lists)' /\ DeferredTypes' /\ PlainStep
<1>1. /\ frames # <<>> /\ Firing \in ListIds /\ Top \in PlainFrames /\ Below \in Seq(Frames)
      /\ frames \in Seq(Frames)
  BY TopFrame DEF PassEnds, On, PlainFrames, TypeInv
<1>2. PICK l : l = lists[Firing]
  OBVIOUS
<1>3. l \in List /\ ListOK(l)
  BY <1>1, <1>2 DEF TypeInv, ListsOK
<1>4. CASE l.on /\ l.open /\ l.queued > 0
  <2>1. /\ lists' = [lists EXCEPT ![Firing] = [Started(l, 1) EXCEPT !.queued = @ - 1]]
        /\ UNCHANGED frames
    BY <1>2, <1>4 DEF PassEnds
  <2>2. 1 \in 1 .. Len(l.fns) + 1 /\ l.queued \in Nat
    BY <1>3, ListFields
  <2>3. PICK m : m = Started(l, 1)
    OBVIOUS
  <2>4. m \in List /\ ListOK(m) /\ m.queued = l.queued
    BY <1>3, <2>2, <2>3, StartedOK DEF Started, List
  <2>5. [m EXCEPT !.queued = @ - 1] \in List /\ ListOK([m EXCEPT !.queued = @ - 1])
    BY <1>4, <2>2, <2>4 DEF List, ListOK
  <2>6. ListsOK(lists)'
    BY <1>1, <2>1, <2>3, <2>5 DEF TypeInv, ListsOK
  <2> QED BY <1>1, <2>1, <2>6, GrowsBy DEF PassEnds, TypeInv, DeferredTypes, givenVars, PlainStep
<1>5. CASE ~(l.on /\ l.open /\ l.queued > 0)
  <2>1. PICK m : m = [l EXCEPT !.firing = FALSE, !.fns = IF l.open THEN l.fns ELSE <<>>,
                               !.next = 1, !.length = 0]
    OBVIOUS
  <2>2. lists' = [lists EXCEPT ![Firing] = m] /\ frames' = Below
    BY <1>2, <1>5, <2>1 DEF PassEnds
  <2>3. m \in List /\ ListOK(m)
    BY <1>3, <2>1, EndedOK
  <2>4. ListsOK(lists)'
    BY <1>1, <2>2, <2>3 DEF TypeInv, ListsOK
  <2> QED BY <1>1, <2>2, <2>4, GrowsBy DEF PassEnds, TypeInv, DeferredTypes, givenVars, PlainStep
<1> QED BY <1>4, <1>5

LEMMA ReturnsTypes ==
    ASSUME TypeInv, Returns
    PROVE  ListsOK(lists)' /\ DeferredTypes' /\ PlainStep
<1>1. /\ frames # <<>> /\ Top \in PlainFrames /\ Below \in Seq(Frames)
      /\ Top.list \in ListIds /\ Top.then \in Deferreds \cup {NoDeferred}
  BY TopFrame DEF Returns, On, PlainFrames
<1>2. DeferredTypes'
  BY DEF Returns, TypeInv, DeferredTypes, givenVars
<1>3. CASE Top.then = NoDeferred
  BY <1>1, <1>2, <1>3, GrowsBy DEF Returns, TypeInv, ListsOK, PlainStep
<1>4. CASE Top.then # NoDeferred
  <2>1. PICK id : id = <<Top.then, Top.list[2]>>
    OBVIOUS
  <2>2. id \in ListIds
    BY <1>1, <1>4, <2>1 DEF ListIds
  <2>3. FireWith(lists, id, Below)
    BY <1>4, <2>1 DEF Returns
  <2>4. ListsOK(lists)' /\ Grows(Below)
    BY <1>1, <2>2, <2>3, FireGrows DEF TypeInv
  <2> QED BY <1>1, <1>2, <2>4 DEF PlainStep
<1> QED BY <1>3, <1>4


\* What the page adds keeps the types.
LEMMA PageTypes ==
    ASSUME TypeInv, PageStep
    PROVE  ListsOK(lists)' /\ DeferredTypes' /\ PlainStep
<1>1. /\ frames \in Seq(Frames) /\ ListsOK(lists)
      /\ registered \in [ListIds -> Seq(Fns)]
  BY DEF TypeInv, DeferredTypes
<1>2. ASSUME \E ids, cbs : Gives(ids, cbs, frames)
      PROVE  ListsOK(lists)' /\ registered' \in [ListIds -> Seq(Fns)] /\ PlainStep
  <2>1. PICK ids, cbs : Gives(ids, cbs, frames)
    BY <1>2
  <2>2. /\ ListsOK(lists') /\ registered' \in [ListIds -> Seq(Fns)]
        /\ \E p \in Seq(PlainFrames) : frames' = p \o frames
    BY <1>1, <2>1, GivesShape
  <2> QED BY <2>2 DEF ListsOK, PlainStep, Grows
<1>3. ASSUME NEW d \in Deferreds, NEW k \in Kinds, Add(d, k)
      PROVE  ListsOK(lists)' /\ DeferredTypes' /\ PlainStep
  BY <1>2, <1>3, AddGives, MadeFn DEF Add, TypeInv, DeferredTypes
<1>4. ASSUME NEW d \in Deferreds, Always(d)
      PROVE  ListsOK(lists)' /\ DeferredTypes' /\ PlainStep
  <2>1. NewFn \in Fns /\ functions' \in 0 .. MaxObjects
    BY <1>4, MadeFn DEF Always
  <2>2. PICK f : f = NewFn
    OBVIOUS
  <2>3. AddAll([id \in Outcomes(d) |-> User(f)], frames) /\ Registers(Outcomes(d), f)
    BY <1>4, <2>2 DEF Always
  <2>4. ListsOK(lists)' /\ registered' \in [ListIds -> Seq(Fns)] /\ PlainStep
    BY <1>2, <2>1, <2>2, <2>3, OutcomesGive
  <2> QED BY <1>4, <2>1, <2>4 DEF Always, TypeInv, DeferredTypes
<1>5. ASSUME NEW d \in Deferreds, NEW t \in Deferreds, ThenCall(d, t)
      PROVE  ListsOK(lists)' /\ DeferredTypes' /\ PlainStep
  BY <1>2, <1>5, ThenGives, MadeFn, FS_AddElement DEF ThenCall, TypeInv, DeferredTypes
<1>6. ASSUME NEW m \in Deferreds, NEW ds \in SUBSET Deferreds, When(m, ds)
      PROVE  ListsOK(lists)' /\ DeferredTypes' /\ PlainStep
  <2>1. ListsOK(lists)' /\ registered' \in [ListIds -> Seq(Fns)] /\ PlainStep
    BY <1>2, <1>6, WhenGives
  <2>2. made' \in SUBSET Deferreds /\ IsFiniteSet(made')
    BY <1>6, FS_AddElement DEF When, TypeInv, DeferredTypes
  <2>3. remaining' \in [Deferreds -> Int] /\ parts' \in [Deferreds -> SUBSET Deferreds]
    BY <1>6 DEF When, TypeInv, DeferredTypes
  <2> QED BY <1>6, <2>1, <2>2, <2>3 DEF When, TypeInv, DeferredTypes
<1>7. ASSUME NEW p \in Deferreds, ReturnsPromise(p)
      PROVE  ListsOK(lists)' /\ DeferredTypes' /\ PlainStep
  <2>1. /\ frames # <<>> /\ Top \in PlainFrames /\ Below \in Seq(Frames)
        /\ Top.then \in Deferreds
    BY <1>7, TopFrame DEF ReturnsPromise, On, PlainFrames
  <2>2. PICK ids, cbs : Gives(ids, cbs, Below)
    BY <1>7, <2>1, ReturnsPromiseGives
  <2>3. /\ ListsOK(lists') /\ registered' \in [ListIds -> Seq(Fns)]
        /\ \E q \in Seq(PlainFrames) : frames' = q \o Below
    BY <1>1, <2>1, <2>2, GivesShape
  <2>4. follows' \in [Deferreds -> Deferreds]
    BY <1>7, <2>1 DEF ReturnsPromise, TypeInv, DeferredTypes
  <2>5. PlainStep /\ ListsOK(lists)'
    BY <2>1, <2>3 DEF PlainStep, Grows, ListsOK
  <2> QED BY <1>7, <2>4, <2>5 DEF ReturnsPromise, TypeInv, DeferredTypes, givenVars
<1>8. CASE Throw
  BY <1>8 DEF Throw, TypeInv, DeferredTypes, ListsOK, PlainStep, givenVars
<1>9. "done" \in Kinds /\ "fail" \in Kinds /\ "complete" \in Kinds
  BY DEF Kinds
<1>10. Requests \subseteq Deferreds
  BY AjaxAssumption
<1> QED BY <1>3, <1>4, <1>5, <1>6, <1>7, <1>8, <1>9, <1>10 DEF PageStep

\* A step that leaves the requests alone keeps the types.
LEMMA PlainTypes ==
    ASSUME TypeInv, DeferredStep \/ PageStep, UNCHANGED ajaxVars
    PROVE  TypeInv' /\ PlainStep
<1>1. ListsOK(lists)' /\ DeferredTypes' /\ PlainStep
  BY SettlesTypes, CallsTypes, CountsTypes, ForwardsTypes, PassEndsTypes, ReturnsTypes,
     PageTypes DEF DeferredStep
<1>2. AjaxTypes'
  BY DEF TypeInv, AjaxTypes, ajaxVars
<1>3. frames \in Seq(Frames) /\ (frames # <<>> => Below \in Seq(Frames))
  BY TopFrame DEF TypeInv
<1>4. frames' \in Seq(Frames)
  <2>1. CASE Grows(frames)
    BY <1>3, <2>1, GrowsType
  <2>2. CASE frames # <<>> /\ Grows(Below)
    BY <1>3, <2>2, GrowsType
  <2>3. CASE frames' = <<>>
    BY <2>3
  <2> QED BY <1>1, <2>1, <2>2, <2>3 DEF PlainStep
<1> QED BY <1>1, <1>2, <1>4 DEF TypeInv


-----------------------------------------------------------------------------
(* Requests.                                                               *)

\* Which frames are which.
LEMMA FrameKinds ==
    ASSUME NEW r \in Requests
    PROVE  /\ \A at \in Hooks :
                 /\ HookFrame(r, at) \in Frames
                 /\ HookFrame(r, at).request = r /\ HookFrame(r, at).at = at
                 /\ HookFrame(r, at) \in SetupFrames <=> at \in Setup
                 /\ HookFrame(r, at) \in EndFrames <=> at \in {"ajaxSettled", "ajaxComplete"}
                 /\ HookFrame(r, at) \notin StatusFrames \cup CloseFrames \cup PlainFrames
           /\ StatusFrame(r) \in Frames /\ StatusFrame(r).request = r
           /\ StatusFrame(r) \in StatusFrames
           /\ StatusFrame(r) \notin SetupFrames \cup CloseFrames \cup EndFrames \cup PlainFrames
           /\ CloseFrame(r) \in Frames /\ CloseFrame(r).request = r
           /\ CloseFrame(r) \in CloseFrames
           /\ CloseFrame(r) \notin SetupFrames \cup StatusFrames \cup EndFrames \cup PlainFrames
<1>1. ASSUME NEW at \in Hooks
      PROVE  /\ HookFrame(r, at) \in HookFrames
             /\ HookFrame(r, at).request = r /\ HookFrame(r, at).at = at
             /\ HookFrame(r, at).code = "hook"
  BY DEF HookFrame, HookFrames
<1>2. /\ StatusFrame(r) \in StatusFrames /\ StatusFrame(r).code = "status"
      /\ CloseFrame(r) \in CloseFrames /\ CloseFrame(r).code = "close"
      /\ StatusFrame(r).request = r /\ CloseFrame(r).request = r
  BY DEF StatusFrame, CloseFrame, StatusFrames, CloseFrames
<1>3. /\ \A f \in SetupFrames \cup EndFrames : f.code = "hook"
      /\ \A f \in StatusFrames : f.code = "status"
      /\ \A f \in CloseFrames : f.code = "close"
      /\ \A f \in PlainFrames : f.code \in {"fire", "callback"}
  BY DEF SetupFrames, EndFrames, StatusFrames, CloseFrames, PlainFrames, FireFrames, CallFrames
<1>4. ASSUME NEW at \in Hooks
      PROVE  /\ HookFrame(r, at) \in SetupFrames <=> at \in Setup
             /\ HookFrame(r, at) \in EndFrames <=> at \in {"ajaxSettled", "ajaxComplete"}
  BY DEF HookFrame, SetupFrames, EndFrames
<1>5. HookFrames \cup StatusFrames \cup CloseFrames \subseteq Frames
  BY DEF Frames, AjaxFrames
<1>6. ASSUME NEW at \in Hooks
      PROVE  /\ HookFrame(r, at) \in Frames
             /\ HookFrame(r, at) \notin StatusFrames \cup CloseFrames \cup PlainFrames
  BY <1>1, <1>3, <1>5
<1>7. /\ StatusFrame(r) \in Frames
      /\ StatusFrame(r) \notin SetupFrames \cup CloseFrames \cup EndFrames \cup PlainFrames
      /\ CloseFrame(r) \in Frames
      /\ CloseFrame(r) \notin SetupFrames \cup StatusFrames \cup EndFrames \cup PlainFrames
  BY <1>2, <1>3, <1>5
<1> QED BY <1>1, <1>2, <1>4, <1>6, <1>7

\* The frame of done that comes after the settlement.
After(r) == IF status[r] = 0 THEN SettledFrame(r) ELSE StatusFrame(r)

LEMMA AfterKind ==
    ASSUME TypeInv, NEW r \in Requests
    PROVE  /\ SettledFrame(r) \in Frames \ SetupFrames /\ SettledFrame(r).request = r
           /\ SettledFrame(r) \notin StatusFrames
           /\ SettledFrame(r) \in CloseFrames \cup EndFrames
           /\ SettledFrame(r) \in EndFrames <=> counted[r]
           /\ After(r) \in Frames \ SetupFrames /\ After(r).request = r
           /\ After(r) \in StatusFrames \cup CloseFrames \cup EndFrames
           /\ After(r) \in EndFrames => counted[r]
           /\ After(r) \in StatusFrames <=> status[r] # 0
           /\ AfterSettling(r) = <<After(r)>>
<1>1. "ajaxSettled" \in Hooks /\ "ajaxSettled" \notin Setup
  BY DEF Hooks, Setup
<1>2. /\ SettledFrame(r) \in Frames \ SetupFrames /\ SettledFrame(r).request = r
      /\ SettledFrame(r) \notin StatusFrames
      /\ SettledFrame(r) \in CloseFrames \cup EndFrames
      /\ SettledFrame(r) \in EndFrames <=> counted[r]
  BY <1>1, FrameKinds DEF SettledFrame, TypeInv, AjaxTypes
<1>3. AfterSettling(r) = <<After(r)>>
  BY DEF AfterSettling, After
<1> QED BY <1>2, <1>3, FrameKinds DEF After

\* What done does.
LEMMA DoneShape ==
    ASSUME TypeInv, NEW r \in Requests, NEW ok, NEW rest \in Seq(Frames), Done(r, ok, rest)
    PROVE  \/ phase[r] = "done" /\ frames' = rest /\ UNCHANGED <<lists, phase, timer, transport>>
           \/ /\ phase[r] # "done"
              /\ phase' = [phase EXCEPT ![r] = "done"]
              /\ timer' = [timer EXCEPT ![r] = FALSE]
              /\ transport' = [transport EXCEPT ![r] = FALSE]
              /\ ListsOK(lists)'
              /\ Grows(<<After(r)>> \o rest)
<1>1. CASE phase[r] = "done"
  BY <1>1 DEF Done
<1>2. CASE phase[r] # "done"
  <2>1. PICK id : id = <<r, IF ok THEN "done" ELSE "fail">>
    OBVIOUS
  <2>2. id \in ListIds
    BY <2>1, AjaxAssumption DEF ListIds, Kinds
  <2>3. FireWith(lists, id, <<After(r)>> \o rest)
    BY <1>2, <2>1, AfterKind DEF Done
  <2>4. After(r) \in Frames
    BY AfterKind
  <2>5. <<After(r)>> \o rest \in Seq(Frames)
    BY <2>4, StackPush
  <2>6. ListsOK(lists)' /\ Grows(<<After(r)>> \o rest)
    BY <2>2, <2>3, <2>5, FireGrows DEF TypeInv
  <2> QED BY <1>2, <2>6 DEF Done
<1> QED BY <1>1, <1>2


\* Frames that may be put on: those of functions, loops, and what is left of done.
LEMMA EndingPlain ==
    /\ Ending \cap PlainFrames = {} /\ Ending' \cap PlainFrames = {}
    /\ Ending \cap SetupFrames = {} /\ Ending' \cap SetupFrames = {}
<1>1. /\ \A f \in SetupFrames \cup EndFrames : f.code = "hook"
      /\ \A f \in StatusFrames : f.code = "status"
      /\ \A f \in CloseFrames : f.code = "close"
      /\ \A f \in PlainFrames : f.code \in {"fire", "callback"}
  BY DEF SetupFrames, EndFrames, StatusFrames, CloseFrames, PlainFrames, FireFrames, CallFrames
<1>2. SetupFrames \cap EndFrames = {}
  BY DEF SetupFrames, EndFrames, Setup
<1>3. /\ (StatusFrames \cup CloseFrames \cup EndFrames) \cap PlainFrames = {}
      /\ (StatusFrames \cup CloseFrames \cup EndFrames) \cap SetupFrames = {}
  BY <1>1, <1>2
<1>4. /\ Ending \subseteq StatusFrames \cup CloseFrames \cup EndFrames
      /\ Ending' \subseteq StatusFrames \cup CloseFrames \cup EndFrames
  BY DEF Ending
<1> QED BY <1>3, <1>4

\* A step that puts plain frames on s.
LEMMA GrowsKeeps ==
    ASSUME NEW s \in Seq(Frames), Grows(s)
    PROVE  /\ frames' \in Seq(Frames)
           /\ StackOK(s) => StackOK(frames')
           /\ (\A j \in DOMAIN s : FrameOK(s[j])') => FramesInv'
           /\ \A fs : fs \cap PlainFrames = {} => Number(frames', fs) = Number(s, fs)
<1>1. PICK p \in Seq(PlainFrames) : frames' = p \o s
  BY DEF Grows
<1>2. /\ p \o s \in Seq(Frames)
      /\ StackOK(s) => StackOK(p \o s)
      /\ \A i \in DOMAIN (p \o s) :
            \/ (p \o s)[i] \in PlainFrames
            \/ \E j \in DOMAIN s : (p \o s)[i] = s[j]
      /\ \A fs : fs \cap PlainFrames = {} => Number(p \o s, fs) = Number(s, fs)
  BY StackPlain
<1>3. ASSUME \A j \in DOMAIN s : FrameOK(s[j])'
      PROVE  FramesInv'
  <2> SUFFICES ASSUME NEW i \in DOMAIN frames'
               PROVE  FrameOK(frames[i])'
    BY DEF FramesInv
  <2>1. CASE frames'[i] \in PlainFrames
    <3>1. PICK f : f = frames'[i]
      OBVIOUS
    <3>2. FrameOK(f)'
      BY <2>1, <3>1, PlainOK
    <3> QED BY <3>1, <3>2 DEF FrameOK
  <2>2. CASE \E j \in DOMAIN s : frames'[i] = s[j]
    <3>1. PICK j \in DOMAIN s : frames'[i] = s[j]
      BY <2>2
    <3>2. FrameOK(s[j])'
      BY <1>3
    <3> QED BY <3>1, <3>2 DEF FrameOK
  <2> QED BY <1>1, <1>2, <2>1, <2>2
<1> QED BY <1>1, <1>2, <1>3

\* What a step may leave of the stack.
LEMMA RestOK ==
    ASSUME AjaxInv, NEW rest, rest = frames \/ (frames # <<>> /\ rest = Below)
    PROVE  /\ rest \in Seq(Frames) /\ StackOK(rest)
           /\ \A j \in DOMAIN rest : rest[j] \in Frames /\ FrameOK(rest[j])
           /\ rest # frames => /\ FrameOK(Top)
                               /\ \A j \in DOMAIN rest : PairOK(Top, rest[j])
<1>1. /\ frames \in Seq(Frames) /\ StackOK(frames)
      /\ \A j \in DOMAIN frames : FrameOK(frames[j])
  BY DEF AjaxInv, TypeInv, FramesInv
<1>2. CASE rest = frames
  BY <1>1, <1>2
<1>3. CASE frames # <<>> /\ rest = Below
  <2>1. /\ Below \in Seq(Frames) /\ Top \in Frames /\ 1 \in DOMAIN frames /\ frames[1] = Top
        /\ StackOK(Below) /\ \A j \in DOMAIN Below : PairOK(Top, Below[j])
        /\ \A j \in DOMAIN Below : \E i \in DOMAIN frames : Below[j] = frames[i]
    BY <1>1, <1>3, StackPop DEF Top, Below
  <2>2. FrameOK(Top)
    BY <1>1, <2>1
  <2>3. \A j \in DOMAIN Below : Below[j] \in Frames /\ FrameOK(Below[j])
    <3> TAKE j \in DOMAIN Below
    <3>1. PICK i \in DOMAIN frames : Below[j] = frames[i]
      BY <2>1
    <3>2. FrameOK(frames[i]) /\ frames[i] \in Frames
      BY <1>1
    <3> QED BY <3>1, <3>2
  <2> QED BY <1>3, <2>1, <2>2, <2>3
<1> QED BY <1>2, <1>3

\* A step that takes the top off or not, and puts the frame a on what is left.
LEMMA PushStep ==
    ASSUME AjaxInv, NEW rest, rest = frames \/ (frames # <<>> /\ rest = Below),
           NEW a \in Frames, FrameOK(a)',
           \A j \in DOMAIN rest : PairOK(a, rest[j]) /\ FrameOK(rest[j])',
           Grows(<<a>> \o rest)
    PROVE  /\ frames' \in Seq(Frames) /\ FramesInv' /\ StackOK(frames')
           /\ \A fs : fs \cap PlainFrames = {} =>
                 Number(frames', fs) = Number(rest, fs) + (IF a \in fs THEN 1 ELSE 0)
<1>1. rest \in Seq(Frames) /\ StackOK(rest)
  BY RestOK
<1>2. PICK t : t = <<a>> \o rest
  OBVIOUS
<1>3. /\ t \in Seq(Frames) /\ StackOK(t)
      /\ \A i \in DOMAIN t : t[i] = a \/ \E j \in DOMAIN rest : t[i] = rest[j]
      /\ \A fs : Number(t, fs) = Number(rest, fs) + (IF a \in fs THEN 1 ELSE 0)
  BY <1>1, <1>2, StackPush
<1>4. \A i \in DOMAIN t : FrameOK(t[i])'
  <2> TAKE i \in DOMAIN t
  <2>1. CASE t[i] = a
    BY <2>1
  <2>2. CASE \E j \in DOMAIN rest : t[i] = rest[j]
    <3>1. PICK j \in DOMAIN rest : t[i] = rest[j]
      BY <2>2
    <3>2. FrameOK(rest[j])'
      OBVIOUS
    <3> QED BY <3>1, <3>2
  <2> QED BY <1>3, <2>1, <2>2
<1>5. Grows(t)
  BY <1>2
<1>6. /\ frames' \in Seq(Frames) /\ FramesInv' /\ StackOK(frames')
      /\ \A fs : fs \cap PlainFrames = {} => Number(frames', fs) = Number(t, fs)
  BY <1>3, <1>4, <1>5, GrowsKeeps
<1> QED BY <1>3, <1>6

\* The same, with nothing put on.
LEMMA RestStep ==
    ASSUME AjaxInv, NEW rest, rest = frames \/ (frames # <<>> /\ rest = Below),
           \A j \in DOMAIN rest : FrameOK(rest[j])',
           Grows(rest)
    PROVE  /\ frames' \in Seq(Frames) /\ FramesInv' /\ StackOK(frames')
           /\ \A fs : fs \cap PlainFrames = {} => Number(frames', fs) = Number(rest, fs)
<1>1. rest \in Seq(Frames) /\ StackOK(rest)
  BY RestOK
<1> QED BY <1>1, GrowsKeeps

\* What is left of the stack has as many frames of fs, but for the top.
LEMMA RestNumber ==
    ASSUME TypeInv, frames # <<>>
    PROVE  \A fs : /\ Number(frames, fs) = Number(Below, fs) + (IF Top \in fs THEN 1 ELSE 0)
                   /\ Number(Below, fs) \in Nat
<1>1. frames \in Seq(Frames) /\ Below \in Seq(Frames)
  BY TopFrame DEF TypeInv
<1> TAKE fs
<1>2. Number(frames, fs) = Number(Tail(frames), fs) + (IF Head(frames) \in fs THEN 1 ELSE 0)
  BY <1>1, NumberTail
<1>3. Number(Below, fs) \in Nat
  BY <1>1, NumberType
<1> QED BY <1>2, <1>3 DEF Top, Below

\* Requests are counted by finite sets.
LEMMA OpenFinite ==
    ASSUME TypeInv, RequestInv, TwiceInv
    PROVE  /\ IsFiniteSet(Open) /\ Cardinality(Open) \in Nat
           /\ IsFiniteSet(twice) /\ Cardinality(twice) \in Nat
<1>1. Open \in SUBSET made
  BY DEF Open, RequestInv, TypeInv, AjaxTypes
<1>2. twice \in SUBSET made /\ IsFiniteSet(made)
  BY DEF TwiceInv, TypeInv, DeferredTypes
<1>3. IsFiniteSet(Open) /\ IsFiniteSet(twice)
  BY <1>1, <1>2, FS_Subset
<1> QED BY <1>3, FS_CardinalityType


\* A step that leaves the requests alone.
LEMMA PlainAjax ==
    ASSUME AjaxInv, TypeInv', PlainStep, UNCHANGED ajaxVars, made \subseteq made', threw => threw'
    PROVE  AjaxInv'
<1>1. RequestInv' /\ TwiceInv'
  BY DEF AjaxInv, RequestInv, TwiceInv, ajaxVars
<1>2. \A f : FrameOK(f) => FrameOK(f)'
  BY DEF FrameOK, ajaxVars
<1>3. CASE frames' = <<>> /\ threw'
  BY <1>1, <1>3 DEF AjaxInv, FramesInv, StackOK, ActiveInv
<1>4. ASSUME NEW rest, rest = frames \/ (frames # <<>> /\ rest = Below), Grows(rest),
             rest # frames => Top \in PlainFrames
      PROVE  AjaxInv'
  <2>1. \A j \in DOMAIN rest : FrameOK(rest[j])'
    BY <1>2, <1>4, RestOK
  <2>2. /\ FramesInv' /\ StackOK(frames')
        /\ \A fs : fs \cap PlainFrames = {} => Number(frames', fs) = Number(rest, fs)
    BY <1>4, <2>1, RestStep
  <2>3. PICK E : E = Ending
    OBVIOUS
  <2>4. Ending' = E /\ Open' = Open
    BY <2>3 DEF Ending, Open, ajaxVars
  <2>5. E \cap PlainFrames = {}
    BY <2>3, EndingPlain
  <2>6. Number(rest, E) = Number(frames, E)
    BY <1>4, <2>5, RestNumber DEF AjaxInv
  <2>7. Number(frames', E) = Number(frames, E)
    BY <2>2, <2>5, <2>6
  <2>8. Number(frames, Ending)' = Number(frames, Ending)
    BY <2>3, <2>4, <2>7 DEF Number
  <2>9. ActiveInv'
    BY <2>4, <2>8 DEF AjaxInv, ActiveInv, ajaxVars
  <2> QED BY <1>1, <2>2, <2>9 DEF AjaxInv, StackOK
<1> QED BY <1>3, <1>4 DEF PlainStep


\* One more, and one less, to count.
LEMMA OneLess ==
    ASSUME NEW S, IsFiniteSet(S), NEW x \in S
    PROVE  Cardinality(S \ {x}) = Cardinality(S) - 1
BY FS_RemoveElement

LEMMA OneMore ==
    ASSUME NEW S, IsFiniteSet(S), NEW x, x \notin S
    PROVE  Cardinality(S \cup {x}) = Cardinality(S) + 1
BY FS_AddElement

\* A step that settles a request, whoever takes it: done runs, once.
LEMMA DoneStep ==
    ASSUME AjaxInv, NEW r \in Requests, NEW ok,
           NEW rest, rest = frames \/ (frames # <<>> /\ rest = Below /\ Top \in SetupFrames),
           Done(r, ok, rest),
           UNCHANGED <<quietVars, givenVars, counted, status, active, twice>>,
           phase[r] # "new",
           xhr' \in [Requests -> {"none", "listening", "off"}],
           xhr'[r] # "listening", xhr[r] = "none" => xhr'[r] = "none",
           \A q \in Requests : q # r => xhr'[q] = xhr[q]
    PROVE  AjaxInv'
<1>1. rest \in Seq(Frames) /\ \A j \in DOMAIN rest : rest[j] \in Frames /\ FrameOK(rest[j])
  BY RestOK
<1>2. TypeInv
  BY DEF AjaxInv
<1>3. PICK E : E = Ending
  OBVIOUS
<1>4. E = Ending' /\ E \cap PlainFrames = {} /\ E \cap SetupFrames = {}
  BY <1>3, EndingPlain DEF Ending
<1>5. Number(rest, E) = Number(frames, E) /\ Number(rest, E) \in Nat
  <2>1. CASE rest = frames
    BY <1>1, <2>1, NumberType
  <2>2. CASE rest # frames
    BY <1>2, <1>4, <2>2, RestNumber
  <2> QED BY <2>1, <2>2
<1>6. DeferredTypes'
  BY <1>2 DEF TypeInv, DeferredTypes, quietVars, givenVars
<1>7. CASE phase[r] = "done" /\ frames' = rest /\ UNCHANGED <<lists, phase, timer, transport>>
  <2>1. TypeInv'
    BY <1>1, <1>2, <1>6, <1>7 DEF TypeInv, ListsOK, AjaxTypes
  <2>2. RequestInv' /\ TwiceInv'
    BY <1>7 DEF AjaxInv, RequestInv, TwiceInv, givenVars
  <2>3. \A f : FrameOK(f) => FrameOK(f)'
    BY <1>7 DEF FrameOK, SetupFrames
  <2>4. \A j \in DOMAIN rest : FrameOK(rest[j])'
    BY <1>1, <2>3
  <2>5. Grows(rest)
    BY <1>1, <1>7, GrowsBy
  <2>6. /\ FramesInv' /\ StackOK(frames')
        /\ \A fs : fs \cap PlainFrames = {} => Number(frames', fs) = Number(rest, fs)
    BY <2>4, <2>5, RestStep
  <2>7. Number(frames, Ending)' = Number(frames, Ending)
    BY ZenonT(60), <1>3, <1>4, <1>5, <2>6 DEF Number
  <2>8. Open' = Open
    BY <1>7 DEF Open
  <2>9. ActiveInv'
    BY <2>7, <2>8 DEF AjaxInv, ActiveInv, quietVars
  <2> QED BY <2>1, <2>2, <2>6, <2>9 DEF AjaxInv, StackOK
<1>8. CASE /\ phase[r] # "done"
           /\ phase' = [phase EXCEPT ![r] = "done"]
           /\ timer' = [timer EXCEPT ![r] = FALSE]
           /\ transport' = [transport EXCEPT ![r] = FALSE]
           /\ ListsOK(lists)'
           /\ Grows(<<After(r)>> \o rest)
  <2>1. PICK a : a = After(r)
    OBVIOUS
  <2>2. /\ a \in Frames \ SetupFrames /\ a.request = r
        /\ a \in StatusFrames \cup CloseFrames \cup EndFrames
        /\ a \in EndFrames => counted[r]
        /\ a \in StatusFrames <=> status[r] # 0
    BY <1>2, <2>1, AfterKind
  <2>3. AjaxTypes'
    BY <1>2, <1>8 DEF TypeInv, AjaxTypes
  <2>4. RequestInv' /\ TwiceInv'
    BY <1>2, <1>8 DEF AjaxInv, RequestInv, TwiceInv, givenVars, TypeInv, AjaxTypes
  <2>5. \A f : FrameOK(f) => FrameOK(f)'
    <3> TAKE f
    <3> HAVE FrameOK(f)
    <3>1. f \in SetupFrames => f.request \in Requests
      BY DEF SetupFrames
    <3>2. f \in StatusFrames => f.request \in Requests
      BY DEF StatusFrames
    <3>3. f \in CloseFrames => f.request \in Requests
      BY DEF CloseFrames
    <3>4. f \in EndFrames => f.request \in Requests
      BY DEF EndFrames
    <3>5. \A q \in Requests : phase'[q] = IF q = r THEN "done" ELSE phase[q]
      BY <1>2, <1>8 DEF TypeInv, AjaxTypes
    <3>6. \A q \in Requests : xhr[q] = "none" => xhr'[q] = "none"
      OBVIOUS
    <3>7. \A q \in Requests : q # r => transport'[q] = transport[q]
      BY <1>2, <1>8 DEF TypeInv, AjaxTypes
    <3> QED BY <3>1, <3>2, <3>3, <3>4, <3>5, <3>6, <3>7 DEF FrameOK
  <2>6. FrameOK(a)'
    BY <1>2, <1>8, <2>2 DEF TypeInv, AjaxTypes, FrameOK
  <2>7. \A j \in DOMAIN rest : PairOK(a, rest[j]) /\ FrameOK(rest[j])'
    <3> TAKE j \in DOMAIN rest
    <3>1. FrameOK(rest[j])
      BY <1>1
    <3>2. rest[j] \in StatusFrames => rest[j].request # r
      BY <1>8, <3>1 DEF FrameOK
    <3> QED BY <2>2, <2>5, <3>1, <3>2 DEF PairOK
  <2>8. /\ frames' \in Seq(Frames) /\ FramesInv' /\ StackOK(frames')
        /\ \A fs : fs \cap PlainFrames = {} =>
              Number(frames', fs) = Number(rest, fs) + (IF a \in fs THEN 1 ELSE 0)
    BY <1>8, <2>1, <2>2, <2>6, <2>7, PushStep
  <2>9. TypeInv'
    BY <1>6, <1>8, <2>3, <2>8 DEF TypeInv
  <2>10. Number(frames, Ending)' = Number(frames, Ending) + (IF a \in E THEN 1 ELSE 0)
    BY <1>3, <1>4, <1>5, <2>8 DEF Number
  <2>11. a \in E <=> counted[r]
    BY <1>3, <2>2 DEF Ending
  <2>12. Open' = Open \ {r} /\ (r \in Open <=> counted[r])
    BY <1>2, <1>8 DEF Open, TypeInv, AjaxTypes
  <2>13. IsFiniteSet(Open) /\ Cardinality(Open) \in Nat /\ Cardinality(twice) \in Nat
    BY OpenFinite DEF AjaxInv
  <2>14. Cardinality(Open)' = Cardinality(Open) - (IF counted[r] THEN 1 ELSE 0)
    <3>1. CASE counted[r]
      BY <2>12, <2>13, <3>1, OneLess
    <3>2. CASE ~counted[r]
      <4>1. Open' = Open
        BY <2>12, <3>2
      <4> QED BY <2>13, <3>2, <4>1
    <3> QED BY <3>1, <3>2
  <2>15. ActiveInv'
    <3>1. PICK n : n = Number(frames, Ending)
      OBVIOUS
    <3>2. n \in Nat
      BY <1>3, <1>5, <3>1
    <3>3. active \in Int
      BY <1>2 DEF TypeInv, AjaxTypes
    <3>4. UNCHANGED <<active, twice, threw>>
      BY DEF quietVars
    <3>5. ~threw => active = Cardinality(Open) + n - Cardinality(twice)
      BY <3>1 DEF AjaxInv, ActiveInv
    <3>6. Number(frames, Ending)' = n + (IF counted[r] THEN 1 ELSE 0)
      BY <2>10, <2>11, <3>1
    <3>7. ~threw => active = (Cardinality(Open) - (IF counted[r] THEN 1 ELSE 0))
                             + (n + (IF counted[r] THEN 1 ELSE 0)) - Cardinality(twice)
      BY <2>13, <3>2, <3>3, <3>5
    <3> QED BY <2>14, <3>4, <3>6, <3>7 DEF ActiveInv
  <2> QED BY <2>4, <2>8, <2>9, <2>15 DEF AjaxInv, StackOK
<1> QED BY <1>1, <1>2, <1>7, <1>8, DoneShape


\* The top frame of a request.
LEMMA HookTop ==
    ASSUME AjaxInv, frames # <<>>
    PROVE  /\ Below \in Seq(Frames) /\ FrameOK(Top) /\ Top \in Frames
           /\ \A j \in DOMAIN Below : /\ Below[j] \in Frames /\ FrameOK(Below[j])
                                      /\ PairOK(Top, Below[j])
<1>1. Below # frames
  BY DEF AjaxInv, TypeInv, Below
<1>2. Top \in Frames
  BY TopFrame DEF AjaxInv
<1> QED BY <1>1, <1>2, RestOK

\* A step that takes the top off and puts a on, where a is counted if the top was.
LEMMA SwapStep ==
    ASSUME AjaxInv, frames # <<>>, NEW rest, rest = Below, NEW a \in Frames, FrameOK(a)',
           \A j \in DOMAIN rest : PairOK(a, rest[j]) /\ FrameOK(rest[j])',
           Grows(<<a>> \o rest),
           Ending' = Ending, a \in Ending <=> Top \in Ending,
           Open' = Open, UNCHANGED <<active, twice, threw>>
    PROVE  frames' \in Seq(Frames) /\ FramesInv' /\ StackOK(frames)' /\ ActiveInv'
<1>1. /\ frames' \in Seq(Frames) /\ FramesInv' /\ StackOK(frames')
      /\ \A fs : fs \cap PlainFrames = {} =>
            Number(frames', fs) = Number(rest, fs) + (IF a \in fs THEN 1 ELSE 0)
  BY PushStep
<1>2. PICK E : E = Ending
  OBVIOUS
<1>3. Number(frames', E) = Number(frames, E)
  BY <1>1, <1>2, EndingPlain, RestNumber DEF AjaxInv
<1>4. Number(frames, Ending)' = Number(frames, Ending)
  BY <1>2, <1>3 DEF Number
<1> QED BY <1>1, <1>4 DEF AjaxInv, ActiveInv, StackOK

\* A step that takes a top off that is not counted.
LEMMA DropStep ==
    ASSUME AjaxInv, frames # <<>>, NEW rest, rest = Below,
           \A j \in DOMAIN rest : FrameOK(rest[j])',
           Grows(rest),
           Ending' = Ending, Top \notin Ending,
           Open' = Open, UNCHANGED <<active, twice, threw>>
    PROVE  frames' \in Seq(Frames) /\ FramesInv' /\ StackOK(frames)' /\ ActiveInv'
<1>1. /\ frames' \in Seq(Frames) /\ FramesInv' /\ StackOK(frames')
      /\ \A fs : fs \cap PlainFrames = {} => Number(frames', fs) = Number(rest, fs)
  BY RestStep
<1>2. PICK E : E = Ending
  OBVIOUS
<1>3. Number(frames', E) = Number(frames, E)
  BY <1>1, <1>2, EndingPlain, RestNumber DEF AjaxInv
<1>4. Number(frames, Ending)' = Number(frames, Ending)
  BY <1>2, <1>3 DEF Number
<1> QED BY <1>1, <1>4 DEF AjaxInv, ActiveInv, StackOK

\* Which frames are counted.
LEMMA EndingIs ==
    ASSUME NEW f
    PROVE  /\ f \in StatusFrames \cup CloseFrames \cup EndFrames =>
                 (f \in Ending <=> counted[f.request])
           /\ f \notin StatusFrames \cup CloseFrames \cup EndFrames => f \notin Ending
BY DEF Ending

\* The functions of statusCode.
LEMMA CallsStatusStep ==
    ASSUME AjaxInv, NEW r \in Requests, CallsStatus(r)
    PROVE  AjaxInv'
<1>1. TypeInv /\ frames # <<>> /\ On("status")
  BY DEF AjaxInv, CallsStatus, On
<1>2. Top = StatusFrame(r)
  BY <1>1, TopFrame DEF CallsStatus
<1>3. /\ Below \in Seq(Frames) /\ FrameOK(Top)
      /\ \A j \in DOMAIN Below : /\ Below[j] \in Frames /\ FrameOK(Below[j])
                                 /\ PairOK(Top, Below[j])
  BY <1>1, HookTop
<1>0. PICK rest : rest = Below
  OBVIOUS
<1>4. /\ Top \in StatusFrames /\ Top.request = r /\ phase[r] = "done" /\ status[r] # 0
  BY <1>2, <1>3, FrameKinds DEF FrameOK
<1>5. PICK a : a = SettledFrame(r)
  OBVIOUS
<1>6. /\ a \in Frames \ SetupFrames /\ a.request = r /\ a \notin StatusFrames
      /\ a \in CloseFrames \cup EndFrames /\ (a \in EndFrames <=> counted[r])
  BY <1>1, <1>5, AfterKind
<1>7. PICK f : f = status[r]
  OBVIOUS
<1>8. f \in Fns /\ r \in Deferreds /\ <<a>> \o rest \in Seq(Frames)
  <2>1. MaxObjects \in Nat /\ status[r] \in 0 .. MaxObjects
    BY <1>1, DeferredAssumption DEF TypeInv, AjaxTypes
  <2> QED BY <1>0, <1>3, <1>4, <1>6, <1>7, <2>1, AjaxAssumption, StackPush DEF Fns
<1>9. PICK ids, cbs : Gives(ids, cbs, <<a>> \o rest)
  <2>1. /\ AddAll([id \in Outcomes(r) |-> User(f)], <<a>> \o rest)
        /\ Registers(Outcomes(r), f)
    BY <1>0, <1>5, <1>7 DEF CallsStatus
  <2> QED BY <1>8, <2>1, OutcomesGive
<1>10. ListsOK(lists)' /\ registered' \in [ListIds -> Seq(Fns)] /\ Grows(<<a>> \o rest)
  BY <1>1, <1>8, <1>9, GivesShape DEF TypeInv, DeferredTypes, ListsOK, Grows
<1>11. Ending' = Ending /\ Open' = Open /\ (a \in Ending <=> Top \in Ending)
  BY <1>4, <1>6, EndingIs DEF Ending, Open, CallsStatus
<1>12. FrameOK(a)'
  BY <1>4, <1>6 DEF FrameOK, CallsStatus
<1>13. \A j \in DOMAIN rest : PairOK(a, rest[j]) /\ FrameOK(rest[j])'
  <2> TAKE j \in DOMAIN rest
  <2>1. PairOK(a, rest[j])
    BY <1>6 DEF PairOK
  <2>2. rest[j] \in StatusFrames => rest[j].request # r
    BY <1>0, <1>3, <1>4 DEF PairOK
  <2>3. FrameOK(rest[j])
    BY <1>0, <1>3
  <2>4. PICK g : g = rest[j]
    OBVIOUS
  <2>5. g \in StatusFrames => status'[g.request] = status[g.request]
    BY <1>1, <2>2, <2>4 DEF StatusFrames, CallsStatus, TypeInv, AjaxTypes
  <2>6. FrameOK(g)'
    BY <2>3, <2>4, <2>5 DEF FrameOK, CallsStatus
  <2>7. FrameOK(rest[j])'
    BY <2>4, <2>6
  <2> QED BY <2>1, <2>7
<1>14. frames' \in Seq(Frames) /\ FramesInv' /\ StackOK(frames)' /\ ActiveInv'
  <2>1. UNCHANGED <<active, twice, threw>>
    BY DEF CallsStatus, quietVars
  <2> QED BY <1>0, <1>1, <1>6, <1>10, <1>11, <1>12, <1>13, <2>1, SwapStep
<1>15. DeferredTypes'
  BY <1>1, <1>10 DEF TypeInv, DeferredTypes, CallsStatus, quietVars
<1>16. AjaxTypes'
  BY <1>1, DeferredAssumption DEF CallsStatus, TypeInv, AjaxTypes
<1>17. RequestInv' /\ TwiceInv'
  BY DEF AjaxInv, RequestInv, TwiceInv, CallsStatus
<1> QED BY <1>10, <1>14, <1>15, <1>16, <1>17 DEF AjaxInv, TypeInv


\* A function of the page is called for a request, at the top.
LEMMA AtHookTop ==
    ASSUME AjaxInv, NEW r \in Requests, NEW at \in Hooks, AtHook(r, at)
    PROVE  /\ frames # <<>> /\ Top = HookFrame(r, at)
           /\ Top \in Frames /\ Top.request = r /\ Top.at = at
           /\ Top \in SetupFrames <=> at \in Setup
           /\ Top \in EndFrames <=> at \in {"ajaxSettled", "ajaxComplete"}
           /\ Top \notin StatusFrames \cup CloseFrames \cup PlainFrames
           /\ FrameOK(Top)
           /\ Below \in Seq(Frames)
           /\ \E rest \in Seq(Frames) :
                 /\ rest = Below
                 /\ \A j \in DOMAIN rest : /\ rest[j] \in Frames /\ FrameOK(rest[j])
                                           /\ PairOK(HookFrame(r, at), rest[j])
<1>1. frames # <<>> /\ Top = HookFrame(r, at)
  BY DEF AtHook, On
<1>2. /\ Below \in Seq(Frames) /\ FrameOK(Top) /\ Top \in Frames
      /\ \A j \in DOMAIN Below : /\ Below[j] \in Frames /\ FrameOK(Below[j])
                                 /\ PairOK(HookFrame(r, at), Below[j])
  BY <1>1, HookTop
<1>3. PICK rest : rest = Below
  OBVIOUS
<1>4. /\ rest \in Seq(Frames) /\ rest = Below
      /\ \A j \in DOMAIN rest : /\ rest[j] \in Frames /\ FrameOK(rest[j])
                                /\ PairOK(HookFrame(r, at), rest[j])
  BY <1>2, <1>3
<1> QED BY <1>1, <1>2, <1>4, FrameKinds

\* The types, where a step of ajax() or of done changes no list.
LEMMA QuietTypes ==
    ASSUME TypeInv, UNCHANGED <<lists, quietVars, givenVars>>
    PROVE  ListsOK(lists)' /\ DeferredTypes'
BY DEF TypeInv, ListsOK, DeferredTypes, quietVars, givenVars

\* ajaxSuccess or ajaxError.
LEMMA SettledHandledStep ==
    ASSUME AjaxInv, NEW r \in Requests, SettledHandled(r)
    PROVE  AjaxInv'
<1>1. "ajaxSettled" \in Hooks /\ "ajaxSettled" \notin Setup /\ AtHook(r, "ajaxSettled")
  BY DEF Hooks, Setup, SettledHandled
<1>2. /\ frames # <<>> /\ Top.request = r /\ Top \in EndFrames /\ FrameOK(Top)
  BY <1>1, AtHookTop
<1>3. PICK rest \in Seq(Frames) :
         /\ rest = Below
         /\ \A j \in DOMAIN rest : rest[j] \in Frames /\ FrameOK(rest[j])
  BY <1>1, AtHookTop
<1>4. PICK a : a = CloseFrame(r)
  OBVIOUS
<1>5. /\ a \in Frames /\ a.request = r /\ a \in CloseFrames
      /\ a \notin SetupFrames \cup StatusFrames \cup EndFrames
  BY <1>4, FrameKinds
<1>6. phase[r] = "done" /\ counted[r]
  BY <1>2 DEF FrameOK
<1>7. \A f : FrameOK(f) => FrameOK(f)'
  BY DEF FrameOK, SettledHandled, ajaxVars
<1>8. FrameOK(a)'
  BY <1>5, <1>6 DEF FrameOK, SettledHandled, ajaxVars
<1>9. \A j \in DOMAIN rest : PairOK(a, rest[j]) /\ FrameOK(rest[j])'
  BY <1>3, <1>5, <1>7 DEF PairOK
<1>10. <<a>> \o rest \in Seq(Frames) /\ frames' = <<a>> \o rest
  BY <1>3, <1>4, <1>5, StackPush DEF SettledHandled
<1>11. Grows(<<a>> \o rest)
  BY <1>10, GrowsBy
<1>12. Ending' = Ending /\ Open' = Open /\ (a \in Ending <=> Top \in Ending)
  BY <1>2, <1>5, EndingIs DEF Ending, Open, SettledHandled, ajaxVars
<1>13. frames' \in Seq(Frames) /\ FramesInv' /\ StackOK(frames)' /\ ActiveInv'
  <2>1. UNCHANGED <<active, twice, threw>>
    BY DEF SettledHandled, quietVars, ajaxVars
  <2> QED BY <1>2, <1>3, <1>5, <1>8, <1>9, <1>11, <1>12, <2>1, SwapStep
<1>14. ListsOK(lists)' /\ DeferredTypes'
  BY QuietTypes DEF AjaxInv, SettledHandled
<1>15. AjaxTypes' /\ RequestInv' /\ TwiceInv'
  BY DEF AjaxInv, TypeInv, AjaxTypes, RequestInv, TwiceInv, SettledHandled, ajaxVars, givenVars
<1> QED BY <1>13, <1>14, <1>15 DEF AjaxInv, TypeInv

\* complete, then ajaxComplete.
LEMMA CompletesStep ==
    ASSUME AjaxInv, NEW r \in Requests, Completes(r)
    PROVE  AjaxInv'
<1>1. TypeInv /\ frames # <<>> /\ On("close")
  BY DEF AjaxInv, Completes, On
<1>2. Top = CloseFrame(r)
  BY <1>1, TopFrame DEF Completes
<1>3. PICK rest : rest = Below
  OBVIOUS
<1>4. /\ rest \in Seq(Frames) /\ FrameOK(Top)
      /\ \A j \in DOMAIN rest : rest[j] \in Frames /\ FrameOK(rest[j])
  BY <1>1, <1>3, HookTop
<1>5. Top \in CloseFrames /\ Top.request = r /\ phase[r] = "done"
  BY <1>2, <1>4, FrameKinds DEF FrameOK
<1>6. "ajaxComplete" \in Hooks /\ "ajaxComplete" \notin Setup
  BY DEF Hooks, Setup
<1>7. PICK a : a = HookFrame(r, "ajaxComplete")
  OBVIOUS
<1>8. /\ a \in Frames /\ a.request = r /\ a \in EndFrames
      /\ a \notin SetupFrames \cup StatusFrames \cup CloseFrames
  BY <1>6, <1>7, FrameKinds
<1>9. \A f : FrameOK(f) => FrameOK(f)'
  BY DEF FrameOK, Completes, ajaxVars
<1>10. Ending' = Ending /\ Open' = Open /\ (Top \in Ending <=> counted[r])
       /\ (a \in Ending <=> counted[r]) /\ UNCHANGED <<active, twice, threw>>
  BY <1>5, <1>8, EndingIs DEF Ending, Open, Completes, ajaxVars, quietVars
<1>11. PICK id : id = <<r, "complete">>
  OBVIOUS
<1>12. id \in ListIds
  BY <1>11, AjaxAssumption DEF ListIds, Kinds
<1>13. counted[r] \in BOOLEAN
  BY <1>1 DEF TypeInv, AjaxTypes
<1>14. ListsOK(lists)' /\ frames' \in Seq(Frames) /\ FramesInv' /\ StackOK(frames)' /\ ActiveInv'
  <2>1. CASE counted[r]
    <3>1. <<a>> \o rest \in Seq(Frames)
      BY <1>4, <1>8, StackPush
    <3>2. FireWith(lists, id, <<a>> \o rest)
      BY <1>3, <1>7, <1>11, <2>1 DEF Completes
    <3>3. ListsOK(lists)' /\ Grows(<<a>> \o rest)
      BY <1>1, <1>12, <3>1, <3>2, FireGrows DEF TypeInv
    <3>4. FrameOK(a)'
      BY <1>5, <1>8, <2>1 DEF FrameOK, Completes, ajaxVars
    <3>5. \A j \in DOMAIN rest : PairOK(a, rest[j]) /\ FrameOK(rest[j])'
      BY <1>4, <1>8, <1>9 DEF PairOK
    <3> QED BY <1>1, <1>3, <1>8, <1>10, <3>3, <3>4, <3>5, SwapStep
  <2>2. CASE ~counted[r]
    <3>1. FireWith(lists, id, rest)
      BY <1>3, <1>11, <2>2 DEF Completes
    <3>2. ListsOK(lists)' /\ Grows(rest)
      BY <1>1, <1>4, <1>12, <3>1, FireGrows DEF TypeInv
    <3>3. \A j \in DOMAIN rest : FrameOK(rest[j])'
      BY <1>4, <1>9
    <3> QED BY <1>1, <1>3, <1>10, <2>2, <3>2, <3>3, DropStep
  <2> QED BY <1>13, <2>1, <2>2
<1>15. DeferredTypes'
  BY <1>1 DEF TypeInv, DeferredTypes, Completes, quietVars, givenVars
<1>16. AjaxTypes' /\ RequestInv' /\ TwiceInv'
  BY DEF AjaxInv, TypeInv, AjaxTypes, RequestInv, TwiceInv, Completes, ajaxVars, givenVars
<1> QED BY <1>14, <1>15, <1>16 DEF AjaxInv, TypeInv

\* ajaxStop.
LEMMA StopHandledStep ==
    ASSUME AjaxInv, NEW r \in Requests, StopHandled(r)
    PROVE  AjaxInv'
<1>1. "ajaxStop" \in Hooks /\ "ajaxStop" \notin Setup /\ AtHook(r, "ajaxStop")
  BY DEF Hooks, Setup, StopHandled
<1>2. frames # <<>> /\ Top \notin StatusFrames \cup CloseFrames \cup EndFrames
  BY <1>1, AtHookTop
<1>3. PICK rest \in Seq(Frames) :
         /\ rest = Below
         /\ \A j \in DOMAIN rest : rest[j] \in Frames /\ FrameOK(rest[j])
  BY <1>1, AtHookTop
<1>4. \A f : FrameOK(f) => FrameOK(f)'
  BY DEF FrameOK, StopHandled, ajaxVars
<1>5. \A j \in DOMAIN rest : FrameOK(rest[j])'
  BY <1>3, <1>4
<1>6. Grows(rest)
  BY <1>3, GrowsBy DEF StopHandled
<1>7. Ending' = Ending /\ Open' = Open /\ Top \notin Ending /\ UNCHANGED <<active, twice, threw>>
  BY <1>2, EndingIs DEF Ending, Open, StopHandled, ajaxVars, quietVars
<1>8. frames' \in Seq(Frames) /\ FramesInv' /\ StackOK(frames)' /\ ActiveInv'
  BY <1>2, <1>3, <1>5, <1>6, <1>7, DropStep
<1>9. ListsOK(lists)' /\ DeferredTypes'
  BY QuietTypes DEF AjaxInv, StopHandled
<1>10. AjaxTypes' /\ RequestInv' /\ TwiceInv'
  BY DEF AjaxInv, TypeInv, AjaxTypes, RequestInv, TwiceInv, StopHandled, ajaxVars, givenVars
<1> QED BY <1>8, <1>9, <1>10 DEF AjaxInv, TypeInv


\* --active.
LEMMA UncountsStep ==
    ASSUME AjaxInv, NEW r \in Requests, Uncounts(r)
    PROVE  AjaxInv'
<1>1. "ajaxComplete" \in Hooks /\ "ajaxComplete" \notin Setup /\ AtHook(r, "ajaxComplete")
  BY DEF Hooks, Setup, Uncounts
<1>2. /\ frames # <<>> /\ Top.request = r /\ Top \in EndFrames /\ FrameOK(Top)
  BY <1>1, AtHookTop
<1>3. PICK rest \in Seq(Frames) :
         /\ rest = Below
         /\ \A j \in DOMAIN rest : rest[j] \in Frames /\ FrameOK(rest[j])
  BY <1>1, AtHookTop
<1>4. counted[r]
  BY <1>2 DEF FrameOK
<1>5. PICK a : a = HookFrame(r, "ajaxStop")
  OBVIOUS
<1>6. "ajaxStop" \in Hooks /\ "ajaxStop" \notin Setup
      /\ "ajaxStop" \notin {"ajaxSettled", "ajaxComplete"}
  BY DEF Hooks, Setup
<1>7. /\ a \in Frames
      /\ a \notin SetupFrames \cup StatusFrames \cup CloseFrames \cup EndFrames
  BY <1>5, <1>6, FrameKinds
<1>8. \A f : FrameOK(f) => FrameOK(f)'
  BY DEF FrameOK, Uncounts
<1>9. PICK E : E = Ending
  OBVIOUS
<1>10. Ending' = E /\ Open' = Open /\ Top \in E /\ a \notin E
  BY <1>2, <1>4, <1>7, <1>9, EndingIs DEF Ending, Open, Uncounts
<1>11. /\ frames' \in Seq(Frames) /\ FramesInv' /\ StackOK(frames')
       /\ Number(frames', E) = Number(rest, E)
  <2>1. CASE active = 1
    <3>1. <<a>> \o rest \in Seq(Frames) /\ frames' = <<a>> \o rest
      BY <1>3, <1>5, <1>7, <2>1, StackPush DEF Uncounts
    <3>2. Grows(<<a>> \o rest)
      BY <3>1, GrowsBy
    <3>3. FrameOK(a)'
      BY <1>7 DEF FrameOK
    <3>4. \A j \in DOMAIN rest : PairOK(a, rest[j]) /\ FrameOK(rest[j])'
      BY <1>3, <1>7, <1>8 DEF PairOK
    <3>5. /\ frames' \in Seq(Frames) /\ FramesInv' /\ StackOK(frames')
          /\ \A fs : fs \cap PlainFrames = {} =>
                Number(frames', fs) = Number(rest, fs) + (IF a \in fs THEN 1 ELSE 0)
      BY <1>2, <1>3, <1>7, <3>2, <3>3, <3>4, PushStep
    <3>6. Number(frames', E) = Number(rest, E) + 0
      BY <1>9, <1>10, <3>5, EndingPlain
    <3>7. Number(rest, E) \in Nat
      BY <1>3, NumberType
    <3> QED BY <3>5, <3>6, <3>7
  <2>2. CASE active # 1
    <3>1. Grows(rest)
      BY <1>3, <2>2, GrowsBy DEF Uncounts
    <3>2. \A j \in DOMAIN rest : FrameOK(rest[j])'
      BY <1>3, <1>8
    <3>3. /\ frames' \in Seq(Frames) /\ FramesInv' /\ StackOK(frames')
          /\ \A fs : fs \cap PlainFrames = {} => Number(frames', fs) = Number(rest, fs)
      BY <1>2, <1>3, <3>1, <3>2, RestStep
    <3> QED BY <1>9, <3>3, EndingPlain
  <2> QED BY <2>1, <2>2
<1>12. Number(frames, E) = Number(rest, E) + 1 /\ Number(rest, E) \in Nat
  BY <1>2, <1>3, <1>10, RestNumber DEF AjaxInv
<1>13. ActiveInv'
  <2>1. PICK n : n = Number(rest, E)
    OBVIOUS
  <2>2. n \in Nat /\ Number(frames, E) = n + 1 /\ Number(frames', E) = n
    BY <1>11, <1>12, <2>1
  <2>3. IsFiniteSet(Open) /\ Cardinality(Open) \in Nat /\ Cardinality(twice) \in Nat
    BY OpenFinite DEF AjaxInv
  <2>4. active \in Int /\ active' = active - 1 /\ UNCHANGED <<twice, threw>>
    BY DEF AjaxInv, TypeInv, AjaxTypes, Uncounts, quietVars
  <2>5. ~threw => active = Cardinality(Open) + (n + 1) - Cardinality(twice)
    BY <1>9, <2>2 DEF AjaxInv, ActiveInv
  <2>6. ~threw => active' = Cardinality(Open) + n - Cardinality(twice)
    BY <2>2, <2>3, <2>4, <2>5
  <2>7. Number(frames, Ending)' = n
    BY <1>10, <2>2 DEF Number
  <2> QED BY <1>10, <2>4, <2>6, <2>7 DEF ActiveInv
<1>14. ListsOK(lists)' /\ DeferredTypes'
  BY QuietTypes DEF AjaxInv, Uncounts
<1>15. AjaxTypes'
  BY DEF AjaxInv, TypeInv, AjaxTypes, Uncounts
<1>16. RequestInv' /\ TwiceInv'
  BY DEF AjaxInv, RequestInv, TwiceInv, Uncounts, givenVars
<1> QED BY <1>11, <1>13, <1>14, <1>15, <1>16 DEF AjaxInv, TypeInv, StackOK

\* ajaxStart.
LEMMA StartHandledStep ==
    ASSUME AjaxInv, NEW r \in Requests, StartHandled(r)
    PROVE  AjaxInv'
<1>1. "ajaxStart" \in Hooks /\ "ajaxStart" \in Setup /\ AtHook(r, "ajaxStart")
      /\ "ajaxStart" # "prefilter" /\ "beforeSend" # "prefilter" /\ "beforeSend" # "ajaxSend"
      /\ "beforeSend" \in Hooks /\ "beforeSend" \in Setup
  BY DEF Hooks, Setup, StartHandled
<1>2. /\ frames # <<>> /\ Top.request = r /\ Top.at = "ajaxStart" /\ Top \in SetupFrames
      /\ FrameOK(Top) /\ Top = HookFrame(r, "ajaxStart")
  BY <1>1, AtHookTop
<1>3. PICK rest \in Seq(Frames) :
         /\ rest = Below
         /\ \A j \in DOMAIN rest : /\ rest[j] \in Frames /\ FrameOK(rest[j])
                                   /\ PairOK(HookFrame(r, "ajaxStart"), rest[j])
  BY <1>1, AtHookTop
<1>4. PICK a : a = HookFrame(r, "beforeSend")
  OBVIOUS
<1>5. /\ a \in Frames /\ a.request = r /\ a.at = "beforeSend" /\ a \in SetupFrames
      /\ a \notin StatusFrames \cup CloseFrames \cup EndFrames
  BY <1>1, <1>4, FrameKinds DEF Setup
<1>6. \A f : FrameOK(f) => FrameOK(f)'
  BY DEF FrameOK, StartHandled, ajaxVars
<1>7. FrameOK(a)
  BY <1>1, <1>2, <1>5 DEF FrameOK
<1>8. \A j \in DOMAIN rest : PairOK(a, rest[j]) /\ FrameOK(rest[j])'
  <2> TAKE j \in DOMAIN rest
  <2>1. PairOK(Top, rest[j])
    BY <1>2, <1>3
  <2>2. PairOK(a, rest[j])
    BY <1>2, <1>5, <2>1 DEF PairOK
  <2> QED BY <1>3, <1>6, <2>2
<1>9. <<a>> \o rest \in Seq(Frames) /\ frames' = <<a>> \o rest
  BY <1>3, <1>4, <1>5, StackPush DEF StartHandled
<1>10. Grows(<<a>> \o rest)
  BY <1>9, GrowsBy
<1>11. /\ Ending' = Ending /\ Open' = Open /\ (a \in Ending <=> Top \in Ending)
       /\ UNCHANGED <<active, twice, threw>>
  BY <1>2, <1>5, EndingPlain DEF Ending, Open, StartHandled, ajaxVars, quietVars
<1>12. frames' \in Seq(Frames) /\ FramesInv' /\ StackOK(frames)' /\ ActiveInv'
  BY <1>2, <1>3, <1>5, <1>6, <1>7, <1>8, <1>10, <1>11, SwapStep
<1>13. ListsOK(lists)' /\ DeferredTypes'
  BY QuietTypes DEF AjaxInv, StartHandled
<1>14. AjaxTypes' /\ RequestInv' /\ TwiceInv'
  BY DEF AjaxInv, TypeInv, AjaxTypes, RequestInv, TwiceInv, StartHandled, ajaxVars, givenVars
<1> QED BY <1>12, <1>13, <1>14 DEF AjaxInv, TypeInv

\* The transport.
LEMMA ReadyToSendStep ==
    ASSUME AjaxInv, NEW r \in Requests, ReadyToSend(r)
    PROVE  AjaxInv'
<1>1. "beforeSend" \in Hooks /\ "beforeSend" \in Setup /\ AtHook(r, "beforeSend")
      /\ "ajaxSend" # "prefilter" /\ "beforeSend" # "prefilter"
      /\ "ajaxSend" \in Hooks /\ "ajaxSend" \in Setup
  BY DEF Hooks, Setup, ReadyToSend
<1>2. /\ frames # <<>> /\ Top.request = r /\ Top.at = "beforeSend" /\ Top \in SetupFrames
      /\ FrameOK(Top) /\ Top = HookFrame(r, "beforeSend")
  BY <1>1, AtHookTop
<1>3. PICK rest \in Seq(Frames) :
         /\ rest = Below
         /\ \A j \in DOMAIN rest : /\ rest[j] \in Frames /\ FrameOK(rest[j])
                                   /\ PairOK(HookFrame(r, "beforeSend"), rest[j])
  BY <1>1, AtHookTop
<1>4. PICK a : a = HookFrame(r, "ajaxSend")
  OBVIOUS
<1>5. /\ a \in Frames /\ a.request = r /\ a.at = "ajaxSend" /\ a \in SetupFrames
      /\ a \notin StatusFrames \cup CloseFrames \cup EndFrames
  BY <1>1, <1>4, FrameKinds DEF Setup
<1>6. /\ \A q \in Requests : transport[q] => transport'[q]
      /\ transport'[r] /\ phase[r] = "setup"
      /\ transport' \in [Requests -> BOOLEAN]
      /\ \A q \in Requests : q # r => transport'[q] = transport[q]
  BY DEF ReadyToSend, AjaxInv, TypeInv, AjaxTypes
<1>7. \A f : FrameOK(f) => FrameOK(f)'
  <2> TAKE f
  <2>1. f \in SetupFrames => f.request \in Requests
    BY DEF SetupFrames
  <2> QED BY <1>6, <2>1 DEF FrameOK, ReadyToSend
<1>8. FrameOK(a)'
  BY <1>1, <1>2, <1>5, <1>6 DEF FrameOK, ReadyToSend
<1>9. \A j \in DOMAIN rest : PairOK(a, rest[j]) /\ FrameOK(rest[j])'
  <2> TAKE j \in DOMAIN rest
  <2>1. PairOK(Top, rest[j])
    BY <1>2, <1>3
  <2>2. PairOK(a, rest[j])
    BY <1>2, <1>5, <2>1 DEF PairOK
  <2> QED BY <1>3, <1>7, <2>2
<1>10. <<a>> \o rest \in Seq(Frames) /\ frames' = <<a>> \o rest
  BY <1>3, <1>4, <1>5, StackPush DEF ReadyToSend
<1>11. Grows(<<a>> \o rest)
  BY <1>10, GrowsBy
<1>12. /\ Ending' = Ending /\ Open' = Open /\ (a \in Ending <=> Top \in Ending)
       /\ UNCHANGED <<active, twice, threw>>
  BY <1>2, <1>5, EndingPlain DEF Ending, Open, ReadyToSend, quietVars
<1>13. frames' \in Seq(Frames) /\ FramesInv' /\ StackOK(frames)' /\ ActiveInv'
  BY <1>2, <1>3, <1>5, <1>8, <1>9, <1>11, <1>12, SwapStep
<1>14. ListsOK(lists)' /\ DeferredTypes'
  BY QuietTypes DEF AjaxInv, ReadyToSend
<1>15. AjaxTypes'
  BY <1>6 DEF AjaxInv, TypeInv, AjaxTypes, ReadyToSend
<1>16. RequestInv' /\ TwiceInv'
  BY <1>6 DEF AjaxInv, RequestInv, TwiceInv, ReadyToSend, givenVars
<1> QED BY <1>13, <1>14, <1>15, <1>16 DEF AjaxInv, TypeInv


\* $.ajax.
LEMMA AjaxCallStep ==
    ASSUME AjaxInv, NEW r \in Requests, AjaxCall(r)
    PROVE  AjaxInv'
<1>1. "prefilter" \in Hooks /\ "prefilter" \in Setup /\ "prefilter" # "ajaxSend"
  BY DEF Hooks, Setup
<1>2. TypeInv /\ phase[r] = "new" /\ r \in Deferreds
  BY AjaxAssumption DEF AjaxInv, AjaxCall, IsNext
<1>3. PICK s : s = frames
  OBVIOUS
<1>4. s \in Seq(Frames) /\ \A j \in DOMAIN s : s[j] \in Frames /\ FrameOK(s[j])
  BY <1>3, RestOK
<1>5. PICK a : a = HookFrame(r, "prefilter")
  OBVIOUS
<1>6. /\ a \in Frames /\ a.request = r /\ a.at = "prefilter" /\ a \in SetupFrames
      /\ a \notin StatusFrames \cup CloseFrames \cup EndFrames
  BY <1>1, <1>5, FrameKinds DEF Setup
<1>7. phase' = [phase EXCEPT ![r] = "setup"] /\ made' = made \cup {r}
      /\ frames' = <<a>> \o s /\ Open' = Open
      /\ UNCHANGED <<lists, quietVars, parts, functions, registered, transport, xhr,
                     timer, counted, status, active, twice>>
  BY <1>2, <1>3, <1>5 DEF AjaxCall, AjaxInv, RequestInv, Open, TypeInv, AjaxTypes
<1>8. phase'[r] = "setup" /\ \A q \in Requests : q # r => phase'[q] = phase[q]
  BY <1>2, <1>7 DEF TypeInv, AjaxTypes
<1>9. xhr[r] = "none" /\ ~counted[r] /\ r \notin twice
  BY <1>2 DEF AjaxInv, RequestInv
<1>10. FrameOK(a)'
  BY <1>1, <1>6, <1>7, <1>8, <1>9 DEF FrameOK
<1>11. \A j \in DOMAIN s : PairOK(a, s[j]) /\ FrameOK(s[j])'
  <2> TAKE j \in DOMAIN s
  <2>1. PICK f : f = s[j]
    OBVIOUS
  <2>2. FrameOK(f)
    BY <1>4, <2>1
  <2>3. f \in SetupFrames \cup StatusFrames \cup CloseFrames \cup EndFrames =>
            f.request \in Requests /\ f.request # r
    BY <1>2, <2>2 DEF SetupFrames, StatusFrames, CloseFrames, EndFrames, FrameOK
  <2>4. FrameOK(f)'
    BY <1>7, <1>8, <2>2, <2>3 DEF FrameOK
  <2>5. PairOK(a, f)
    BY <1>6, <2>3 DEF PairOK
  <2> QED BY <2>1, <2>4, <2>5
<1>12. <<a>> \o s \in Seq(Frames) /\ Grows(<<a>> \o s)
  BY <1>4, <1>6, <1>7, StackPush, GrowsBy
<1>13. /\ frames' \in Seq(Frames) /\ FramesInv' /\ StackOK(frames')
       /\ \A fs : fs \cap PlainFrames = {} =>
             Number(frames', fs) = Number(s, fs) + (IF a \in fs THEN 1 ELSE 0)
  BY <1>3, <1>6, <1>10, <1>11, <1>12, PushStep
<1>14. PICK E : E = Ending
  OBVIOUS
<1>15. Ending' = E /\ a \notin E /\ E \cap PlainFrames = {}
  BY <1>6, <1>7, <1>14, EndingPlain DEF Ending
<1>16. ActiveInv'
  <2>1. Number(frames', E) = Number(frames, E)
    <3>1. Number(s, E) \in Nat
      BY <1>4, NumberType
    <3> QED BY <1>3, <1>13, <1>15, <3>1
  <2>2. Number(frames, Ending)' = Number(frames, Ending)
    BY <1>14, <1>15, <2>1 DEF Number
  <2> QED BY <1>7, <2>2 DEF AjaxInv, ActiveInv, quietVars
<1>17. ListsOK(lists)' /\ DeferredTypes'
  BY <1>2, <1>7, FS_AddElement DEF TypeInv, DeferredTypes, ListsOK, quietVars
<1>18. AjaxTypes'
  BY <1>2, <1>7 DEF TypeInv, AjaxTypes
<1>19. RequestInv' /\ TwiceInv'
  BY <1>2, <1>7, <1>8, <1>9 DEF AjaxInv, RequestInv, TwiceInv
<1> QED BY <1>13, <1>16, <1>17, <1>18, <1>19 DEF AjaxInv, TypeInv, StackOK

\* The prefilters return.
LEMMA PrefilteredStep ==
    ASSUME AjaxInv, NEW r \in Requests, Prefiltered(r)
    PROVE  AjaxInv'
<1>1. "prefilter" \in Hooks /\ "prefilter" \in Setup /\ AtHook(r, "prefilter")
      /\ "ajaxStart" # "prefilter" /\ "beforeSend" # "prefilter"
      /\ "beforeSend" # "ajaxSend" /\ "ajaxStart" # "ajaxSend"
      /\ "beforeSend" \in Hooks /\ "beforeSend" \in Setup
      /\ "ajaxStart" \in Hooks /\ "ajaxStart" \in Setup
  BY DEF Hooks, Setup, Prefiltered
<1>2. /\ frames # <<>> /\ Top.request = r /\ Top.at = "prefilter" /\ Top \in SetupFrames
      /\ FrameOK(Top) /\ Top = HookFrame(r, "prefilter")
      /\ Top \notin StatusFrames \cup CloseFrames \cup EndFrames
  BY <1>1, AtHookTop DEF Setup
<1>3. PICK rest \in Seq(Frames) :
         /\ rest = Below
         /\ \A j \in DOMAIN rest : /\ rest[j] \in Frames /\ FrameOK(rest[j])
                                   /\ PairOK(HookFrame(r, "prefilter"), rest[j])
  BY <1>1, AtHookTop
<1>4. /\ phase[r] \in {"setup", "done"} /\ xhr[r] = "none" /\ r \notin twice /\ ~counted[r]
  BY <1>2 DEF FrameOK
<1>5. ListsOK(lists)' /\ DeferredTypes'
  BY QuietTypes DEF AjaxInv, Prefiltered
<1>6. CASE phase[r] = "done"
  <2>1. frames' = rest /\ UNCHANGED <<counted, active>>
    BY <1>3, <1>6 DEF Prefiltered
  <2>2. \A f : FrameOK(f) => FrameOK(f)'
    BY <2>1 DEF FrameOK, Prefiltered
  <2>3. \A j \in DOMAIN rest : FrameOK(rest[j])'
    BY <1>3, <2>2
  <2>4. Grows(rest)
    BY <2>1, GrowsBy
  <2>5. Ending' = Ending /\ Open' = Open /\ Top \notin Ending /\ UNCHANGED <<active, twice, threw>>
    BY <1>2, <2>1, EndingIs DEF Ending, Open, Prefiltered, quietVars
  <2>6. frames' \in Seq(Frames) /\ FramesInv' /\ StackOK(frames)' /\ ActiveInv'
    BY <1>2, <1>3, <2>3, <2>4, <2>5, DropStep
  <2>7. AjaxTypes'
    BY <2>1 DEF AjaxInv, TypeInv, AjaxTypes, Prefiltered
  <2>8. RequestInv' /\ TwiceInv'
    BY <2>1 DEF AjaxInv, RequestInv, TwiceInv, Prefiltered, givenVars
  <2> QED BY <1>5, <2>6, <2>7, <2>8 DEF AjaxInv, TypeInv
<1>7. CASE phase[r] # "done"
  <2>1. PICK a : a = HookFrame(r, IF active = 0 THEN "ajaxStart" ELSE "beforeSend")
    OBVIOUS
  <2>2. /\ a \in Frames /\ a.request = r /\ a.at # "prefilter" /\ a.at # "ajaxSend"
        /\ a \in SetupFrames
        /\ a \notin StatusFrames \cup CloseFrames \cup EndFrames
    BY <1>1, <2>1, FrameKinds DEF Setup
  <2>3. /\ counted' = [counted EXCEPT ![r] = TRUE] /\ active' = active + 1
        /\ frames' = <<a>> \o rest
        /\ UNCHANGED <<lists, quietVars, givenVars, phase, transport, xhr, timer, status, twice>>
    BY <1>3, <1>7, <2>1 DEF Prefiltered
  <2>4. counted'[r] /\ \A q \in Requests : q # r => counted'[q] = counted[q]
    BY <2>3 DEF AjaxInv, TypeInv, AjaxTypes
  <2>5. FrameOK(a)'
    BY <1>4, <2>2, <2>3, <2>4 DEF FrameOK
  <2>6. \A j \in DOMAIN rest :
           /\ rest[j] \in SetupFrames \cup StatusFrames \cup CloseFrames \cup EndFrames =>
                 rest[j].request \in Requests /\ rest[j].request # r
           /\ FrameOK(rest[j])
    <3> TAKE j \in DOMAIN rest
    <3>1. PICK f : f = rest[j]
      OBVIOUS
    <3>2. FrameOK(f) /\ PairOK(Top, f)
      BY <1>2, <1>3, <3>1
    <3>3. f \in SetupFrames \cup StatusFrames \cup CloseFrames \cup EndFrames =>
              f.request \in Requests
      BY DEF SetupFrames, StatusFrames, CloseFrames, EndFrames
    <3>4. f \in SetupFrames => f.request # r
      BY <1>2, <3>2 DEF PairOK
    <3>5. f \in StatusFrames \cup CloseFrames \cup EndFrames => f.request # r
      BY <1>7, <3>2 DEF FrameOK
    <3> QED BY <3>1, <3>2, <3>3, <3>4, <3>5
  <2>7. \A j \in DOMAIN rest : PairOK(a, rest[j]) /\ FrameOK(rest[j])'
    <3> TAKE j \in DOMAIN rest
    <3>1. PICK f : f = rest[j]
      OBVIOUS
    <3>2. /\ f \in SetupFrames \cup StatusFrames \cup CloseFrames \cup EndFrames =>
                f.request \in Requests /\ f.request # r
          /\ FrameOK(f)
      BY <2>6, <3>1
    <3>3. FrameOK(f)'
      BY <2>3, <2>4, <3>2 DEF FrameOK
    <3>4. PairOK(a, f)
      BY <2>2, <3>2 DEF PairOK
    <3> QED BY <3>1, <3>3, <3>4
  <2>8. Grows(<<a>> \o rest)
    BY <2>2, <2>3, StackPush, GrowsBy
  <2>9. /\ frames' \in Seq(Frames) /\ FramesInv' /\ StackOK(frames')
        /\ \A fs : fs \cap PlainFrames = {} =>
              Number(frames', fs) = Number(rest, fs) + (IF a \in fs THEN 1 ELSE 0)
    BY <1>2, <1>3, <2>2, <2>5, <2>7, <2>8, PushStep
  <2>10. PICK E : E = Ending
    OBVIOUS
  <2>11. PICK F : F = Ending'
    OBVIOUS
  <2>12. a \notin F /\ F \cap PlainFrames = {} /\ Top \notin E
    BY <1>2, <2>2, <2>10, <2>11, EndingPlain
  <2>13. \A j \in DOMAIN rest : rest[j] \in F <=> rest[j] \in E
    <3> TAKE j \in DOMAIN rest
    <3>1. PICK f : f = rest[j]
      OBVIOUS
    <3>2. f \in StatusFrames \cup CloseFrames \cup EndFrames =>
              f.request \in Requests /\ f.request # r
      BY <2>6, <3>1
    <3>3. f \in F <=> f \in E
      BY <2>4, <2>10, <2>11, <3>2 DEF Ending
    <3> QED BY <3>1, <3>3
  <2>14. Number(rest, F) = Number(rest, E)
    BY <2>13 DEF Number
  <2>15. Number(frames, Ending)' = Number(frames, Ending)
    <3>1. Number(frames, E) = Number(rest, E) + 0 /\ Number(rest, E) \in Nat
      BY <1>2, <1>3, <2>12, RestNumber DEF AjaxInv
    <3>2. Number(frames', F) = Number(rest, F) + 0
      BY <2>9, <2>12
    <3>3. Number(frames', F) = Number(frames, E)
      BY <2>14, <3>1, <3>2
    <3> QED BY <2>10, <2>11, <3>3 DEF Number
  <2>16. Open' = Open \cup {r} /\ r \notin Open
    BY <1>4, <1>7, <2>3, <2>4 DEF Open
  <2>17. IsFiniteSet(Open) /\ Cardinality(Open) \in Nat /\ Cardinality(twice) \in Nat
    BY OpenFinite DEF AjaxInv
  <2>18. Cardinality(Open)' = Cardinality(Open) + 1
    BY <2>16, <2>17, OneMore
  <2>19. ActiveInv'
    <3>1. PICK n : n = Number(frames, Ending)
      OBVIOUS
    <3>2. n \in Nat
      BY <3>1, NumberType DEF AjaxInv, TypeInv
    <3>3. active \in Int /\ UNCHANGED <<twice, threw>>
      BY <2>3 DEF AjaxInv, TypeInv, AjaxTypes, quietVars
    <3>4. ~threw => active = Cardinality(Open) + n - Cardinality(twice)
      BY <3>1 DEF AjaxInv, ActiveInv
    <3>5. ~threw => active + 1 = (Cardinality(Open) + 1) + n - Cardinality(twice)
      BY <2>17, <3>2, <3>3, <3>4
    <3> QED BY <2>3, <2>15, <2>18, <3>1, <3>3, <3>5 DEF ActiveInv
  <2>20. AjaxTypes'
    BY <2>3 DEF AjaxInv, TypeInv, AjaxTypes
  <2>21. RequestInv' /\ TwiceInv'
    BY <1>4, <2>3, <2>4 DEF AjaxInv, RequestInv, TwiceInv, givenVars
  <2> QED BY <1>5, <2>9, <2>19, <2>20, <2>21 DEF AjaxInv, TypeInv, StackOK
<1> QED BY <1>6, <1>7


\* state = 1, and transport.send.
LEMMA SentStep ==
    ASSUME AjaxInv, NEW r \in Requests, Sent(r)
    PROVE  AjaxInv'
<1>1. "ajaxSend" \in Hooks /\ "ajaxSend" \in Setup /\ AtHook(r, "ajaxSend")
  BY DEF Hooks, Setup, Sent
<1>2. /\ frames # <<>> /\ Top.request = r /\ Top \in SetupFrames
      /\ FrameOK(Top) /\ Top = HookFrame(r, "ajaxSend")
      /\ Top \notin StatusFrames \cup CloseFrames \cup EndFrames
  BY <1>1, AtHookTop DEF Setup
<1>3. PICK rest \in Seq(Frames) :
         /\ rest = Below
         /\ \A j \in DOMAIN rest : /\ rest[j] \in Frames /\ FrameOK(rest[j])
                                   /\ PairOK(HookFrame(r, "ajaxSend"), rest[j])
  BY <1>1, AtHookTop
<1>4. transport[r] /\ phase[r] = "setup" /\ r \notin twice
  BY <1>2 DEF FrameOK, AjaxInv, RequestInv, Sent
<1>5. PICK t \in BOOLEAN : timer' = [timer EXCEPT ![r] = t]
  BY DEF Sent
<1>6. /\ phase' = [phase EXCEPT ![r] = "sent"] /\ xhr' = [xhr EXCEPT ![r] = "listening"]
      /\ frames' = rest
      /\ UNCHANGED <<lists, quietVars, givenVars, transport, counted, status, active, twice>>
  BY <1>3 DEF Sent
<1>7. /\ phase'[r] = "sent"
      /\ \A q \in Requests : q # r => /\ phase'[q] = phase[q] /\ xhr'[q] = xhr[q]
                                      /\ timer'[q] = timer[q]
  BY <1>5, <1>6 DEF AjaxInv, TypeInv, AjaxTypes
<1>8. \A j \in DOMAIN rest : FrameOK(rest[j])'
  <2> TAKE j \in DOMAIN rest
  <2>1. PICK f : f = rest[j]
    OBVIOUS
  <2>2. FrameOK(f) /\ PairOK(Top, f)
    BY <1>2, <1>3, <2>1
  <2>3. f \in SetupFrames \cup StatusFrames \cup CloseFrames \cup EndFrames =>
            f.request \in Requests
    BY DEF SetupFrames, StatusFrames, CloseFrames, EndFrames
  <2>4. f \in SetupFrames => f.request # r
    BY <1>2, <2>2 DEF PairOK
  <2>5. f \in StatusFrames \cup CloseFrames \cup EndFrames => f.request # r
    BY <1>4, <2>2 DEF FrameOK
  <2>6. FrameOK(f)'
    BY <1>6, <1>7, <2>2, <2>3, <2>4, <2>5 DEF FrameOK
  <2> QED BY <2>1, <2>6
<1>9. Grows(rest)
  BY <1>6, GrowsBy
<1>10. Ending' = Ending /\ Top \notin Ending /\ UNCHANGED <<active, twice, threw>>
  BY <1>2, <1>6, EndingIs DEF Ending, quietVars
<1>11. Open' = Open
  BY <1>4, <1>6, <1>7 DEF Open
<1>12. frames' \in Seq(Frames) /\ FramesInv' /\ StackOK(frames)' /\ ActiveInv'
  BY <1>2, <1>3, <1>8, <1>9, <1>10, <1>11, DropStep
<1>13. ListsOK(lists)' /\ DeferredTypes'
  BY QuietTypes DEF AjaxInv, Sent
<1>14. AjaxTypes'
  BY <1>5, <1>6 DEF AjaxInv, TypeInv, AjaxTypes
<1>15. RequestInv' /\ TwiceInv'
  BY <1>4, <1>6, <1>7 DEF AjaxInv, TwiceInv, givenVars, RequestInv
<1> QED BY <1>12, <1>13, <1>14, <1>15 DEF AjaxInv, TypeInv

\* A request aborted in ajaxSend: done runs to its end again.
LEMMA SendsNothingStep ==
    ASSUME AjaxInv, NEW r \in Requests, SendsNothing(r)
    PROVE  AjaxInv'
<1>1. "ajaxSend" \in Hooks /\ "ajaxSend" \in Setup /\ AtHook(r, "ajaxSend")
      /\ "ajaxSend" # "prefilter"
  BY DEF Hooks, Setup, SendsNothing
<1>2. /\ frames # <<>> /\ Top.request = r /\ Top \in SetupFrames /\ Top.at = "ajaxSend"
      /\ FrameOK(Top) /\ Top = HookFrame(r, "ajaxSend")
      /\ Top \notin StatusFrames \cup CloseFrames \cup EndFrames
  BY <1>1, AtHookTop DEF Setup
<1>3. PICK rest \in Seq(Frames) :
         /\ rest = Below
         /\ \A j \in DOMAIN rest : /\ rest[j] \in Frames /\ FrameOK(rest[j])
                                   /\ PairOK(HookFrame(r, "ajaxSend"), rest[j])
  BY <1>1, AtHookTop
<1>4. TypeInv /\ phase[r] = "done" /\ r \notin twice /\ counted[r] /\ r \in made
  BY <1>1, <1>2 DEF FrameOK, AjaxInv, RequestInv, SendsNothing
<1>5. PICK a : a = After(r)
  OBVIOUS
<1>6. /\ a \in Frames \ SetupFrames /\ a.request = r
      /\ a \in StatusFrames \cup CloseFrames \cup EndFrames
      /\ a \in StatusFrames <=> status[r] # 0
  BY <1>4, <1>5, AfterKind
<1>7. <<a>> \o rest \in Seq(Frames)
  BY <1>6, StackPush
<1>8. ListsOK(lists)' /\ Grows(<<a>> \o rest)
  <2>1. PICK id : id = <<r, "fail">>
    OBVIOUS
  <2>2. id \in ListIds
    BY <2>1, AjaxAssumption DEF ListIds, Kinds
  <2>3. FireWith(lists, id, <<a>> \o rest)
    BY <1>3, <1>4, <1>5, <2>1, AfterKind DEF SendsNothing
  <2> QED BY <1>4, <1>7, <2>2, <2>3, FireGrows DEF TypeInv
<1>9. /\ twice' = twice \cup {r}
      /\ UNCHANGED <<quietVars, givenVars, phase, transport, xhr, timer, counted, status, active>>
  BY DEF SendsNothing
<1>10. FrameOK(a)'
  BY <1>4, <1>6, <1>9 DEF FrameOK
<1>11. \A j \in DOMAIN rest : PairOK(a, rest[j]) /\ FrameOK(rest[j])'
  <2> TAKE j \in DOMAIN rest
  <2>1. PICK f : f = rest[j]
    OBVIOUS
  <2>2. FrameOK(f) /\ PairOK(Top, f)
    BY <1>2, <1>3, <2>1
  <2>3. f \in SetupFrames \cup StatusFrames => f.request # r
    BY <1>2, <2>2 DEF PairOK
  <2>4. FrameOK(f)'
    BY <1>9, <2>2, <2>3 DEF FrameOK
  <2>5. PairOK(a, f)
    BY <1>6, <2>3 DEF PairOK
  <2> QED BY <2>1, <2>4, <2>5
<1>12. /\ frames' \in Seq(Frames) /\ FramesInv' /\ StackOK(frames')
       /\ \A fs : fs \cap PlainFrames = {} =>
             Number(frames', fs) = Number(rest, fs) + (IF a \in fs THEN 1 ELSE 0)
  BY <1>2, <1>3, <1>6, <1>8, <1>10, <1>11, PushStep
<1>13. PICK E : E = Ending
  OBVIOUS
<1>14. Ending' = E /\ a \in E /\ Top \notin E /\ E \cap PlainFrames = {}
  BY <1>2, <1>4, <1>6, <1>9, <1>13, EndingPlain, EndingIs DEF Ending
<1>15. Number(frames, Ending)' = Number(frames, Ending) + 1
  <2>1. Number(frames, E) = Number(rest, E) + 0 /\ Number(rest, E) \in Nat
    BY <1>2, <1>3, <1>4, <1>14, RestNumber
  <2>2. Number(frames', E) = Number(rest, E) + 1
    BY <1>12, <1>14
  <2>3. Number(frames', E) = Number(frames, E) + 1
    BY <2>1, <2>2
  <2> QED BY <1>13, <1>14, <2>3 DEF Number
<1>16. ActiveInv'
  <2>1. PICK n : n = Number(frames, Ending)
    OBVIOUS
  <2>2. n \in Nat
    BY <1>4, <2>1, NumberType DEF TypeInv
  <2>3. /\ IsFiniteSet(twice) /\ Cardinality(Open) \in Nat /\ Cardinality(twice) \in Nat
    BY OpenFinite DEF AjaxInv
  <2>4. Cardinality(twice') = Cardinality(twice) + 1
    BY <1>4, <1>9, <2>3, OneMore
  <2>5. active \in Int /\ UNCHANGED <<active, threw>> /\ Open' = Open
    BY <1>4, <1>9 DEF TypeInv, AjaxTypes, quietVars, Open
  <2>6. ~threw => active = Cardinality(Open) + n - Cardinality(twice)
    BY <2>1 DEF AjaxInv, ActiveInv
  <2>7. ~threw => active = Cardinality(Open) + (n + 1) - (Cardinality(twice) + 1)
    BY <2>2, <2>3, <2>5, <2>6
  <2> QED BY <1>15, <2>1, <2>4, <2>5, <2>7 DEF ActiveInv
<1>17. DeferredTypes'
  BY <1>4, <1>9 DEF TypeInv, DeferredTypes, quietVars, givenVars
<1>18. AjaxTypes'
  BY <1>4, <1>9 DEF TypeInv, AjaxTypes
<1>19. RequestInv' /\ TwiceInv'
  BY <1>4, <1>9 DEF AjaxInv, RequestInv, TwiceInv, givenVars
<1> QED BY <1>8, <1>12, <1>16, <1>17, <1>18, <1>19 DEF AjaxInv, TypeInv, StackOK

\* statusCode.
LEMMA StatusCodeStep ==
    ASSUME AjaxInv, NEW r \in Requests, StatusCode(r)
    PROVE  AjaxInv'
<1>1. TypeInv /\ NewFn \in Fns /\ functions' \in 0 .. MaxObjects /\ status[r] = 0
  BY MadeFn DEF AjaxInv, StatusCode
<1>2. NewFn # 0 /\ NewFn \in 0 .. MaxObjects
  BY <1>1 DEF Fns
<1>3. /\ status' = [status EXCEPT ![r] = NewFn]
      /\ UNCHANGED <<lists, frames, quietVars, made, parts, registered, phase,
                     transport, xhr, timer, counted, active, twice>>
  BY DEF StatusCode
<1>4. \A f : FrameOK(f) => FrameOK(f)'
  <2> TAKE f
  <2>1. f \in StatusFrames => f.request \in Requests
    BY DEF StatusFrames
  <2>2. \A q \in Requests : status[q] # 0 => status'[q] # 0
    BY <1>1, <1>2, <1>3 DEF TypeInv, AjaxTypes
  <2> QED BY <1>3, <2>1, <2>2 DEF FrameOK
<1>5. FramesInv' /\ StackOK(frames)'
  BY <1>3, <1>4 DEF AjaxInv, FramesInv, StackOK
<1>6. ListsOK(lists)' /\ DeferredTypes' /\ frames' \in Seq(Frames)
  BY <1>1, <1>3 DEF TypeInv, ListsOK, DeferredTypes, quietVars
<1>7. AjaxTypes'
  BY <1>1, <1>2, <1>3 DEF TypeInv, AjaxTypes
<1>8. RequestInv' /\ TwiceInv'
  BY <1>3 DEF AjaxInv, RequestInv, TwiceInv
<1>9. ActiveInv'
  BY <1>3 DEF Ending, Open, Number, AjaxInv, ActiveInv, quietVars
<1> QED BY <1>5, <1>6, <1>7, <1>8, <1>9 DEF AjaxInv, TypeInv

\* The conversion throws.
LEMMA AnswerThrowsStep ==
    ASSUME AjaxInv, NEW r \in Requests, AnswerThrows(r)
    PROVE  AjaxInv'
<1>1. TypeInv /\ frames = <<>> /\ frames' = frames /\ threw' /\ phase[r] = "sent"
  BY DEF AjaxInv, RequestInv, AnswerThrows, Idle
<1>2. FramesInv' /\ StackOK(frames)' /\ ActiveInv'
  BY <1>1 DEF FramesInv, StackOK, ActiveInv
<1>3. ListsOK(lists)' /\ DeferredTypes' /\ frames' \in Seq(Frames)
  BY <1>1 DEF TypeInv, ListsOK, DeferredTypes, AnswerThrows, givenVars
<1>4. AjaxTypes'
  BY <1>1 DEF TypeInv, AjaxTypes, AnswerThrows
<1>5. RequestInv' /\ TwiceInv'
  BY <1>1 DEF TypeInv, AjaxTypes, AjaxInv, RequestInv, TwiceInv, AnswerThrows, givenVars
<1> QED BY <1>2, <1>3, <1>4, <1>5 DEF AjaxInv, TypeInv

-----------------------------------------------------------------------------
(* The callers of done.                                                    *)

\* beforeSend returns false, or there is no transport.
LEMMA NotSentStep ==
    ASSUME AjaxInv, NEW r \in Requests, NotSent(r)
    PROVE  AjaxInv'
<1>1. "beforeSend" \in Hooks /\ "beforeSend" \in Setup /\ AtHook(r, "beforeSend")
  BY DEF Hooks, Setup, NotSent
<1>2. frames # <<>> /\ Top \in SetupFrames /\ Top.request = r /\ FrameOK(Top)
  BY <1>1, AtHookTop
<1>3. PICK rest, ok : rest = Below /\ ok = FALSE
  OBVIOUS
<1>4. Done(r, ok, rest)
      /\ UNCHANGED <<quietVars, givenVars, xhr, counted, status, active, twice>>
  BY <1>3 DEF NotSent
<1>5. phase[r] # "new" /\ xhr[r] = "none" /\ xhr' = xhr
  BY <1>2, <1>4 DEF FrameOK
<1>6. xhr' \in [Requests -> {"none", "listening", "off"}]
  BY <1>5 DEF AjaxInv, TypeInv, AjaxTypes
<1> QED BY <1>2, <1>3, <1>4, <1>5, <1>6, DoneStep

\* open or send of the XMLHttpRequest throws.
LEMMA SendThrowsStep ==
    ASSUME AjaxInv, NEW r \in Requests, SendThrows(r)
    PROVE  AjaxInv'
<1>1. "ajaxSend" \in Hooks /\ "ajaxSend" \in Setup /\ AtHook(r, "ajaxSend")
  BY DEF Hooks, Setup, SendThrows
<1>2. frames # <<>> /\ Top \in SetupFrames /\ Top.request = r /\ FrameOK(Top)
  BY <1>1, AtHookTop
<1>3. PICK rest, ok : rest = Below /\ ok = FALSE
  OBVIOUS
<1>4. Done(r, ok, rest)
      /\ UNCHANGED <<quietVars, givenVars, xhr, counted, status, active, twice>>
  BY <1>3 DEF SendThrows
<1>5. phase[r] # "new" /\ xhr[r] = "none" /\ xhr' = xhr
  BY <1>2, <1>4 DEF FrameOK
<1>6. xhr' \in [Requests -> {"none", "listening", "off"}]
  BY <1>5 DEF AjaxInv, TypeInv, AjaxTypes
<1> QED BY <1>2, <1>3, <1>4, <1>5, <1>6, DoneStep

\* What abort does to the XMLHttpRequest.
LEMMA LetsGo ==
    ASSUME AjaxInv, NEW r \in Requests,
           xhr' = [xhr EXCEPT ![r] = IF transport[r] /\ @ = "listening" THEN "off" ELSE @]
    PROVE  /\ xhr' \in [Requests -> {"none", "listening", "off"}]
           /\ xhr'[r] # "listening"
           /\ xhr[r] = "none" => xhr'[r] = "none"
           /\ \A q \in Requests : q # r => xhr'[q] = xhr[q]
BY DEF AjaxInv, TypeInv, AjaxTypes, RequestInv

\* abort(), by the page.
LEMMA AbortStep ==
    ASSUME AjaxInv, NEW r \in Requests, Abort(r)
    PROVE  AjaxInv'
<1>1. PICK rest, ok : rest = frames /\ ok = FALSE
  OBVIOUS
<1>2. Done(r, ok, rest) /\ UNCHANGED <<quietVars, givenVars, counted, status, active, twice>>
  BY <1>1 DEF Abort
<1>3. phase[r] # "new"
  BY DEF Abort
<1>4. xhr' = [xhr EXCEPT ![r] = IF transport[r] /\ @ = "listening" THEN "off" ELSE @]
  BY DEF Abort
<1> QED BY <1>1, <1>2, <1>3, <1>4, LetsGo, DoneStep

\* The timeout.
LEMMA TimeoutStep ==
    ASSUME AjaxInv, NEW r \in Requests, Timeout(r)
    PROVE  AjaxInv'
<1>1. PICK rest, ok : rest = frames /\ ok = FALSE
  OBVIOUS
<1>2. Done(r, ok, rest) /\ UNCHANGED <<quietVars, givenVars, counted, status, active, twice>>
  BY <1>1 DEF Timeout, Idle
<1>3. phase[r] # "new"
  BY DEF Timeout, AjaxInv, RequestInv
<1>4. xhr' = [xhr EXCEPT ![r] = IF transport[r] /\ @ = "listening" THEN "off" ELSE @]
  BY DEF Timeout
<1> QED BY <1>1, <1>2, <1>3, <1>4, LetsGo, DoneStep

\* The answer.
LEMMA AnsweredStep ==
    ASSUME AjaxInv, NEW r \in Requests, NEW ok, Answered(r, ok)
    PROVE  AjaxInv'
<1>1. PICK rest : rest = frames
  OBVIOUS
<1>2. Done(r, ok, rest) /\ UNCHANGED <<quietVars, givenVars, counted, status, active, twice>>
  BY <1>1 DEF Answered, Idle
<1>3. phase[r] # "new" /\ xhr[r] = "listening" /\ xhr' = [xhr EXCEPT ![r] = "off"]
  BY DEF Answered, AjaxInv, RequestInv
<1>4. /\ xhr' \in [Requests -> {"none", "listening", "off"}] /\ xhr'[r] # "listening"
      /\ \A q \in Requests : q # r => xhr'[q] = xhr[q]
  BY <1>3 DEF AjaxInv, TypeInv, AjaxTypes
<1> QED BY <1>1, <1>2, <1>3, <1>4, DoneStep

-----------------------------------------------------------------------------
(* Theorems about requests.                                                *)

\* Deferreds stay, and a throw is not forgotten.
LEMMA PlainKeeps ==
    ASSUME DeferredStep \/ PageStep
    PROVE  made \subseteq made' /\ (threw => threw')
<1>1. ASSUME DeferredStep
      PROVE  made \subseteq made' /\ (threw => threw')
  BY <1>1 DEF DeferredStep, Settles, Calls, Counts, Forwards, PassEnds, Returns, givenVars
<1>2. ASSUME PageStep
      PROVE  made \subseteq made' /\ (threw => threw')
  <2>1. ASSUME NEW d \in Deferreds, NEW k, Add(d, k)
        PROVE  made \subseteq made' /\ (threw => threw')
    BY <2>1 DEF Add
  <2>2. ASSUME NEW d \in Deferreds, Always(d)
        PROVE  made \subseteq made' /\ (threw => threw')
    BY <2>2 DEF Always
  <2>3. ASSUME NEW d \in Deferreds, NEW t \in Deferreds, ThenCall(d, t)
        PROVE  made \subseteq made' /\ (threw => threw')
    BY <2>3 DEF ThenCall
  <2>4. ASSUME NEW m \in Deferreds, NEW ds, When(m, ds)
        PROVE  made \subseteq made' /\ (threw => threw')
    BY <2>4 DEF When
  <2>5. ASSUME NEW p \in Deferreds, ReturnsPromise(p)
        PROVE  made \subseteq made' /\ (threw => threw')
    BY <2>5 DEF ReturnsPromise, givenVars
  <2>6. ASSUME Throw
        PROVE  made \subseteq made' /\ (threw => threw')
    BY <2>6 DEF Throw, givenVars
  <2>7. Requests \subseteq Deferreds
    BY AjaxAssumption
  <2> QED BY <1>2, <2>1, <2>2, <2>3, <2>4, <2>5, <2>6, <2>7 DEF PageStep
<1> QED BY <1>1, <1>2

\* The start.
LEMMA AjaxInvInit == Init => AjaxInv
<1> SUFFICES ASSUME Init PROVE AjaxInv
  OBVIOUS
<1>1. NoDeferred \notin Deferreds /\ MaxObjects \in Nat /\ Requests \subseteq Deferreds
  BY DeferredAssumption, AjaxAssumption
<1>2. ListsOK(lists)
  <2>1. \A k \in Kinds : NewList(k) \in List /\ ListOK(NewList(k))
    <3> TAKE k \in Kinds
    <3>1. PICK fns : fns = IF k \in {"done", "fail"} THEN <<SettleEntry>> ELSE <<>>
      OBVIOUS
    <3>2. fns \in Seq(Entry)
      <4>1. SettleEntry \in Entry
        BY DEF Entry
      <4> QED BY <3>1, <4>1
    <3>4. PICK open \in BOOLEAN : open = (k = "progress")
      OBVIOUS
    <3>3. NewList(k) = [on |-> TRUE, open |-> open, memory |-> FALSE,
                        fired |-> FALSE, firing |-> FALSE, next |-> 1, length |-> 0,
                        queued |-> 0, fns |-> fns]
      BY <3>1, <3>4 DEF NewList
    <3>5. NewList(k) \in List
      <4>1. TRUE \in BOOLEAN /\ FALSE \in BOOLEAN /\ 0 \in Nat /\ 1 \in Nat
        OBVIOUS
      <4>2. [on |-> TRUE, open |-> open, memory |-> FALSE, fired |-> FALSE,
             firing |-> FALSE, next |-> 1, length |-> 0, queued |-> 0,
             fns |-> fns] \in List
        BY <3>2, <3>4, <4>1, ListMade
      <4> QED BY <3>3, <4>2
    <3> QED BY <3>2, <3>3, <3>5 DEF ListOK
  <2>2. lists = [id \in ListIds |-> NewList(id[2])]
    BY DEF Init, DeferredInit
  <2>3. \A id \in ListIds : id[2] \in Kinds
    BY DEF ListIds
  <2> QED BY <2>1, <2>2, <2>3 DEF ListsOK
<1>3. frames = <<>> /\ DOMAIN frames = {}
  BY DEF Init, DeferredInit
<1>4. frames \in Seq(Frames)
  BY <1>3
<1>5. DeferredTypes
  <2>1. PICK T : T = Seq(Fns)
    OBVIOUS
  <2>2. <<>> \in T /\ IsFiniteSet({})
    BY <2>1, FS_EmptySet
  <2>3. registered \in [ListIds -> T] /\ called \in [ListIds -> T]
    BY <2>2 DEF Init, DeferredInit
  <2>4. /\ state \in [Deferreds -> {"pending", "resolved", "rejected"}]
        /\ remaining \in [Deferreds -> Int]
        /\ parts \in [Deferreds -> SUBSET Deferreds] /\ follows \in [Deferreds -> Deferreds]
    BY DEF Init, DeferredInit
  <2>5. functions \in 0 .. MaxObjects
    BY <1>1 DEF Init, DeferredInit
  <2>6. made = {} /\ made \in SUBSET Deferreds /\ threw \in BOOLEAN
    BY DEF Init, DeferredInit
  <2> QED BY <2>1, <2>2, <2>3, <2>4, <2>5, <2>6 DEF DeferredTypes
<1>6. AjaxTypes
  BY <1>1 DEF Init, AjaxTypes
<1>7. RequestInv /\ TwiceInv
  BY DEF Init, RequestInv, TwiceInv
<1>8. FramesInv /\ StackOK(frames)
  BY <1>3 DEF FramesInv, StackOK
<1>9. ActiveInv
  <2>1. Open = {} /\ active = 0 /\ twice = {}
    BY DEF Init, Open
  <2>2. Number(frames, Ending) = 0
    BY <1>3, <1>4, NumberType
  <2> QED BY <2>1, <2>2, FS_EmptySet DEF ActiveInv
<1> QED BY <1>2, <1>4, <1>5, <1>6, <1>7, <1>8, <1>9 DEF AjaxInv, TypeInv

\* A step that changes nothing.
LEMMA AjaxStutter ==
    ASSUME AjaxInv, UNCHANGED vars
    PROVE  AjaxInv'
<1>1. /\ UNCHANGED ajaxVars
      /\ UNCHANGED <<lists, frames, state, remaining, follows, called, threw>>
      /\ UNCHANGED <<made, parts, functions, registered>>
  BY DEF vars, deferredVars, givenVars
<1>2. frames \in Seq(Frames)
  BY DEF AjaxInv, TypeInv
<1>3. TypeInv'
  BY <1>1 DEF AjaxInv, TypeInv, DeferredTypes, AjaxTypes, ajaxVars
<1>4. Grows(frames)
  BY <1>1, <1>2, GrowsBy
<1> QED BY <1>1, <1>3, <1>4, PlainAjax DEF PlainStep

\* Every step.
LEMMA AjaxInvStep == AjaxInv /\ [Next]_vars => AjaxInv'
<1> SUFFICES ASSUME AjaxInv, [Next]_vars PROVE AjaxInv'
  OBVIOUS
<1>1. ASSUME DeferredStep \/ PageStep, UNCHANGED ajaxVars
      PROVE  AjaxInv'
  BY <1>1, PlainTypes, PlainKeeps, PlainAjax DEF AjaxInv
<1>2. ASSUME AjaxStep
      PROVE  AjaxInv'
  BY <1>2, CallsStatusStep, SettledHandledStep, CompletesStep, UncountsStep,
     StopHandledStep, PrefilteredStep, StartHandledStep, NotSentStep, ReadyToSendStep,
     SentStep, SendThrowsStep, SendsNothingStep DEF AjaxStep
<1>3. ASSUME NEW r \in Requests, AjaxCall(r) \/ Abort(r) \/ Timeout(r) \/ StatusCode(r)
      PROVE  AjaxInv'
  BY <1>3, AjaxCallStep, AbortStep, TimeoutStep, StatusCodeStep
<1>4. ASSUME NEW r \in Requests, NEW ok \in Heard, Answered(r, ok)
      PROVE  AjaxInv'
  BY <1>4, AnsweredStep
<1>5. ASSUME NEW r \in Requests, AnswerThrows(r)
      PROVE  AjaxInv'
  BY <1>5, AnswerThrowsStep
<1>6. ASSUME UNCHANGED vars
      PROVE  AjaxInv'
  BY <1>6, AjaxStutter
<1> QED BY <1>1, <1>2, <1>3, <1>4, <1>5, <1>6 DEF Next

\* The invariant of requests holds in every state.
THEOREM RequestsInvariant == Spec => []AjaxInv
BY AjaxInvInit, AjaxInvStep, PTL DEF Spec

\* Types: every frame is a loop over a list that exists, a function of the page or
\* a call of ajax() or done, and every list can be fired where it stands.
THEOREM AjaxTypeCorrect == Spec => []TypeOK
<1>1. TypeInv => TypeOK
  <2> SUFFICES ASSUME TypeInv PROVE TypeOK
    OBVIOUS
  <2>1. \A i \in DOMAIN frames : frames[i] \in Frames
    BY DEF TypeInv
  <2>2. DeferredTypeOK
    <3>1. \A i \in DOMAIN frames :
             /\ frames[i].code = "fire" => frames[i].list \in ListIds
             /\ frames[i].code = "callback" =>
                   /\ frames[i].list \in ListIds
                   /\ frames[i].then \in Deferreds \cup {NoDeferred}
      BY <2>1 DEF Frames, PlainFrames, AjaxFrames, FireFrames, CallFrames, HookFrames,
                  StatusFrames, CloseFrames
    <3>2. lists \in [ListIds -> List]
          /\ \A id \in ListIds : lists[id].next <= lists[id].length + 1
      BY DEF TypeInv, ListsOK, ListOK
    <3> QED BY <3>1, <3>2 DEF TypeInv, DeferredTypes, DeferredTypeOK
  <2>3. \A i \in DOMAIN frames :
           /\ frames[i].code \in {"fire", "callback", "hook", "status", "close"}
           /\ frames[i].code \in {"hook", "status", "close"} => frames[i].request \in Requests
           /\ frames[i].code = "hook" => frames[i].at \in Hooks
    BY <2>1 DEF Frames, PlainFrames, AjaxFrames, FireFrames, CallFrames, HookFrames,
                StatusFrames, CloseFrames
  <2> QED BY <2>2, <2>3 DEF TypeInv, AjaxTypes, TypeOK
<1> QED BY <1>1, RequestsInvariant, PTL DEF AjaxInv

\* No XMLHttpRequest reports to a request that is done, aborted or timed out,
\* however handlers of ajaxSend and of the other hooks abort it (:8179).
THEOREM AnswersInTime == Spec => []NoLateAnswer
<1>1. AjaxInv => NoLateAnswer
  BY DEF AjaxInv, RequestInv, NoLateAnswer
<1> QED BY <1>1, RequestsInvariant, PTL

\* With nothing running and nothing thrown, jQuery.active is the number of counted
\* requests that are not done, less those whose done has run twice (:7809).
THEOREM ActiveIsRight == Spec => []ActiveCounts
<1>1. AjaxInv => ActiveCounts
  <2> SUFFICES ASSUME AjaxInv, Idle, ~threw
               PROVE  active = Cardinality(Open) - Cardinality(twice)
    BY DEF ActiveCounts, Open
  <2>1. frames = <<>> /\ frames \in Seq(Frames) /\ DOMAIN frames = {}
    BY DEF Idle, AjaxInv, TypeInv
  <2>2. Number(frames, Ending) = 0
    BY <2>1, NumberType
  <2>3. IsFiniteSet(Open) /\ IsFiniteSet(twice)
    BY OpenFinite, FS_Subset DEF AjaxInv, TypeInv, DeferredTypes, TwiceInv
  <2>4. Cardinality(Open) \in Nat /\ Cardinality(twice) \in Nat
    BY <2>3, FS_CardinalityType
  <2> QED BY <2>2, <2>4 DEF AjaxInv, ActiveInv
<1> QED BY <1>1, RequestsInvariant, PTL

-----------------------------------------------------------------------------
(* Lemmas about the functions of the page in a list.                       *)

\* They can be counted.
LEMMA PagesFinite ==
    ASSUME NEW fns, NEW n \in Int, NEW m \in Int
    PROVE  /\ IsFiniteSet(PagesIn(fns, n, m)) /\ Cardinality(PagesIn(fns, n, m)) \in Nat
           /\ m < n => PagesIn(fns, n, m) = {} /\ Cardinality(PagesIn(fns, n, m)) = 0
<1>1. IsFiniteSet(n .. m) /\ PagesIn(fns, n, m) \in SUBSET (n .. m)
  BY FS_Interval DEF PagesIn
<1>2. IsFiniteSet(PagesIn(fns, n, m))
  BY <1>1, FS_Subset
<1>3. m < n => PagesIn(fns, n, m) = {}
  BY DEF PagesIn
<1> QED BY <1>2, <1>3, FS_CardinalityType, FS_EmptySet

\* The first entry is one of them or is not.
LEMMA PagesFirst ==
    ASSUME NEW fns, NEW n \in Int, NEW m \in Int, n <= m
    PROVE  /\ PagesIn(fns, n, m)
              = (IF Paged(fns[n]) THEN {n} ELSE {}) \cup PagesIn(fns, n + 1, m)
           /\ Cardinality(PagesIn(fns, n, m))
              = Cardinality(PagesIn(fns, n + 1, m)) + (IF Paged(fns[n]) THEN 1 ELSE 0)
<1>1. PagesIn(fns, n, m) = (IF Paged(fns[n]) THEN {n} ELSE {}) \cup PagesIn(fns, n + 1, m)
  BY DEF PagesIn
<1>2. IsFiniteSet(PagesIn(fns, n + 1, m)) /\ Cardinality(PagesIn(fns, n + 1, m)) \in Nat
      /\ n \notin PagesIn(fns, n + 1, m)
  <2>1. n + 1 \in Int
    OBVIOUS
  <2>2. n \notin PagesIn(fns, n + 1, m)
    BY DEF PagesIn
  <2> QED BY <2>1, <2>2, PagesFinite
<1>3. CASE Paged(fns[n])
  BY <1>1, <1>2, <1>3, FS_AddElement
<1>4. CASE ~Paged(fns[n])
  BY <1>1, <1>2, <1>4
<1> QED BY <1>1, <1>3, <1>4

\* An entry is added at the end.
LEMMA PagesLast ==
    ASSUME NEW fns \in Seq(Entry), NEW e \in Entry, NEW n \in 1 .. Len(fns) + 1,
           NEW gs \in {Append(fns, e)}
    PROVE  /\ \A m \in Int : m <= Len(fns) => PagesIn(gs, n, m) = PagesIn(fns, n, m)
           /\ PagesIn(gs, n, Len(fns) + 1)
              = PagesFrom(fns, n) \cup (IF Paged(e) THEN {Len(fns) + 1} ELSE {})
           /\ Cardinality(PagesIn(gs, n, Len(fns) + 1))
              = Cardinality(PagesFrom(fns, n)) + (IF Paged(e) THEN 1 ELSE 0)
<1>1. /\ Len(fns) \in Nat /\ gs[Len(fns) + 1] = e
      /\ \A p \in 1 .. Len(fns) : gs[p] = fns[p]
  OBVIOUS
<1>2. \A m \in Int : m <= Len(fns) => PagesIn(gs, n, m) = PagesIn(fns, n, m)
  BY <1>1 DEF PagesIn
<1>3. PagesIn(gs, n, Len(fns) + 1)
      = PagesFrom(fns, n) \cup (IF Paged(e) THEN {Len(fns) + 1} ELSE {})
  BY <1>1 DEF PagesIn, PagesFrom
<1>4. /\ IsFiniteSet(PagesFrom(fns, n)) /\ Cardinality(PagesFrom(fns, n)) \in Nat
      /\ Len(fns) + 1 \notin PagesFrom(fns, n)
  <2>1. Len(fns) + 1 \notin PagesFrom(fns, n)
    BY <1>1 DEF PagesFrom, PagesIn
  <2> QED BY <1>1, <2>1, PagesFinite DEF PagesFrom
<1>5. Cardinality(PagesFrom(fns, n) \cup {Len(fns) + 1}) = Cardinality(PagesFrom(fns, n)) + 1
  BY <1>4, FS_AddElement
<1>6. CASE Paged(e)
  BY <1>2, <1>3, <1>5, <1>6
<1>7. CASE ~Paged(e)
  BY <1>2, <1>3, <1>4, <1>7
<1> QED BY <1>6, <1>7

\* Where the call of a function that is due goes.
LEMMA DueIndex ==
    ASSUME NEW fns \in Seq(Entry), NEW n \in Int, NEW ca \in Seq(Fns), NEW re \in Seq(Fns),
           Due(fns, n, ca, re), NEW p \in PagesFrom(fns, n)
    PROVE  /\ Len(ca) + Cardinality(PagesIn(fns, n, p)) \in Len(ca) + 1 .. Len(re)
           /\ Cardinality(PagesIn(fns, n, p)) \in Nat
<1>1. p \in Int /\ p \in n .. Len(fns) /\ Len(fns) \in Nat /\ Paged(fns[p])
  BY DEF PagesFrom, PagesIn
<1>2. /\ IsFiniteSet(PagesFrom(fns, n)) /\ IsFiniteSet(PagesIn(fns, n, p))
      /\ Cardinality(PagesFrom(fns, n)) \in Nat /\ Cardinality(PagesIn(fns, n, p)) \in Nat
  BY <1>1, PagesFinite DEF PagesFrom
<1>3. PagesIn(fns, n, p) \subseteq PagesFrom(fns, n) /\ p \in PagesIn(fns, n, p)
  BY <1>1 DEF PagesFrom, PagesIn
<1>4. Cardinality(PagesIn(fns, n, p)) <= Cardinality(PagesFrom(fns, n))
  BY <1>2, <1>3, FS_Subset
<1>5. Cardinality(PagesIn(fns, n, p)) # 0
  BY <1>2, <1>3, FS_EmptySet
<1> QED BY <1>2, <1>4, <1>5 DEF Due

\* An entry is added.
LEMMA DueAdded ==
    ASSUME NEW fns \in Seq(Entry), NEW n \in 1 .. Len(fns) + 1, NEW ca \in Seq(Fns),
           NEW re \in Seq(Fns), Due(fns, n, ca, re), NEW e \in Entry
    PROVE  Due(Append(fns, e), n, ca, IF Paged(e) THEN Append(re, e.fn) ELSE re)
<1>1. PICK gs : gs = Append(fns, e)
  OBVIOUS
<1>2. PICK to : to = IF Paged(e) THEN Append(re, e.fn) ELSE re
  OBVIOUS
<1>3. /\ Len(gs) = Len(fns) + 1 /\ Len(fns) \in Nat /\ gs[Len(fns) + 1] = e
      /\ \A p \in 1 .. Len(fns) : gs[p] = fns[p]
  BY <1>1
<1>4. Paged(e) => e.fn \in Fns
  BY DEF Paged, Entry, SettleEntry
<1>5. /\ Len(to) = Len(re) + (IF Paged(e) THEN 1 ELSE 0)
      /\ \A i \in 1 .. Len(re) : to[i] = re[i]
      /\ Paged(e) => to[Len(re) + 1] = e.fn
  BY <1>2, <1>4
<1>6. /\ \A m \in Int : m <= Len(fns) => PagesIn(gs, n, m) = PagesIn(fns, n, m)
      /\ PagesFrom(gs, n) = PagesFrom(fns, n) \cup (IF Paged(e) THEN {Len(fns) + 1} ELSE {})
      /\ Cardinality(PagesFrom(gs, n))
         = Cardinality(PagesFrom(fns, n)) + (IF Paged(e) THEN 1 ELSE 0)
      /\ PagesIn(gs, n, Len(fns) + 1) = PagesFrom(gs, n)
  BY <1>1, <1>3, PagesLast DEF PagesFrom
<1>7. Cardinality(PagesFrom(fns, n)) \in Nat /\ Len(re) \in Nat /\ Len(ca) \in Nat
  <2>1. n \in Int /\ Len(fns) \in Int
    BY <1>3
  <2> QED BY <2>1, PagesFinite DEF PagesFrom
<1>8. Len(re) = Len(ca) + Cardinality(PagesFrom(fns, n))
  BY DEF Due
<1>9. Len(to) = Len(ca) + Cardinality(PagesFrom(gs, n))
  BY <1>5, <1>6, <1>7, <1>8
<1>10. ASSUME NEW p \in PagesFrom(fns, n)
       PROVE  gs[p].fn = to[Len(ca) + Cardinality(PagesIn(gs, n, p))]
  <2>1. p \in 1 .. Len(fns) /\ p \in Int /\ p <= Len(fns)
    BY <1>3 DEF PagesFrom, PagesIn
  <2>2. PICK k : k = Len(ca) + Cardinality(PagesIn(fns, n, p))
    OBVIOUS
  <2>3. k \in Len(ca) + 1 .. Len(re)
    BY <2>2, DueIndex
  <2>4. k \in 1 .. Len(re) /\ fns[p].fn = re[k]
    BY <1>7, <2>2, <2>3 DEF Due
  <2>5. PagesIn(gs, n, p) = PagesIn(fns, n, p)
    BY <1>6, <2>1
  <2> QED BY <1>3, <1>5, <2>1, <2>2, <2>4, <2>5
<1>11. ASSUME Paged(e)
       PROVE  gs[Len(fns) + 1].fn = to[Len(ca) + Cardinality(PagesIn(gs, n, Len(fns) + 1))]
  <2>1. Cardinality(PagesIn(gs, n, Len(fns) + 1)) = Cardinality(PagesFrom(fns, n)) + 1
    BY <1>6, <1>11
  <2>2. Len(ca) + Cardinality(PagesIn(gs, n, Len(fns) + 1)) = Len(re) + 1
    BY <1>7, <1>8, <2>1
  <2> QED BY <1>3, <1>5, <1>11, <2>2
<1>12. Due(gs, n, ca, to)
  BY <1>6, <1>9, <1>10, <1>11 DEF Due
<1> QED BY <1>1, <1>2, <1>12

\* The next entry is passed over, or it is called.
LEMMA DueStepped ==
    ASSUME NEW fns \in Seq(Entry), NEW n \in 1 .. Len(fns), NEW ca \in Seq(Fns),
           NEW re \in Seq(Fns), Due(fns, n, ca, re)
    PROVE  /\ ~Paged(fns[n]) => Due(fns, n + 1, ca, re)
           /\ Paged(fns[n]) => /\ fns[n].fn \in Fns
                               /\ Due(fns, n + 1, Append(ca, fns[n].fn), re)
                               /\ Len(ca) + 1 <= Len(re) /\ re[Len(ca) + 1] = fns[n].fn
<1>1. /\ n \in Int /\ Len(fns) \in Nat /\ n <= Len(fns) /\ fns[n] \in Entry
      /\ n + 1 \in Int /\ Len(re) \in Nat /\ Len(ca) \in Nat
  OBVIOUS
<1>2. /\ PagesFrom(fns, n) = (IF Paged(fns[n]) THEN {n} ELSE {}) \cup PagesFrom(fns, n + 1)
      /\ Cardinality(PagesFrom(fns, n))
         = Cardinality(PagesFrom(fns, n + 1)) + (IF Paged(fns[n]) THEN 1 ELSE 0)
      /\ Cardinality(PagesFrom(fns, n + 1)) \in Nat
  BY <1>1, PagesFirst, PagesFinite DEF PagesFrom
<1>3. ASSUME NEW p \in PagesFrom(fns, n + 1)
      PROVE  /\ p \in PagesFrom(fns, n) /\ Cardinality(PagesIn(fns, n + 1, p)) \in Nat
             /\ Cardinality(PagesIn(fns, n, p))
                = Cardinality(PagesIn(fns, n + 1, p)) + (IF Paged(fns[n]) THEN 1 ELSE 0)
  <2>1. p \in Int /\ n <= p
    BY <1>1 DEF PagesFrom, PagesIn
  <2> QED BY <1>1, <1>2, <2>1, PagesFirst, PagesFinite
<1>4. ASSUME ~Paged(fns[n])
      PROVE  Due(fns, n + 1, ca, re)
  BY <1>2, <1>3, <1>4 DEF Due
<1>5. ASSUME Paged(fns[n])
      PROVE  /\ fns[n].fn \in Fns
             /\ Due(fns, n + 1, Append(ca, fns[n].fn), re)
             /\ Len(ca) + 1 <= Len(re) /\ re[Len(ca) + 1] = fns[n].fn
  <2>1. fns[n].fn \in Fns
    BY <1>1, <1>5 DEF Paged, Entry, SettleEntry
  <2>2. PICK to : to = Append(ca, fns[n].fn)
    OBVIOUS
  <2>3. Len(to) = Len(ca) + 1
    BY <2>1, <2>2
  <2>4. Len(re) = Len(to) + Cardinality(PagesFrom(fns, n + 1))
    BY <1>1, <1>2, <1>5, <2>3 DEF Due
  <2>5. ASSUME NEW p \in PagesFrom(fns, n + 1)
        PROVE  fns[p].fn = re[Len(to) + Cardinality(PagesIn(fns, n + 1, p))]
    <3>1. Len(ca) + Cardinality(PagesIn(fns, n, p))
          = Len(to) + Cardinality(PagesIn(fns, n + 1, p))
      BY <1>1, <1>3, <1>5, <2>3, <2>5
    <3>2. fns[p].fn = re[Len(ca) + Cardinality(PagesIn(fns, n, p))]
      BY <1>3, <2>5 DEF Due
    <3> QED BY <3>1, <3>2
  <2>6. PagesIn(fns, n, n) = {n}
    BY <1>1, <1>5 DEF PagesIn
  <2>7. n \in PagesFrom(fns, n) /\ Cardinality(PagesIn(fns, n, n)) = 1
    BY <1>2, <1>5, <2>6, FS_Singleton
  <2>8. re[Len(ca) + 1] = fns[n].fn
    BY <2>7 DEF Due
  <2>9. Len(ca) + 1 <= Len(re)
    BY <1>1, <1>2, <2>3, <2>4
  <2>10. Due(fns, n + 1, to, re)
    BY <2>4, <2>5 DEF Due
  <2> QED BY <2>1, <2>2, <2>8, <2>9, <2>10
<1> QED BY <1>4, <1>5

-----------------------------------------------------------------------------
(* Lemmas about one callback list.                                         *)

\* What add does to the parts of a list.
LEMMA AddedFields ==
    ASSUME NEW l \in List, NEW e \in Entry, NEW m \in {Added(l, e)}
    PROVE  /\ m.on = l.on /\ m.open = l.open /\ m.queued = l.queued
           /\ ~l.on => m = l
           /\ l.on => m.fns = Append(l.fns, e)
           /\ l.on /\ (l.firing \/ ~l.memory) =>
                 /\ m.memory = l.memory /\ m.fired = l.fired /\ m.firing = l.firing
                 /\ m.next = l.next
                 /\ m.length = IF l.firing THEN Len(l.fns) + 1 ELSE l.length
           /\ l.on /\ ~l.firing /\ l.memory =>
                 /\ m.memory = TRUE /\ m.fired = TRUE /\ m.firing = TRUE
                 /\ m.next = Len(l.fns) + 1 /\ m.length = Len(l.fns) + 1
<1>1. /\ l.fns \in Seq(Entry) /\ Len(Append(l.fns, e)) = Len(l.fns) + 1
      /\ l = [on |-> l.on, open |-> l.open, memory |-> l.memory, fired |-> l.fired,
              firing |-> l.firing, next |-> l.next, length |-> l.length,
              queued |-> l.queued, fns |-> l.fns]
  BY ListFields
<1>2. PICK a : a = Pushed(l, e)
  OBVIOUS
<1>3. a = [on |-> l.on, open |-> l.open, memory |-> l.memory, fired |-> l.fired,
           firing |-> l.firing, next |-> l.next, length |-> l.length,
           queued |-> l.queued, fns |-> Append(l.fns, e)]
  BY <1>1, <1>2 DEF Pushed
<1>4. CASE ~l.on
  BY <1>4 DEF Added
<1>5. CASE l.on /\ l.firing
  <2>1. m = [a EXCEPT !.length = Len(l.fns) + 1]
    BY <1>2, <1>5 DEF Added
  <2> QED BY <1>3, <1>5, <2>1
<1>6. CASE l.on /\ ~l.firing /\ l.memory
  <2>1. m = [a EXCEPT !.memory = TRUE, !.fired = TRUE, !.firing = TRUE,
                      !.next = Len(l.fns) + 1, !.length = Len(a.fns)]
    BY <1>2, <1>6 DEF Added, Started
  <2>2. a.fns = Append(l.fns, e)
    BY <1>3
  <2> QED BY <1>1, <1>3, <1>6, <2>1, <2>2
<1>7. CASE l.on /\ ~l.firing /\ ~l.memory
  <2>1. m = a
    BY <1>2, <1>7 DEF Added
  <2> QED BY <1>3, <1>7, <2>1
<1> QED BY <1>4, <1>5, <1>6, <1>7

\* What is given is appended to what was given.
LEMMA GivenOn ==
    ASSUME NEW re \in Seq(Fns), NEW e \in Entry,
           NEW to \in {IF Paged(e) THEN Append(re, e.fn) ELSE re}
    PROVE  /\ to \in Seq(Fns) /\ Len(re) <= Len(to) /\ Len(re) \in Nat /\ Len(to) \in Nat
           /\ \A i \in 1 .. Len(re) : to[i] = re[i]
<1>1. Paged(e) => e.fn \in Fns
  BY DEF Paged, Entry, SettleEntry
<1>2. CASE Paged(e)
  BY <1>1, <1>2
<1>3. CASE ~Paged(e)
  BY <1>3
<1> QED BY <1>2, <1>3

\* A list that may call functions of the page is given an entry.
LEMMA AddedInv ==
    ASSUME NEW l \in List, ListOK(l), NEW ca \in Seq(Fns), NEW re \in Seq(Fns),
           ListInv(l, ca, re), NEW e \in Entry, NEW m \in {Added(l, e)},
           NEW to \in {IF Paged(e) THEN Append(re, e.fn) ELSE re}
    PROVE  /\ ListInv(m, ca, to) /\ m.fired = l.fired
           /\ m.firing <=> l.firing \/ (l.on /\ l.memory)
<1>1. /\ to \in Seq(Fns) /\ Len(re) <= Len(to) /\ Len(re) \in Nat /\ Len(to) \in Nat
      /\ \A i \in 1 .. Len(re) : to[i] = re[i]
  BY GivenOn
<1>2. /\ l.fns \in Seq(Entry) /\ Len(l.fns) \in Nat /\ Len(ca) \in Nat
      /\ l.on \in BOOLEAN /\ l.fired \in BOOLEAN /\ l.firing \in BOOLEAN
      /\ l.memory \in BOOLEAN /\ l.next \in Nat /\ l.length \in Nat
  BY ListFields
<1>3. Len(ca) <= Len(to) /\ \A i \in 1 .. Len(ca) : ca[i] = to[i]
  BY <1>1, <1>2 DEF ListInv
<1>4. CASE ~l.on
  BY <1>3, <1>4, AddedFields DEF ListInv
<1>5. CASE l.on
  <2>1. l.next \in 1 .. Len(l.fns) + 1 /\ Due(l.fns, l.next, ca, re) /\ l.memory = l.fired
    BY <1>2, <1>5 DEF ListOK, ListInv
  <2>2. Due(Append(l.fns, e), l.next, ca, to)
    BY <1>2, <2>1, DueAdded
  <2>3. /\ m.on = l.on /\ m.open = l.open /\ m.queued = l.queued
        /\ m.fns = Append(l.fns, e) /\ Len(m.fns) = Len(l.fns) + 1
    <3>1. /\ m.on = l.on /\ m.open = l.open /\ m.queued = l.queued
          /\ m.fns = Append(l.fns, e)
      BY <1>5, AddedFields
    <3>2. Len(Append(l.fns, e)) = Len(l.fns) + 1
      BY <1>2
    <3> QED BY <3>1, <3>2
  <2>4. CASE l.firing \/ ~l.memory
    <3>1. /\ m.memory = l.memory /\ m.fired = l.fired /\ m.firing = l.firing
          /\ m.next = l.next
          /\ m.length = IF l.firing THEN Len(l.fns) + 1 ELSE l.length
      BY <1>5, <2>4, AddedFields
    <3> QED BY <1>3, <1>5, <2>1, <2>2, <2>3, <2>4, <3>1 DEF ListInv
  <2>5. CASE ~l.firing /\ l.memory
    <3>1. /\ m.memory = TRUE /\ m.fired = TRUE /\ m.firing = TRUE
          /\ m.next = Len(l.fns) + 1 /\ m.length = Len(l.fns) + 1
      BY <1>5, <2>5, AddedFields
    <3>2. l.fired /\ l.fns = <<>> /\ l.next = 1
      BY <2>1, <2>5 DEF ListInv
    <3>3. m.next = l.next
      BY <1>2, <3>1, <3>2
    <3> QED BY <1>3, <1>5, <2>1, <2>2, <2>3, <2>5, <3>1, <3>2, <3>3 DEF ListInv
  <2> QED BY <1>2, <2>4, <2>5
<1> QED BY <1>2, <1>4, <1>5

\* Any list is given an entry, and no settle function.
LEMMA AddedGood ==
    ASSUME NEW id \in ListIds, NEW l \in List, ListOK(l), NEW s,
           NEW ca \in Seq(Fns), NEW re \in Seq(Fns),
           GoodList(id, l, s, ca, re), id \in Settling /\ s = "pending" => ~l.fired,
           NEW e \in Entry \ {SettleEntry}, NEW m \in {Added(l, e)},
           NEW to \in {IF Paged(e) THEN Append(re, e.fn) ELSE re}
    PROVE  /\ GoodList(id, m, s, ca, to)
           /\ id \in Calling => /\ m.fired = l.fired
                                /\ m.firing <=> l.firing \/ (l.on /\ l.memory)
<1>1. id \in Calling => /\ ListInv(m, ca, to) /\ m.fired = l.fired
                        /\ m.firing <=> l.firing \/ (l.on /\ l.memory)
  <2>1. e \in Entry
    OBVIOUS
  <2>2. id \in Calling => ListInv(l, ca, re)
    BY DEF GoodList
  <2>3. ASSUME ListInv(l, ca, re)
        PROVE  /\ ListInv(m, ca, to) /\ m.fired = l.fired
               /\ m.firing <=> l.firing \/ (l.on /\ l.memory)
    <3>1. ListInv(m, ca, to)
      BY <2>1, <2>3, AddedInv
    <3>2. m.fired = l.fired
      BY <2>1, <2>3, AddedInv
    <3>3. m.firing <=> l.firing \/ (l.on /\ l.memory)
      BY <2>1, <2>3, AddedInv
    <3> QED BY <3>1, <3>2, <3>3
  <2> QED BY <2>2, <2>3
<1>2. e \in Entry /\ e.kind # "settle"
  BY DEF Entry, SettleEntry
<1>3. /\ l.fns \in Seq(Entry) /\ Len(l.fns) \in Nat /\ l.next \in Nat
      /\ l.on \in BOOLEAN /\ l.firing \in BOOLEAN /\ l.memory \in BOOLEAN
  BY ListFields
<1>4. m.fns = IF l.on THEN Append(l.fns, e) ELSE l.fns
  BY <1>2, <1>3, AddedFields
<1>5. /\ DOMAIN l.fns = 1 .. Len(l.fns)
      /\ l.on => /\ DOMAIN m.fns = 1 .. Len(l.fns) + 1 /\ m.fns[Len(l.fns) + 1] = e
                 /\ \A p \in 1 .. Len(l.fns) : m.fns[p] = l.fns[p]
  BY <1>2, <1>3, <1>4
<1>6. id \notin Settling => \A p \in DOMAIN m.fns : m.fns[p].kind # "settle"
  <2> SUFFICES ASSUME id \notin Settling, NEW p \in DOMAIN m.fns
               PROVE  m.fns[p].kind # "settle"
    OBVIOUS
  <2>1. \A q \in DOMAIN l.fns : l.fns[q].kind # "settle"
    BY DEF GoodList
  <2>2. CASE ~l.on
    BY <1>4, <2>1, <2>2
  <2>3. CASE l.on
    <3>1. p \in 1 .. Len(l.fns) \/ p = Len(l.fns) + 1
      BY <1>3, <1>5, <2>3
    <3> QED BY <1>2, <1>5, <2>1, <2>3, <3>1
  <2> QED BY <2>2, <2>3, <1>3
<1>7. ASSUME id \in Settling
      PROVE  SettlingInv(m, s, Outcome(id[2]), ca)
  <2>1. id \in Calling /\ SettlingInv(l, s, Outcome(id[2]), ca) /\ ListInv(l, ca, re)
    BY <1>7 DEF GoodList, Settling, Calling
  <2>2. CASE s = "pending"
    <3>1. /\ l.on /\ l.next = 1 /\ l.fns # <<>> /\ ca = <<>> /\ ~l.fired /\ ~l.firing
          /\ \A p \in DOMAIN l.fns : l.fns[p].kind = "settle" <=> p = 1
      BY <1>7, <2>1, <2>2 DEF SettlingInv, ListInv
    <3>2. ~l.memory
      BY <2>1, <3>1 DEF ListInv
    <3>3. m.on /\ m.next = 1 /\ m.fns # <<>> /\ ca = <<>> /\ ~m.fired
      <4>1. m.on = l.on /\ m.next = l.next /\ m.fired = l.fired
        BY <1>2, <3>1, <3>2, AddedFields
      <4>2. DOMAIN m.fns # {}
        BY <1>3, <1>5, <3>1
      <4> QED BY <3>1, <4>1, <4>2
    <3>4. \A p \in DOMAIN m.fns : m.fns[p].kind = "settle" <=> p = 1
      <4> TAKE p \in DOMAIN m.fns
      <4>1. p \in 1 .. Len(l.fns) \/ p = Len(l.fns) + 1
        BY <1>3, <1>5, <3>1
      <4>2. Len(l.fns) # 0
        BY <1>3, <3>1
      <4>3. Len(l.fns) + 1 # 1
        BY <1>3, <4>2
      <4> QED BY <1>2, <1>5, <3>1, <4>1, <4>3
    <3>5. Outcome(id[2]) # "pending"
      BY DEF Outcome
    <3> QED BY <2>2, <3>3, <3>4, <3>5 DEF SettlingInv
  <2>3. CASE s # "pending" /\ s = Outcome(id[2])
    <3>1. /\ l.on /\ l.fired
          /\ \A p \in DOMAIN l.fns : p >= l.next => l.fns[p].kind # "settle"
      BY <2>1, <2>3 DEF SettlingInv
    <3>2. m.on /\ m.fired
      BY <1>1, <1>2, <2>1, <3>1, AddedFields
    <3>3. m.next = l.next
      <4>1. CASE l.firing
        BY <1>2, <3>1, <4>1, AddedFields
      <4>2. CASE ~l.firing
        <5>1. l.fns = <<>> /\ l.next = 1 /\ l.memory
          BY <2>1, <3>1, <4>2 DEF ListInv
        <5>2. m.next = Len(l.fns) + 1
          BY <1>2, <3>1, <4>2, <5>1, AddedFields
        <5> QED BY <5>1, <5>2
      <4> QED BY <4>1, <4>2
    <3>4. \A p \in DOMAIN m.fns : p >= m.next => m.fns[p].kind # "settle"
      <4> TAKE p \in DOMAIN m.fns
      <4>1. p \in 1 .. Len(l.fns) \/ p = Len(l.fns) + 1
        BY <1>3, <1>5, <3>1
      <4> QED BY <1>2, <1>5, <3>1, <3>3, <4>1
    <3> QED BY <2>3, <3>2, <3>4 DEF SettlingInv
  <2>4. CASE s \notin {"pending", Outcome(id[2])}
    BY <1>2, <2>1, <2>4, AddedFields DEF SettlingInv
  <2> QED BY <2>2, <2>3, <2>4
<1> QED BY <1>1, <1>6, <1>7 DEF GoodList

\* The loop goes past an entry: what it changes.
LEMMA NextFields ==
    ASSUME NEW l \in List, ListOK(l), l.on, l.next <= l.length,
           NEW m \in {[l EXCEPT !.next = @ + 1]}
    PROVE  /\ m.on = l.on /\ m.open = l.open /\ m.memory = l.memory /\ m.fired = l.fired
           /\ m.firing = l.firing /\ m.next = l.next + 1 /\ m.length = l.length
           /\ m.queued = l.queued /\ m.fns = l.fns
           /\ l.fns \in Seq(Entry) /\ l.next \in 1 .. Len(l.fns) /\ l.next \in Nat
           /\ l.next \in DOMAIN l.fns /\ Len(l.fns) \in Nat
<1>1. m = [l EXCEPT !.next = l.next + 1]
  OBVIOUS
<1>2. l.next \in Nat /\ l.length \in Nat /\ l.fns \in Seq(Entry)
      /\ l.next \in 1 .. Len(l.fns)
  BY ListFields DEF ListOK
<1>3. /\ m.on = l.on /\ m.open = l.open /\ m.memory = l.memory /\ m.fired = l.fired
      /\ m.firing = l.firing /\ m.next = l.next + 1 /\ m.length = l.length
      /\ m.queued = l.queued /\ m.fns = l.fns
  <2>1. l = [on |-> l.on, open |-> l.open, memory |-> l.memory, fired |-> l.fired,
             firing |-> l.firing, next |-> l.next, length |-> l.length,
             queued |-> l.queued, fns |-> l.fns]
    BY ListFields
  <2> QED BY <1>1, <2>1
<1> QED BY <1>2, <1>3

\* It goes past a function of jQuery, or calls one of the page.
LEMMA NextInv ==
    ASSUME NEW l \in List, ListOK(l), l.on, l.next <= l.length,
           NEW ca \in Seq(Fns), NEW re \in Seq(Fns), ListInv(l, ca, re),
           NEW m \in {[l EXCEPT !.next = @ + 1]}, NEW e \in {l.fns[l.next]}
    PROVE  /\ ~Paged(e) => ListInv(m, ca, re)
           /\ Paged(e) => ListInv(m, Append(ca, e.fn), re) /\ e.fn \in Fns
<1>1. /\ m.on = l.on /\ m.open = l.open /\ m.memory = l.memory /\ m.fired = l.fired
      /\ m.firing = l.firing /\ m.next = l.next + 1 /\ m.length = l.length
      /\ m.queued = l.queued /\ m.fns = l.fns
      /\ l.fns \in Seq(Entry) /\ l.next \in 1 .. Len(l.fns)
      /\ l.fns # <<>> /\ l.length # 0
  <2>1. l.fns # <<>> /\ l.length # 0
    BY ListFields, NextFields DEF ListOK
  <2> QED BY <2>1, NextFields
<1>2. l.fired /\ l.firing /\ l.memory = l.fired /\ l.length = Len(l.fns)
  BY <1>1, ListFields DEF ListInv
<1>3. Due(l.fns, l.next, ca, re)
  BY DEF ListInv
<1>4. ASSUME ~Paged(e)
      PROVE  ListInv(m, ca, re)
  BY <1>1, <1>2, <1>3, <1>4, DueStepped DEF ListInv
<1>5. ASSUME Paged(e)
      PROVE  ListInv(m, Append(ca, e.fn), re) /\ e.fn \in Fns
  <2>1. /\ e.fn \in Fns /\ Due(l.fns, l.next + 1, Append(ca, e.fn), re)
        /\ Len(ca) + 1 <= Len(re) /\ re[Len(ca) + 1] = e.fn
    BY <1>1, <1>3, <1>5, DueStepped
  <2>2. PICK cs : cs = Append(ca, e.fn)
    OBVIOUS
  <2>3. /\ Len(cs) = Len(ca) + 1 /\ cs[Len(ca) + 1] = e.fn /\ Len(ca) \in Nat
        /\ \A i \in 1 .. Len(ca) : cs[i] = ca[i]
    BY <2>1, <2>2
  <2>4. \A i \in 1 .. Len(ca) : ca[i] = re[i]
    BY DEF ListInv
  <2>5. \A i \in 1 .. Len(cs) : cs[i] = re[i]
    <3> TAKE i \in 1 .. Len(cs)
    <3>1. i \in 1 .. Len(ca) \/ i = Len(ca) + 1
      BY <2>3
    <3> QED BY <2>1, <2>3, <2>4, <3>1
  <2>6. ListInv(m, cs, re)
    BY <1>1, <1>2, <2>1, <2>2, <2>3, <2>5 DEF ListInv
  <2> QED BY <2>1, <2>2, <2>6
<1> QED BY <1>4, <1>5

\* Past a function that does not settle.
LEMMA NextGood ==
    ASSUME NEW id \in ListIds, NEW l \in List, ListOK(l), l.on, l.next <= l.length, NEW s,
           NEW ca \in Seq(Fns), NEW re \in Seq(Fns), GoodList(id, l, s, ca, re),
           NEW m \in {[l EXCEPT !.next = @ + 1]}, NEW e \in {l.fns[l.next]},
           e.kind # "settle"
    PROVE  /\ ~Paged(e) => GoodList(id, m, s, ca, re)
           /\ Paged(e) => /\ id \in Calling => GoodList(id, m, s, Append(ca, e.fn), re)
                          /\ id \notin Calling => GoodList(id, m, s, ca, re)
           /\ m.fired = l.fired /\ m.firing = l.firing
           /\ id \in Settling => s # "pending"
<1>1. /\ m.on = l.on /\ m.fired = l.fired /\ m.firing = l.firing
      /\ m.next = l.next + 1 /\ m.fns = l.fns /\ l.next \in DOMAIN l.fns
      /\ l.next \in Nat /\ DOMAIN l.fns = 1 .. Len(l.fns)
  <2>1. l.fns \in Seq(Entry)
    BY NextFields
  <2>2. DOMAIN l.fns = 1 .. Len(l.fns)
    BY <2>1
  <2> QED BY ZenonT(60), <2>2, NextFields
<1>2. id \in Calling => /\ ~Paged(e) => ListInv(m, ca, re)
                        /\ Paged(e) => ListInv(m, Append(ca, e.fn), re)
  BY NextInv DEF GoodList
<1>3. id \notin Settling => \A p \in DOMAIN m.fns : m.fns[p].kind # "settle"
  BY <1>1 DEF GoodList
<1>4. ASSUME id \in Settling
      PROVE  s # "pending" /\ \A cs : SettlingInv(m, s, Outcome(id[2]), cs)
  BY <1>1, <1>4 DEF GoodList, SettlingInv
<1> QED BY <1>1, <1>2, <1>3, <1>4 DEF GoodList, Calling, Settling

\* Past the function that settles, in a list that fires.
LEMMA SettledGood ==
    ASSUME NEW id \in ListIds, NEW l \in List, ListOK(l), l.on, l.next <= l.length, NEW s,
           NEW ca \in Seq(Fns), NEW re \in Seq(Fns), GoodList(id, l, s, ca, re), l.fired,
           NEW m \in {[l EXCEPT !.next = @ + 1]}, NEW e \in {l.fns[l.next]},
           e.kind = "settle", s = "pending" \/ s = "resolved" \/ s = "rejected"
    PROVE  /\ id \in Settling /\ s = "pending"
           /\ GoodList(id, m, Outcome(id[2]), ca, re)
           /\ m.fired = l.fired /\ m.firing = l.firing
<1>1. /\ m.on = l.on /\ m.fired = l.fired /\ m.firing = l.firing
      /\ m.next = l.next + 1 /\ m.fns = l.fns /\ l.next \in DOMAIN l.fns
      /\ l.next \in Nat /\ DOMAIN l.fns = 1 .. Len(l.fns)
  <2>1. l.fns \in Seq(Entry)
    BY NextFields
  <2>2. DOMAIN l.fns = 1 .. Len(l.fns)
    BY <2>1
  <2> QED BY ZenonT(60), <2>2, NextFields
<1>2. id \in Settling /\ id \in Calling
  BY <1>1 DEF GoodList, Settling, Calling
<1>3. SettlingInv(l, s, Outcome(id[2]), ca)
  BY <1>2 DEF GoodList
<1>4. s = "pending"
  BY <1>1, <1>3 DEF SettlingInv
<1>5. l.next = 1 /\ \A p \in DOMAIN l.fns : l.fns[p].kind = "settle" <=> p = 1
  BY <1>3, <1>4 DEF SettlingInv
<1>6. ~Paged(e)
  BY DEF Paged
<1>7. ListInv(m, ca, re)
  BY <1>2, <1>6, NextInv DEF GoodList
<1>8. \A p \in DOMAIN m.fns : p >= m.next => m.fns[p].kind # "settle"
  BY <1>1, <1>5
<1>9. Outcome(id[2]) \in {"resolved", "rejected"}
  BY DEF Outcome
<1>10. SettlingInv(m, Outcome(id[2]), Outcome(id[2]), ca)
  BY <1>1, <1>8, <1>9 DEF SettlingInv
<1> QED BY <1>1, <1>2, <1>4, <1>7, <1>10 DEF GoodList

\* The list of the other outcome.
LEMMA DisabledGood ==
    ASSUME NEW id \in Settling, NEW l \in List,
           NEW ca \in Seq(Fns), NEW re \in Seq(Fns), GoodList(id, l, "pending", ca, re),
           ~l.fired, NEW s \in {"resolved", "rejected"}, s # Outcome(id[2]),
           NEW m \in {Disabled(l)}
    PROVE  GoodList(id, m, s, ca, re) /\ m.fired = l.fired /\ m.firing = l.firing
<1>1. id \in Calling
  BY DEF Settling, Calling
<1>2. m = [l EXCEPT !.on = FALSE, !.open = FALSE, !.memory = FALSE, !.queued = 0,
                    !.fns = <<>>]
  BY DEF Disabled
<1>3. /\ m.on = FALSE /\ m.open = FALSE /\ m.queued = 0 /\ m.fns = <<>>
      /\ m.fired = l.fired /\ m.firing = l.firing /\ m.next = l.next /\ m.length = l.length
  BY <1>2, ListFields
<1>4. ListInv(l, ca, re)
  BY <1>1 DEF GoodList
<1>5. ListInv(m, ca, re)
  BY <1>3, <1>4 DEF ListInv
<1>6. SettlingInv(m, s, Outcome(id[2]), ca)
  BY <1>3 DEF SettlingInv
<1> QED BY <1>1, <1>3, <1>5, <1>6 DEF GoodList

\* The progress list.
LEMMA LockedGood ==
    ASSUME NEW id \in ListIds, id \notin Calling, NEW l \in List, NEW s, NEW t,
           NEW ca, NEW re, GoodList(id, l, s, ca, re), NEW m \in {Locked(l)}
    PROVE  GoodList(id, m, t, ca, re)
<1>1. id \notin Settling
  BY DEF Settling, Calling
<1>2. m.fns = l.fns \/ m.fns = <<>>
  BY ListFields DEF Locked, Disabled
<1>3. \A p \in DOMAIN m.fns : m.fns[p].kind # "settle"
  BY <1>1, <1>2 DEF GoodList
<1> QED BY <1>1, <1>3 DEF GoodList

\* A list is fired, for the first time if it may call functions of the page.
LEMMA StartedGood ==
    ASSUME NEW id \in ListIds, NEW l \in List, ListOK(l), l.on,
           id \in Calling => ~l.fired, NEW s,
           NEW ca \in Seq(Fns), NEW re \in Seq(Fns), GoodList(id, l, s, ca, re),
           NEW m \in {Started(l, 1)}
    PROVE  GoodList(id, m, s, ca, re) /\ m.fired = TRUE /\ m.firing = TRUE /\ m.fns = l.fns
<1>1. /\ m.on = l.on /\ m.open = l.open /\ m.queued = l.queued /\ m.fns = l.fns
      /\ m.memory = TRUE /\ m.fired = TRUE /\ m.firing = TRUE
      /\ m.next = 1 /\ m.length = Len(l.fns)
  BY ListFields DEF Started
<1>2. l.fns \in Seq(Entry)
  BY ListFields
<1>3. id \in Calling => ListInv(m, ca, re)
  <2> SUFFICES ASSUME id \in Calling PROVE ListInv(m, ca, re)
    OBVIOUS
  <2>1. ListInv(l, ca, re) /\ ~l.fired
    BY DEF GoodList
  <2>2. l.next = 1
    BY <2>1 DEF ListInv
  <2> QED BY <1>1, <2>1, <2>2 DEF ListInv
<1>4. id \in Settling => SettlingInv(m, s, Outcome(id[2]), ca)
  <2> SUFFICES ASSUME id \in Settling PROVE SettlingInv(m, s, Outcome(id[2]), ca)
    OBVIOUS
  <2>1. SettlingInv(l, s, Outcome(id[2]), ca) /\ ~l.fired
    BY DEF GoodList, Settling, Calling
  <2>2. s = "pending" /\ Outcome(id[2]) # "pending"
    BY <2>1 DEF SettlingInv, Outcome
  <2>3. l.fns # <<>>
    BY <2>1, <2>2 DEF SettlingInv
  <2>4. Len(l.fns) >= 1
    BY <1>2, <2>3
  <2> QED BY <1>1, <2>1, <2>2, <2>4 DEF SettlingInv
<1> QED BY <1>1, <1>3, <1>4 DEF GoodList

\* A pass ends, and no other waits: it has called all that it was given.
LEMMA EndedGood ==
    ASSUME NEW id \in ListIds, NEW l \in List, ListOK(l), ~(l.on /\ l.next <= l.length),
           id \in Calling => l.firing, NEW s,
           NEW ca \in Seq(Fns), NEW re \in Seq(Fns), GoodList(id, l, s, ca, re),
           NEW m \in {[l EXCEPT !.firing = FALSE, !.fns = IF l.open THEN l.fns ELSE <<>>,
                                !.next = 1, !.length = 0]}
    PROVE  GoodList(id, m, s, ca, re) /\ m.fired = l.fired /\ m.firing = FALSE
<1>1. PICK fns : fns = IF l.open THEN l.fns ELSE <<>>
  OBVIOUS
<1>2. /\ m.on = l.on /\ m.open = l.open /\ m.memory = l.memory /\ m.fired = l.fired
      /\ m.firing = FALSE /\ m.next = 1 /\ m.length = 0 /\ m.queued = l.queued /\ m.fns = fns
  BY <1>1, ListFields
<1>3. ASSUME id \in Calling
      PROVE  /\ ListInv(m, ca, re) /\ m.fns = <<>> /\ l.on /\ l.fired
             /\ l.next > l.length
  <2>1. ListInv(l, ca, re) /\ l.firing
    BY <1>3 DEF GoodList
  <2>2. l.fired /\ l.on /\ l.length = Len(l.fns) /\ m.fns = <<>>
    BY <1>1, <1>2, <2>1 DEF ListInv
  <2>3. l.next > l.length /\ l.next \in Int /\ l.length \in Int
    BY <2>2, ListFields
  <2>4. PagesFrom(l.fns, l.next) = {} /\ Cardinality(PagesFrom(l.fns, l.next)) = 0
    <3>1. PagesFrom(l.fns, l.next) = PagesIn(l.fns, l.next, l.length)
      BY <2>2 DEF PagesFrom
    <3>2. PagesIn(l.fns, l.next, l.length) = {}
          /\ Cardinality(PagesIn(l.fns, l.next, l.length)) = 0
      BY <2>3, PagesFinite
    <3> QED BY <3>1, <3>2
  <2>5. Len(re) = Len(ca)
    BY <2>1, <2>2, <2>4 DEF ListInv, Due
  <2>6. PagesFrom(<<>>, 1) = {} /\ Cardinality(PagesFrom(<<>>, 1)) = 0
    <3>1. Len(<<>>) = 0 /\ 1 \in Int /\ 0 \in Int /\ 0 < 1
      OBVIOUS
    <3>2. PagesFrom(<<>>, 1) = PagesIn(<<>>, 1, 0)
      BY <3>1 DEF PagesFrom
    <3> QED BY <3>1, <3>2, PagesFinite
  <2>7. Due(m.fns, m.next, ca, re)
    BY <1>2, <2>2, <2>5, <2>6 DEF Due
  <2>8. ListInv(m, ca, re)
    BY <1>2, <2>1, <2>2, <2>7 DEF ListInv
  <2> QED BY <2>2, <2>3, <2>8
<1>4. ASSUME id \in Settling
      PROVE  SettlingInv(m, s, Outcome(id[2]), ca)
  BY <1>2, <1>3, <1>4, ListFields DEF GoodList, Settling, Calling, SettlingInv
<1>5. id \notin Settling => \A p \in DOMAIN m.fns : m.fns[p].kind # "settle"
  BY <1>1, <1>2 DEF GoodList
<1> QED BY <1>2, <1>3, <1>4, <1>5 DEF GoodList

-----------------------------------------------------------------------------
(* Lemmas about the loops on the stack.                                    *)

\* What runs below stays: frames are put on the stack.
LEMMA LoopGrow ==
    ASSUME NEW id, NEW firing, NEW s \in Seq(Frames), NEW p \in Seq(Frames), NEW th,
           LoopOK(id, firing, s, th)
    PROVE  /\ (\A i \in DOMAIN p : p[i] # FireFrame(id)) => LoopOK(id, firing, p \o s, th)
           /\ firing = FALSE =>
                 ((\E i \in DOMAIN p : p[i] = FireFrame(id)) =>
                 ((\A i, j \in DOMAIN p : p[i] = FireFrame(id) /\ p[j] = FireFrame(id) => i = j)
                 => LoopOK(id, TRUE, p \o s, th)))
<1>0. p \o s \in Seq(Frames)
  OBVIOUS
<1>1. PICK t \in Seq(Frames) : t = p \o s
  BY <1>0
<1>2. PICK f : f = FireFrame(id)
  OBVIOUS
<1>3. /\ Len(p) \in Nat /\ Len(s) \in Nat /\ Len(t) = Len(p) + Len(s)
      /\ DOMAIN p = 1 .. Len(p) /\ DOMAIN s = 1 .. Len(s) /\ DOMAIN t = 1 .. Len(p) + Len(s)
  BY <1>1
<1>4. /\ \A i \in 1 .. Len(p) : t[i] = p[i]
      /\ \A i \in 1 .. Len(s) : t[i + Len(p)] = s[i] /\ i + Len(p) \in DOMAIN t
      /\ \A i \in DOMAIN t : i \in 1 .. Len(p) \/ i - Len(p) \in 1 .. Len(s)
      /\ \A i \in DOMAIN t : i - Len(p) \in 1 .. Len(s) => t[i] = s[i - Len(p)]
  BY <1>1, <1>3
<1>5. /\ \A i, j \in DOMAIN s : s[i] = f /\ s[j] = f => i = j
      /\ \A i \in DOMAIN s : s[i] = f => firing
      /\ firing /\ ~th => \E i \in DOMAIN s : s[i] = f
  BY <1>2 DEF LoopOK
<1>6. ASSUME \A i \in DOMAIN p : p[i] # f
      PROVE  LoopOK(id, firing, t, th)
  <2>1. \A i \in DOMAIN t : t[i] = f => i - Len(p) \in DOMAIN s /\ s[i - Len(p)] = f
    BY <1>3, <1>4, <1>6
  <2>2. \A i, j \in DOMAIN t : t[i] = f /\ t[j] = f => i = j
    <3> SUFFICES ASSUME NEW i \in DOMAIN t, NEW j \in DOMAIN t, t[i] = f, t[j] = f
                 PROVE  i = j
      OBVIOUS
    <3>1. i - Len(p) = j - Len(p)
      BY <1>5, <2>1
    <3> QED BY <1>3, <3>1
  <2>3. \A i \in DOMAIN t : t[i] = f => firing
    BY <1>5, <2>1
  <2>4. firing /\ ~th => \E i \in DOMAIN t : t[i] = f
    BY <1>3, <1>4, <1>5
  <2> QED BY <1>2, <2>2, <2>3, <2>4 DEF LoopOK
<1>7. ASSUME firing = FALSE, \E i \in DOMAIN p : p[i] = f,
             \A i, j \in DOMAIN p : p[i] = f /\ p[j] = f => i = j
      PROVE  LoopOK(id, TRUE, t, th)
  <2>1. \A i \in DOMAIN t : t[i] = f => i \in DOMAIN p /\ p[i] = f
    BY <1>3, <1>4, <1>5, <1>7
  <2>2. \A i, j \in DOMAIN t : t[i] = f /\ t[j] = f => i = j
    BY <1>7, <2>1
  <2>3. \E i \in DOMAIN t : t[i] = f
    BY <1>3, <1>4, <1>7
  <2> QED BY <1>2, <2>2, <2>3 DEF LoopOK
<1> QED BY <1>1, <1>2, <1>6, <1>7

\* The top is taken off.
LEMMA LoopDrop ==
    ASSUME NEW id, NEW firing, NEW s \in Seq(Frames), s # <<>>, NEW th,
           LoopOK(id, firing, s, th)
    PROVE  /\ Head(s) # FireFrame(id) => LoopOK(id, firing, Tail(s), th)
           /\ Head(s) = FireFrame(id) => LoopOK(id, FALSE, Tail(s), th)
<1>0. Tail(s) \in Seq(Frames)
  OBVIOUS
<1>1. PICK t \in Seq(Frames) : t = Tail(s)
  BY <1>0
<1>2. PICK f : f = FireFrame(id)
  OBVIOUS
<1>3. /\ Len(s) \in Nat /\ Len(s) >= 1 /\ Len(t) = Len(s) - 1 /\ s[1] = Head(s)
      /\ DOMAIN s = 1 .. Len(s) /\ DOMAIN t = 1 .. Len(s) - 1
      /\ \A i \in 1 .. Len(s) - 1 : t[i] = s[i + 1]
  BY <1>1
<1>4. \A i \in DOMAIN t : i \in Int /\ i + 1 \in DOMAIN s /\ t[i] = s[i + 1] /\ i + 1 # 1
  BY <1>3
<1>5. /\ \A i, j \in DOMAIN s : s[i] = f /\ s[j] = f => i = j
      /\ \A i \in DOMAIN s : s[i] = f => firing
      /\ firing /\ ~th => \E i \in DOMAIN s : s[i] = f
  BY <1>2 DEF LoopOK
<1>6. ASSUME s[1] # f
      PROVE  LoopOK(id, firing, t, th)
  <2>1. \A i, j \in DOMAIN t : t[i] = f /\ t[j] = f => i = j
    <3> SUFFICES ASSUME NEW i \in DOMAIN t, NEW j \in DOMAIN t, t[i] = f, t[j] = f
                 PROVE  i = j
      OBVIOUS
    <3>1. i + 1 = j + 1
      BY <1>4, <1>5
    <3> QED BY <1>4, <3>1
  <2>2. \A i \in DOMAIN t : t[i] = f => firing
    BY <1>4, <1>5
  <2>3. firing /\ ~th => \E i \in DOMAIN t : t[i] = f
    <3> SUFFICES ASSUME firing, ~th PROVE \E i \in DOMAIN t : t[i] = f
      OBVIOUS
    <3>1. PICK i \in DOMAIN s : s[i] = f
      BY <1>5
    <3>2. i # 1 /\ i \in 1 .. Len(s)
      BY <1>3, <1>6, <3>1
    <3>3. PICK j : j = i - 1
      OBVIOUS
    <3>4. j \in 1 .. Len(s) - 1 /\ j + 1 = i
      BY <1>3, <3>2, <3>3
    <3> QED BY <1>3, <3>1, <3>4
  <2> QED BY <1>2, <2>1, <2>2, <2>3 DEF LoopOK
<1>7. ASSUME s[1] = f
      PROVE  LoopOK(id, FALSE, t, th)
  <2>1. \A i \in DOMAIN t : t[i] # f
    <3> SUFFICES ASSUME NEW i \in DOMAIN t, t[i] = f PROVE FALSE
      OBVIOUS
    <3>1. s[i + 1] = f /\ i + 1 \in DOMAIN s /\ 1 \in DOMAIN s
      BY <1>3, <1>4
    <3>2. i + 1 = 1
      BY <1>5, <1>7, <3>1
    <3> QED BY <1>4, <3>2
  <2> QED BY <1>2, <2>1 DEF LoopOK
<1> QED BY <1>1, <1>2, <1>3, <1>6, <1>7

\* A loop is no frame of ajax() or done, nor a function of the page.
LEMMA NoLoop ==
    ASSUME NEW id, NEW f \in AjaxFrames \cup CallFrames
    PROVE  f # FireFrame(id) /\ f \in Frames /\ f \notin FireFrames
BY DEF AjaxFrames, CallFrames, HookFrames, StatusFrames, CloseFrames, FireFrame, FireFrames,
       Frames, PlainFrames

-----------------------------------------------------------------------------
(* Steps and the lists.                                                    *)

CallTypes ==
    /\ called \in [ListIds -> Seq(Fns)] /\ registered \in [ListIds -> Seq(Fns)]
    /\ state \in [Deferreds -> {"pending", "resolved", "rejected"}]

\* The code whose frames are s can go on.
Base(ls, s) ==
    /\ s \in Seq(Frames) /\ ListsOK(ls)
    /\ CallsOK(ls, s, state, called, registered, threw) /\ NoneSettles(ls, state)

\* Which list a deferred is about to settle by.
LEMMA SettlerOnTop ==
    ASSUME CallsInv, frames = <<>> \/ (\A id \in Settling : Top # FireFrame(id))
    PROVE  NoneSettles(lists, state)
BY DEF CallsInv, CallsOK, PendingOK, NoneSettles, Top

\* No loop is on top.
LEMMA BaseHere ==
    ASSUME TypeInv, CallsInv, frames = <<>> \/ Top \in AjaxFrames \cup CallFrames
    PROVE  /\ Base(lists, frames)
           /\ frames # <<>> => Base(lists, Below)
<1>1. frames # <<>> => \A id : Top # FireFrame(id)
  BY NoLoop
<1>2. NoneSettles(lists, state)
  BY <1>1, SettlerOnTop
<1>3. frames \in Seq(Frames) /\ ListsOK(lists)
  BY DEF TypeInv
<1>4. Base(lists, frames)
  BY <1>2, <1>3 DEF Base, CallsInv
<1>5. ASSUME frames # <<>>
      PROVE  Base(lists, Below)
  <2>1. Below \in Seq(Frames)
    BY <1>3, <1>5 DEF Below
  <2>2. \A id \in Calling : LoopOK(id, lists[id].firing, Below, threw)
    <3> TAKE id \in Calling
    <3>1. LoopOK(id, lists[id].firing, frames, threw) /\ Top # FireFrame(id)
      BY <1>1, <1>5 DEF CallsInv, CallsOK
    <3> QED BY <1>3, <1>5, <3>1, LoopDrop DEF Top, Below
  <2>3. PendingOK(lists, state, Below)
    BY <1>2 DEF PendingOK, NoneSettles
  <2> QED BY <1>2, <1>3, <2>1, <2>2, <2>3 DEF Base, CallsInv, CallsOK
<1> QED BY <1>4, <1>5

\* A frame of ajax() or done is put on the stack.
LEMMA BasePush ==
    ASSUME NEW ls, NEW s, Base(ls, s), NEW f \in AjaxFrames
    PROVE  Base(ls, <<f>> \o s)
<1>1. s \in Seq(Frames) /\ f \in Frames
  BY NoLoop DEF Base
<1>2. <<f>> \in Seq(Frames) /\ DOMAIN <<f>> = {1} /\ <<f>>[1] = f /\ <<f>> \o s \in Seq(Frames)
  BY <1>1
<1>3. \A id \in Calling : LoopOK(id, ls[id].firing, <<f>> \o s, threw)
  <2> TAKE id \in Calling
  <2>1. LoopOK(id, ls[id].firing, s, threw) /\ \A i \in DOMAIN <<f>> : <<f>>[i] # FireFrame(id)
    BY <1>2, NoLoop DEF Base, CallsOK
  <2> QED BY <1>1, <1>2, <2>1, LoopGrow
<1>4. PendingOK(ls, state, <<f>> \o s)
  BY DEF Base, PendingOK, NoneSettles
<1> QED BY <1>2, <1>3, <1>4 DEF Base, CallsOK

\* A step that fires nothing.
LEMMA KeepCalls ==
    ASSUME NEW ls, NEW s, CallsOK(ls, s, state, called, registered, threw),
           lists' = ls, frames' = s, UNCHANGED <<state, called, registered>>, threw => threw'
    PROVE  CallsInv'
<1>1. \A id \in Calling : LoopOK(id, ls[id].firing, s, threw')
  BY DEF CallsOK, LoopOK
<1> QED BY <1>1 DEF CallsInv, CallsOK


\* fireWith.
LEMMA FireCalls ==
    ASSUME NEW ls, NEW rest, Base(ls, rest), CallTypes, NEW id \in ListIds,
           FireWith(ls, id, rest), UNCHANGED <<state, called, registered, threw>>
    PROVE  CallsInv'
<1>1. /\ rest \in Seq(Frames) /\ ListsOK(ls) /\ NoneSettles(ls, state)
      /\ CallsOK(ls, rest, state, called, registered, threw)
  BY DEF Base
<1>2. PICK l \in List : l = ls[id] /\ ListOK(l)
  BY <1>1 DEF ListsOK
<1>3. id \in Calling => ListInv(l, called[id], registered[id])
  BY <1>1, <1>2 DEF CallsOK, GoodList
<1>4. l.fired \in BOOLEAN /\ l.firing \in BOOLEAN /\ l.open \in BOOLEAN /\ l.on \in BOOLEAN
  BY ListFields
<1>5. CASE ~l.on \/ (l.fired /\ ~l.open)
  BY <1>1, <1>2, <1>5 DEF FireWith, CallsInv
<1>6. CASE ~(~l.on \/ (l.fired /\ ~l.open)) /\ l.firing
  <2>1. PICK m : m = [l EXCEPT !.queued = @ + 1]
    OBVIOUS
  <2>2. m.fns = l.fns
    BY <2>1, ListFields
  <2>3. lists' = [ls EXCEPT ![id] = m] /\ frames' = rest
    BY <1>2, <1>6, <2>1 DEF FireWith
  <2>4. id \notin Calling
    BY <1>3, <1>4, <1>6 DEF ListInv
  <2>5. id \notin Settling
    BY <2>4 DEF Calling, Settling
  <2>6. \A q \in ListIds : q # id => lists'[q] = ls[q]
    BY <1>1, <2>3 DEF ListsOK
  <2>7. lists'[id] = m
    BY <1>1, <2>3 DEF ListsOK
  <2>8. \A q \in ListIds : GoodList(q, lists'[q], state[q[1]], called[q], registered[q])
    <3> TAKE q \in ListIds
    <3>1. GoodList(q, ls[q], state[q[1]], called[q], registered[q])
      BY <1>1 DEF CallsOK
    <3>2. CASE q = id
      BY <1>2, <2>2, <2>4, <2>5, <2>7, <3>1, <3>2 DEF GoodList
    <3> QED BY <2>6, <3>1, <3>2
  <2>9. /\ \A q \in Calling : q \in ListIds /\ q # id
        /\ \A q \in Settling : q \in ListIds /\ q # id
    BY <2>4, <2>5 DEF Calling, Settling, ListIds, Kinds
  <2>10. \A q \in Calling : LoopOK(q, lists'[q].firing, rest, threw)
    BY <1>1, <2>6, <2>9 DEF CallsOK
  <2>11. PendingOK(lists', state, rest)
    BY <1>1, <2>6, <2>9 DEF PendingOK, NoneSettles
  <2> QED BY <2>3, <2>8, <2>10, <2>11 DEF CallsInv, CallsOK
<1>7. CASE ~(~l.on \/ (l.fired /\ ~l.open)) /\ ~l.firing
  <2>1. PICK m : m = Started(l, 1)
    OBVIOUS
  <2>2. lists' = [ls EXCEPT ![id] = m] /\ frames' = <<FireFrame(id)>> \o rest
    BY <1>2, <1>7, <2>1 DEF FireWith
  <2>3. id \in Calling => ~l.fired
    BY <1>3, <1>4, <1>7 DEF ListInv
  <2>4. /\ \A q \in ListIds : q # id => lists'[q] = ls[q]
        /\ lists'[id] = m
    BY <1>1, <2>2 DEF ListsOK
  <2>5. /\ GoodList(id, m, state[id[1]], called[id], registered[id])
        /\ m.fired = TRUE /\ m.firing = TRUE
    BY <1>1, <1>2, <1>4, <1>7, <2>1, <2>3, StartedGood DEF CallsOK, CallTypes
  <2>6. \A q \in ListIds : GoodList(q, lists'[q], state[q[1]], called[q], registered[q])
    BY <1>1, <2>4, <2>5 DEF CallsOK
  <2>7. /\ <<FireFrame(id)>> \in Seq(Frames) /\ DOMAIN <<FireFrame(id)>> = {1}
        /\ <<FireFrame(id)>>[1] = FireFrame(id)
    BY DEF FireFrame, Frames, PlainFrames, FireFrames
  <2>8. \A q \in Calling : q \in ListIds
    BY DEF Calling, ListIds, Kinds
  <2>9. \A q \in Calling : LoopOK(q, lists'[q].firing, <<FireFrame(id)>> \o rest, threw)
    <3> TAKE q \in Calling
    <3>1. LoopOK(q, ls[q].firing, rest, threw)
      BY <1>1 DEF CallsOK
    <3>2. CASE q = id
      <4>1. ls[q].firing = FALSE
        BY <1>2, <1>4, <1>7, <3>2
      <4>2. \E i \in DOMAIN <<FireFrame(id)>> : <<FireFrame(id)>>[i] = FireFrame(q)
        BY <2>7, <3>2
      <4>3. \A i, j \in DOMAIN <<FireFrame(id)>> : i = j
        BY <2>7
      <4>4. LoopOK(q, TRUE, <<FireFrame(id)>> \o rest, threw)
        BY <1>1, <2>7, <3>1, <4>1, <4>2, <4>3, LoopGrow
      <4> QED BY <2>4, <2>5, <3>2, <4>4
    <3>3. CASE q # id
      <4>1. FireFrame(id) # FireFrame(q)
        BY <3>3 DEF FireFrame
      <4>2. lists'[q].firing = ls[q].firing
        BY <2>4, <2>8, <3>3
      <4> QED BY <1>1, <2>7, <3>1, <4>1, <4>2, LoopGrow
    <3> QED BY <3>2, <3>3
  <2>10. PendingOK(lists', state, <<FireFrame(id)>> \o rest)
    <3> SUFFICES ASSUME NEW q \in Settling, state[q[1]] = "pending", lists'[q].fired
                 PROVE  /\ <<FireFrame(id)>> \o rest # <<>>
                        /\ Head(<<FireFrame(id)>> \o rest) = FireFrame(q)
      BY DEF PendingOK
    <3>1. q \in ListIds /\ ~ls[q].fired
      BY <1>1 DEF NoneSettles, Settling, ListIds, Kinds
    <3>2. q = id
      BY <2>4, <3>1
    <3>3. /\ <<FireFrame(id)>> \o rest # <<>>
          /\ Head(<<FireFrame(id)>> \o rest) = FireFrame(id)
      BY <1>1
    <3> QED BY <3>2, <3>3
  <2> QED BY <2>2, <2>6, <2>9, <2>10 DEF CallsInv, CallsOK
<1> QED BY <1>4, <1>5, <1>6, <1>7

\* add, to some lists.
LEMMA GiveCalls ==
    ASSUME NEW rest, Base(lists, rest), CallTypes, NEW ids, NEW cbs, Gives(ids, cbs, rest),
           UNCHANGED <<state, called, threw>>
    PROVE  CallsInv'
<1>1. /\ rest \in Seq(Frames) /\ ListsOK(lists) /\ NoneSettles(lists, state)
      /\ CallsOK(lists, rest, state, called, registered, threw)
  BY DEF Base
<1>2. ListsOK(lists') /\ DOMAIN cbs = ids /\ ids \in SUBSET ListIds /\ IsFiniteSet(ids)
  BY <1>1, GivesShape DEF CallTypes, Gives
<1>3. PICK ps : ps = Passes(cbs)
  OBVIOUS
<1>4. ps \in SUBSET ListIds /\ IsFiniteSet(ps)
      /\ ps \subseteq ids
  BY <1>2, <1>3, FS_Subset DEF Passes
<1>5. PICK p : /\ p = SetToSeq({FireFrame(id) : id \in ps})
               /\ frames' = p \o rest
  BY <1>3 DEF Gives, AddAll, Passes
<1>6. /\ p \in Seq(FireFrames)
      /\ \A id \in ps : \E i \in DOMAIN p : p[i] = FireFrame(id)
      /\ \A i \in DOMAIN p : \E id \in ps : p[i] = FireFrame(id)
      /\ \A i, j \in DOMAIN p : p[i] = p[j] => i = j
  BY ZenonT(60), <1>4, <1>5, PassFrames
<1>7. p \in Seq(Frames)
  BY <1>6 DEF Frames, PlainFrames
<1>8. \A id \in ListIds : (\E i \in DOMAIN p : p[i] = FireFrame(id)) <=> id \in ps
  BY <1>6 DEF FireFrame
<1>9. ASSUME NEW id \in ListIds
      PROVE  /\ GoodList(id, lists'[id], state[id[1]], called[id], registered'[id])
             /\ id \in Calling => /\ lists'[id].fired = lists[id].fired
                                  /\ id \in ps => lists'[id].firing = TRUE /\ lists[id].firing = FALSE
                                  /\ id \notin ps => lists'[id].firing = lists[id].firing
  <2>1. PICK l \in List : l = lists[id] /\ ListOK(l)
    BY <1>1 DEF ListsOK
  <2>2. GoodList(id, l, state[id[1]], called[id], registered[id])
        /\ (id \in Settling /\ state[id[1]] = "pending" => ~l.fired)
    BY <1>1, <2>1 DEF CallsOK, NoneSettles
  <2>3. CASE id \in ids
    <3>1. PICK e \in Entry \ {SettleEntry} : e = cbs[id]
      BY <2>3 DEF Gives
    <3>2. PICK m : m = Added(l, e)
      OBVIOUS
    <3>3. PICK to : to = IF Paged(e) THEN Append(registered[id], e.fn) ELSE registered[id]
      OBVIOUS
    <3>4. registered'[id] = to
      BY <2>3, <3>1, <3>3 DEF Gives
    <3>5. lists'[id] = m
      BY <1>2, <2>1, <2>3, <3>1, <3>2 DEF Gives, AddAll
    <3>6. called[id] \in Seq(Fns) /\ registered[id] \in Seq(Fns)
      BY DEF CallTypes
    <3>7. /\ GoodList(id, m, state[id[1]], called[id], to)
          /\ id \in Calling => /\ m.fired = l.fired
                               /\ m.firing <=> l.firing \/ (l.on /\ l.memory)
      BY <2>1, <2>2, <3>2, <3>3, <3>6, AddedGood
    <3>8. m.firing \in BOOLEAN /\ l.firing \in BOOLEAN
      BY <1>2, <3>5, ListFields DEF ListsOK
    <3>9. id \in ps <=> l.on /\ ~l.firing /\ l.memory
      BY <1>2, <1>3, <2>1, <2>3 DEF Passes
    <3>10. id \in Calling => /\ id \in ps => m.firing = TRUE /\ l.firing = FALSE
                             /\ id \notin ps => m.firing = l.firing
      BY <3>7, <3>8, <3>9
    <3>11. GoodList(id, lists'[id], state[id[1]], called[id], registered'[id])
      BY <3>4, <3>5, <3>7
    <3>12. id \in Calling => lists'[id].fired = lists[id].fired
      BY <2>1, <3>5, <3>7
    <3>13. id \in Calling => /\ id \in ps => lists'[id].firing = TRUE /\ lists[id].firing = FALSE
                             /\ id \notin ps => lists'[id].firing = lists[id].firing
      BY <2>1, <3>5, <3>10
    <3> QED BY <3>11, <3>12, <3>13
  <2>4. CASE id \notin ids
    BY <1>2, <1>4, <2>1, <2>2, <2>4 DEF Gives, AddAll
  <2> QED BY <2>3, <2>4
<1>10. \A id \in Calling : id \in ListIds
  BY DEF Calling, ListIds, Kinds
<1>11. \A id \in Calling : LoopOK(id, lists'[id].firing, p \o rest, threw)
  <2> TAKE id \in Calling
  <2>1. LoopOK(id, lists[id].firing, rest, threw) /\ id \in ListIds
    BY <1>1, <1>10 DEF CallsOK
  <2>2. CASE id \in ps
    <3>1. \E i \in DOMAIN p : p[i] = FireFrame(id)
      BY <1>6, <2>2
    <3>2. \A i, j \in DOMAIN p : p[i] = FireFrame(id) /\ p[j] = FireFrame(id) => i = j
      BY <1>6
    <3>3. lists'[id].firing = TRUE /\ lists[id].firing = FALSE
      BY <1>9, <2>1, <2>2
    <3>4. LoopOK(id, TRUE, p \o rest, threw)
      BY <1>1, <1>7, <2>1, <3>1, <3>2, <3>3, LoopGrow
    <3> QED BY <3>3, <3>4
  <2>3. CASE id \notin ps
    BY <1>1, <1>7, <1>8, <1>9, <2>1, <2>3, LoopGrow
  <2> QED BY <2>2, <2>3
<1>12. PendingOK(lists', state, p \o rest)
  BY <1>1, <1>9 DEF Settling, Calling, ListIds, Kinds, PendingOK, NoneSettles
<1> QED BY <1>5, <1>9, <1>11, <1>12 DEF CallsInv, CallsOK


-----------------------------------------------------------------------------
(* The lists, at the steps of fire().                                      *)

\* The loop passes an entry: the lists afterwards.
LEMMA StepsOver ==
    ASSUME TypeInv, CallsInv, On("fire"), HasNext
    PROVE  /\ Firing \in ListIds /\ lists[Firing] \in List /\ ListOK(lists[Firing])
           /\ lists[Firing].on /\ lists[Firing].next <= lists[Firing].length
           /\ NextEntry = lists[Firing].fns[lists[Firing].next] /\ NextEntry \in Entry
           /\ ListsOK(Stepped)
           /\ Stepped = [lists EXCEPT ![Firing] = [lists[Firing] EXCEPT !.next = @ + 1]]
           /\ Stepped[Firing] = [lists[Firing] EXCEPT !.next = @ + 1]
           /\ \A id \in ListIds : id # Firing => Stepped[id] = lists[id]
           /\ GoodList(Firing, lists[Firing], state[Firing[1]], called[Firing],
                       registered[Firing])
           /\ called[Firing] \in Seq(Fns) /\ registered[Firing] \in Seq(Fns)
           /\ state[Firing[1]] \in {"pending", "resolved", "rejected"}
           /\ frames \in Seq(Frames) /\ frames # <<>> /\ Top = FireFrame(Firing)
           /\ \A id \in Settling \ {Firing} : state[id[1]] = "pending" => ~lists[id].fired
           /\ Firing \in Calling => lists[Firing].fired /\ lists[Firing].firing
<1>1. /\ Firing \in ListIds /\ lists[Firing] \in List /\ ListOK(lists[Firing])
      /\ lists[Firing].on /\ lists[Firing].next <= lists[Firing].length
      /\ NextEntry = lists[Firing].fns[lists[Firing].next] /\ NextEntry \in Entry
      /\ ListsOK(Stepped)
      /\ Stepped = [lists EXCEPT ![Firing] = [lists[Firing] EXCEPT !.next = @ + 1]]
  BY NextIsEntry
<1>2. lists \in [ListIds -> List]
  BY DEF TypeInv, ListsOK
<1>3. /\ Stepped[Firing] = [lists[Firing] EXCEPT !.next = @ + 1]
      /\ \A id \in ListIds : id # Firing => Stepped[id] = lists[id]
  <2>1. PICK m : m = [lists[Firing] EXCEPT !.next = @ + 1]
    OBVIOUS
  <2>2. Stepped = [lists EXCEPT ![Firing] = m]
    BY <1>1, <2>1
  <2> QED BY <1>1, <1>2, <2>1, <2>2
<1>4. /\ GoodList(Firing, lists[Firing], state[Firing[1]], called[Firing],
                  registered[Firing])
      /\ called[Firing] \in Seq(Fns) /\ registered[Firing] \in Seq(Fns)
  BY <1>1 DEF CallsInv, CallsOK, TypeInv, DeferredTypes
<1>5. state[Firing[1]] \in {"pending", "resolved", "rejected"}
  BY <1>1 DEF ListIds, TypeInv, DeferredTypes
<1>6. frames \in Seq(Frames) /\ frames # <<>> /\ Top = FireFrame(Firing)
  BY TopFrame DEF TypeInv, On
<1>7. \A id \in Settling \ {Firing} : state[id[1]] = "pending" => ~lists[id].fired
  BY <1>6 DEF FireFrame, CallsInv, CallsOK, PendingOK, Top
<1>8. Firing \in Calling => lists[Firing].fired /\ lists[Firing].firing
  <2> SUFFICES ASSUME Firing \in Calling PROVE lists[Firing].fired /\ lists[Firing].firing
    OBVIOUS
  <2>1. LoopOK(Firing, lists[Firing].firing, frames, threw)
    BY DEF CallsInv, CallsOK
  <2>2. 1 \in DOMAIN frames /\ frames[1] = FireFrame(Firing)
    BY <1>6 DEF Top
  <2>3. lists[Firing].firing
    BY <2>1, <2>2 DEF LoopOK
  <2> QED BY <1>4, <2>3 DEF GoodList, ListInv
<1> QED BY <1>1, <1>3, <1>4, <1>5, <1>6, <1>7, <1>8

\* It passes a function of jQuery other than the one that settles.
LEMMA PassesOver ==
    ASSUME TypeInv, CallsInv, On("fire"), HasNext, NextEntry.kind \in {"count", "forward"}
    PROVE  Base(Stepped, frames)
<1>1. PICK id : id = Firing
  OBVIOUS
<1>2. PICK l : l = lists[id]
  OBVIOUS
<1>3. PICK m : m = [l EXCEPT !.next = @ + 1]
  OBVIOUS
<1>4. NextEntry.kind # "settle" /\ ~Paged(NextEntry) /\ NextEntry = l.fns[l.next]
  BY <1>1, <1>2, StepsOver DEF Paged
<1>5. /\ id \in ListIds /\ l \in List /\ ListOK(l) /\ l.on /\ l.next <= l.length
      /\ GoodList(id, l, state[id[1]], called[id], registered[id])
      /\ called[id] \in Seq(Fns) /\ registered[id] \in Seq(Fns)
      /\ Stepped[id] = m /\ ListsOK(Stepped) /\ frames \in Seq(Frames)
      /\ \A q \in ListIds : q # id => Stepped[q] = lists[q]
      /\ \A q \in Settling \ {id} : state[q[1]] = "pending" => ~lists[q].fired
  BY <1>1, <1>2, <1>3, StepsOver
<1>6. /\ GoodList(id, m, state[id[1]], called[id], registered[id])
      /\ m.firing = l.firing /\ m.fired = l.fired
      /\ id \in Settling => state[id[1]] # "pending"
  BY <1>3, <1>4, <1>5, NextGood
<1>7. \A q \in ListIds : GoodList(q, Stepped[q], state[q[1]], called[q], registered[q])
  BY <1>5, <1>6 DEF CallsInv, CallsOK
<1>8. /\ \A q \in Calling : q \in ListIds
      /\ \A q \in Settling : q \in ListIds
  BY DEF Calling, Settling, ListIds, Kinds
<1>9. \A q \in Calling : LoopOK(q, Stepped[q].firing, frames, threw)
  <2> TAKE q \in Calling
  <2>1. Stepped[q].firing = lists[q].firing
    BY <1>2, <1>5, <1>6, <1>8
  <2> QED BY <2>1 DEF CallsInv, CallsOK
<1>10. NoneSettles(Stepped, state)
  BY <1>5, <1>6, <1>8 DEF NoneSettles
<1>11. PendingOK(Stepped, state, frames)
  BY <1>10 DEF PendingOK, NoneSettles
<1> QED BY <1>5, <1>7, <1>9, <1>10, <1>11 DEF Base, CallsOK

LEMMA TypesOfCalls ==
    ASSUME TypeInv
    PROVE  CallTypes
BY DEF TypeInv, DeferredTypes, CallTypes

\* updateFunc of when.
LEMMA CountsCalls ==
    ASSUME TypeInv, CallsInv, Counts
    PROVE  CallsInv'
<1>1. /\ On("fire") /\ HasNext /\ NextEntry.kind \in {"count", "forward"}
      /\ UNCHANGED <<state, called, registered, threw>>
  BY DEF Counts, givenVars
<1>2. Base(Stepped, frames) /\ NextEntry \in Entry
  BY <1>1, PassesOver, StepsOver
<1>3. PICK m \in Deferreds : m = NextEntry.of
  BY <1>2 DEF Counts, Entry, SettleEntry
<1>4. PICK ls : ls = Stepped
  OBVIOUS
<1>5. PICK rest : rest = frames
  OBVIOUS
<1>6. <<m, "done">> \in ListIds
  BY DEF ListIds, Kinds
<1>7. CASE remaining[m] = 1
  <2>1. FireWith(ls, <<m, "done">>, rest)
    BY <1>3, <1>4, <1>5, <1>7 DEF Counts
  <2> QED BY <1>1, <1>2, <1>4, <1>5, <1>6, <2>1, TypesOfCalls, FireCalls
<1>8. CASE remaining[m] # 1
  BY <1>1, <1>2, <1>3, <1>4, <1>5, <1>8, KeepCalls DEF Counts, Base
<1> QED BY <1>7, <1>8

\* resolve or reject of another deferred.
LEMMA ForwardsCalls ==
    ASSUME TypeInv, CallsInv, Forwards
    PROVE  CallsInv'
<1>1. /\ On("fire") /\ HasNext /\ NextEntry.kind \in {"count", "forward"}
      /\ UNCHANGED <<state, called, registered, threw>>
  BY DEF Forwards, givenVars
<1>2. Base(Stepped, frames) /\ NextEntry \in Entry
  BY <1>1, PassesOver, StepsOver
<1>3. PICK id \in ListIds : id = NextEntry.to
  BY <1>2 DEF Forwards, Entry, SettleEntry
<1>4. PICK ls : ls = Stepped
  OBVIOUS
<1>5. PICK rest : rest = frames
  OBVIOUS
<1>6. FireWith(ls, id, rest)
  BY <1>3, <1>4, <1>5 DEF Forwards
<1> QED BY <1>1, <1>2, <1>4, <1>5, <1>6, TypesOfCalls, FireCalls


\* A function of the page is called.
LEMMA CallsCalls ==
    ASSUME TypeInv, CallsInv, Calls
    PROVE  CallsInv'
<1>1. PICK id : id = Firing
  OBVIOUS
<1>2. PICK l : l = lists[id]
  OBVIOUS
<1>3. PICK m : m = [l EXCEPT !.next = @ + 1]
  OBVIOUS
<1>4. PICK e : e = NextEntry
  OBVIOUS
<1>5. On("fire") /\ HasNext /\ e.kind # "settle" /\ Paged(e) /\ e = l.fns[l.next]
      /\ e \in Entry
  BY <1>1, <1>2, <1>4, StepsOver DEF Calls, Paged
<1>6. /\ id \in ListIds /\ l \in List /\ ListOK(l) /\ l.on /\ l.next <= l.length
      /\ GoodList(id, l, state[id[1]], called[id], registered[id])
      /\ called[id] \in Seq(Fns) /\ registered[id] \in Seq(Fns)
      /\ Stepped[id] = m /\ ListsOK(Stepped) /\ frames \in Seq(Frames)
      /\ \A q \in ListIds : q # id => Stepped[q] = lists[q]
      /\ \A q \in Settling \ {id} : state[q[1]] = "pending" => ~lists[q].fired
  BY <1>1, <1>2, <1>3, <1>5, StepsOver
<1>7. PICK t : t = IF e.kind = "then" THEN e.to ELSE NoDeferred
  OBVIOUS
<1>8. t \in Deferreds \cup {NoDeferred}
  BY <1>5, <1>7 DEF Entry, SettleEntry
<1>9. PICK c : c = CallFrame(id, t)
  OBVIOUS
<1>10. c \in AjaxFrames \cup CallFrames
  BY <1>6, <1>8, <1>9 DEF CallFrame, CallFrames
<1>11. /\ lists' = Stepped /\ frames' = <<c>> \o frames
       /\ called' = [called EXCEPT ![id] =
                        IF id[2] = "progress" THEN @ ELSE Append(@, e.fn)]
       /\ UNCHANGED <<state, registered, threw>>
  BY <1>1, <1>4, <1>7, <1>9 DEF Calls, givenVars
<1>12. id \in Calling <=> id[2] # "progress"
  BY <1>6 DEF Calling, ListIds, Kinds
<1>13. /\ id \in Calling => GoodList(id, m, state[id[1]], Append(called[id], e.fn), registered[id])
       /\ id \notin Calling => GoodList(id, m, state[id[1]], called[id], registered[id])
       /\ m.firing = l.firing /\ m.fired = l.fired
       /\ id \in Settling => state[id[1]] # "pending"
  <2>1. e \in {l.fns[l.next]} /\ m \in {[l EXCEPT !.next = @ + 1]}
    BY <1>3, <1>5
  <2>2. /\ id \in ListIds /\ l \in List /\ ListOK(l) /\ l.on /\ l.next <= l.length
        /\ GoodList(id, l, state[id[1]], called[id], registered[id])
        /\ called[id] \in Seq(Fns) /\ registered[id] \in Seq(Fns)
        /\ e.kind # "settle" /\ Paged(e)
    BY <1>5, <1>6
  <2> HIDE <1>1, <1>2, <1>3, <1>4, <1>5, <1>6
  <2>3. id \in Calling => GoodList(id, m, state[id[1]], Append(called[id], e.fn), registered[id])
    BY <2>1, <2>2, NextGood
  <2>4. id \notin Calling => GoodList(id, m, state[id[1]], called[id], registered[id])
    BY <2>1, <2>2, NextGood
  <2>5. /\ m.firing = l.firing /\ m.fired = l.fired
        /\ id \in Settling => state[id[1]] # "pending"
    BY <2>1, <2>2, NextGood
  <2> QED BY <2>3, <2>4, <2>5
<1>14. called'[id] = IF id \in Calling THEN Append(called[id], e.fn) ELSE called[id]
  BY <1>6, <1>11, <1>12 DEF TypeInv, DeferredTypes
<1>15. \A q \in ListIds : q # id => called'[q] = called[q]
  BY <1>11 DEF TypeInv, DeferredTypes
<1>16. \A q \in ListIds : GoodList(q, lists'[q], state[q[1]], called'[q], registered[q])
  <2> TAKE q \in ListIds
  <2>1. CASE q = id
    BY <1>6, <1>11, <1>13, <1>14, <2>1
  <2>2. CASE q # id
    BY <1>6, <1>11, <1>15, <2>2 DEF CallsInv, CallsOK
  <2> QED BY <2>1, <2>2
<1>17. <<c>> \in Seq(Frames) /\ DOMAIN <<c>> = {1} /\ <<c>>[1] = c
  BY <1>10, NoLoop
<1>18. \A q \in Calling : LoopOK(q, lists'[q].firing, <<c>> \o frames, threw)
  <2> TAKE q \in Calling
  <2>1. lists'[q].firing = lists[q].firing
    BY <1>2, <1>6, <1>11, <1>13 DEF Calling, ListIds, Kinds
  <2>2. LoopOK(q, lists[q].firing, frames, threw)
    BY DEF CallsInv, CallsOK
  <2>3. \A i \in DOMAIN <<c>> : <<c>>[i] # FireFrame(q)
    BY <1>10, <1>17, NoLoop
  <2> QED BY <1>6, <1>17, <2>1, <2>2, <2>3, LoopGrow
<1>19. PendingOK(lists', state, <<c>> \o frames)
  BY <1>6, <1>11, <1>13 DEF Settling, ListIds, Kinds, PendingOK
<1> QED BY <1>11, <1>16, <1>18, <1>19 DEF CallsInv, CallsOK

\* A deferred settles.
LEMMA SettlesCalls ==
    ASSUME TypeInv, CallsInv, Settles
    PROVE  CallsInv'
<1>1. PICK id : id = Firing
  OBVIOUS
<1>2. PICK l : l = lists[id]
  OBVIOUS
<1>3. PICK m : m = [l EXCEPT !.next = @ + 1]
  OBVIOUS
<1>4. PICK e : e = NextEntry
  OBVIOUS
<1>5. On("fire") /\ HasNext /\ e.kind = "settle" /\ e = l.fns[l.next]
  BY <1>1, <1>2, <1>4, StepsOver DEF Settles
<1>6. /\ id \in ListIds /\ l \in List /\ ListOK(l) /\ l.on /\ l.next <= l.length
      /\ GoodList(id, l, state[id[1]], called[id], registered[id])
      /\ called[id] \in Seq(Fns) /\ registered[id] \in Seq(Fns)
      /\ Stepped[id] = m /\ ListsOK(Stepped) /\ frames \in Seq(Frames)
      /\ \A q \in ListIds : q # id => Stepped[q] = lists[q]
      /\ \A q \in Settling \ {id} : state[q[1]] = "pending" => ~lists[q].fired
      /\ state[id[1]] \in {"pending", "resolved", "rejected"}
      /\ id \in Calling => l.fired /\ l.firing
  BY <1>1, <1>2, <1>3, <1>5, StepsOver
<1>7. id \in Settling
  BY <1>5, <1>6, NextFields DEF GoodList
<1>8. l.fired
  BY <1>6, <1>7 DEF Settling, Calling
<1>9. PICK d \in Deferreds, k \in {"done", "fail"} : id = <<d, k>>
  BY <1>7 DEF Settling
<1>10. state[d] = "pending" /\ GoodList(id, m, Outcome(k), called[id], registered[id])
       /\ m.firing = l.firing /\ m.fired = l.fired
  <2>1. e \in {l.fns[l.next]} /\ m \in {[l EXCEPT !.next = @ + 1]}
    BY <1>3, <1>5
  <2>2. id[1] = d /\ id[2] = k
    BY <1>9
  <2>3. PICK s \in {"pending", "resolved", "rejected"} : s = state[id[1]]
    BY <1>6
  <2>4. /\ id \in ListIds /\ l \in List /\ ListOK(l) /\ l.on /\ l.next <= l.length
        /\ GoodList(id, l, s, called[id], registered[id]) /\ l.fired /\ e.kind = "settle"
        /\ called[id] \in Seq(Fns) /\ registered[id] \in Seq(Fns)
    BY <1>5, <1>6, <1>8, <2>3
  <2>5. /\ s = "pending" /\ GoodList(id, m, Outcome(id[2]), called[id], registered[id])
        /\ m.firing = l.firing /\ m.fired = l.fired
    <3> HIDE <1>1, <1>2, <1>3, <1>4, <1>5, <1>6, <1>7, <1>8, <1>9, <2>3
    <3>1. s = "pending"
      BY <2>1, <2>4, SettledGood
    <3>2. GoodList(id, m, Outcome(id[2]), called[id], registered[id])
      BY <2>1, <2>4, SettledGood
    <3>3. m.firing = l.firing /\ m.fired = l.fired
      BY ZenonT(60), <2>1, <2>4, SettledGood
    <3> QED BY <3>1, <3>2, <3>3
  <2> QED BY <2>2, <2>3, <2>5
<1>11. PICK j \in {"done", "fail"} : j = IF k = "done" THEN "fail" ELSE "done"
  OBVIOUS
<1>12. j # k /\ Outcome(k) # Outcome(j) /\ Outcome(k) \in {"resolved", "rejected"}
  BY <1>11 DEF Outcome
<1>13. PICK other, prog : other = <<d, j>> /\ prog = <<d, "progress">>
  OBVIOUS
<1>14. /\ other \in Settling /\ other \in ListIds /\ prog \in ListIds /\ prog \notin Calling
       /\ prog \notin Settling /\ other # id /\ prog # id /\ other # prog
  BY <1>9, <1>12, <1>13 DEF Settling, Calling, ListIds, Kinds
<1>15. PICK dis, lck : dis = Disabled(lists[other]) /\ lck = Locked(lists[prog])
  OBVIOUS
<1>16. state' = [state EXCEPT ![d] = Outcome(k)]
       /\ UNCHANGED <<frames, called, registered, threw>>
  BY <1>1, <1>9 DEF Settles, givenVars
<1>17. lists' = [[Stepped EXCEPT ![other] = dis] EXCEPT ![prog] = lck]
  <2>1. other = <<Firing[1], IF Firing[2] = "done" THEN "fail" ELSE "done">>
        /\ prog = <<Firing[1], "progress">>
    BY <1>1, <1>9, <1>11, <1>13
  <2>2. lists' = [[Stepped EXCEPT ![other] = Disabled(@)] EXCEPT ![prog] = Locked(@)]
    BY <2>1 DEF Settles
  <2>3. Stepped \in [ListIds -> List] /\ Stepped[other] = lists[other]
        /\ [Stepped EXCEPT ![other] = Disabled(@)][prog] = lists[prog]
    BY <1>6, <1>14 DEF ListsOK
  <2> QED BY <1>14, <1>15, <2>2, <2>3
<1>18. /\ lists'[id] = m /\ lists'[other] = dis /\ lists'[prog] = lck
       /\ \A q \in ListIds : q \notin {id, other, prog} => lists'[q] = lists[q]
  BY <1>6, <1>14, <1>17 DEF ListsOK
<1>19. /\ state'[d] = Outcome(k)
       /\ \A c \in Deferreds : c # d => state'[c] = state[c]
  BY <1>16 DEF TypeInv, DeferredTypes
<1>20. /\ GoodList(other, dis, Outcome(k), called[other], registered[other])
       /\ dis.fired = lists[other].fired /\ dis.firing = lists[other].firing
  <2>1. GoodList(other, lists[other], "pending", called[other], registered[other])
    BY <1>10, <1>13, <1>14 DEF CallsInv, CallsOK
  <2>2. lists[other] \in List /\ ~lists[other].fired
    BY <1>6, <1>10, <1>13, <1>14 DEF TypeInv, ListsOK
  <2>3. called[other] \in Seq(Fns) /\ registered[other] \in Seq(Fns)
    BY <1>14 DEF TypeInv, DeferredTypes
  <2>4. other[2] = j
    BY <1>13
  <2> QED BY <1>12, <1>14, <1>15, <2>1, <2>2, <2>3, <2>4, DisabledGood
<1>21. GoodList(prog, lck, Outcome(k), called[prog], registered[prog])
  BY <1>14, <1>15, LockedGood DEF CallsInv, CallsOK, TypeInv, ListsOK
<1>22. \A q \in ListIds : GoodList(q, lists'[q], state'[q[1]], called[q], registered[q])
  <2> TAKE q \in ListIds
  <2>1. CASE q = id
    BY <1>9, <1>10, <1>18, <1>19, <2>1
  <2>2. CASE q = other \/ q = prog
    BY <1>13, <1>18, <1>19, <1>20, <1>21, <2>2
  <2>3. CASE q \notin {id, other, prog}
    BY <1>9, <1>11, <1>13, <1>18, <1>19, <2>3 DEF CallsInv, CallsOK, ListIds, Settling,
       GoodList
  <2> QED BY <2>1, <2>2, <2>3
<1>23. \A q \in Calling : lists'[q].firing = lists[q].firing
  <2> TAKE q \in Calling
  <2>1. q \in ListIds /\ q # prog
    BY <1>14 DEF Calling, ListIds, Kinds
  <2> QED BY <1>2, <1>10, <1>18, <1>20, <2>1
<1>24. \A q \in Calling : LoopOK(q, lists'[q].firing, frames, threw)
  BY <1>23 DEF CallsInv, CallsOK
<1>25. PendingOK(lists', state', frames)
  <2>1. ASSUME NEW q \in Settling, state'[q[1]] = "pending"
        PROVE  ~lists'[q].fired
    <3>1. q[1] # d
      BY <1>12, <1>19, <2>1
    <3>2. q \notin {id, other, prog} /\ q \in ListIds /\ q[1] \in Deferreds
      BY <1>9, <1>13, <3>1 DEF Settling, ListIds, Kinds
    <3>3. lists'[q] = lists[q] /\ state[q[1]] = "pending"
      BY <1>18, <1>19, <2>1, <3>1, <3>2
    <3> QED BY <1>6, <3>2, <3>3
  <2> QED BY <2>1 DEF PendingOK
<1> QED BY <1>16, <1>22, <1>24, <1>25 DEF CallsInv, CallsOK

\* A pass ends.
LEMMA PassEndsCalls ==
    ASSUME TypeInv, CallsInv, PassEnds
    PROVE  CallsInv'
<1>1. PICK id : id = Firing
  OBVIOUS
<1>2. PICK l : l = lists[id]
  OBVIOUS
<1>3. /\ frames \in Seq(Frames) /\ frames # <<>> /\ id \in ListIds /\ Top = FireFrame(id)
      /\ Below \in Seq(Frames)
  BY <1>1, TopFrame DEF PassEnds, On, TypeInv
<1>4. l \in List /\ ListOK(l) /\ ListsOK(lists) /\ lists \in [ListIds -> List]
  BY <1>2, <1>3 DEF TypeInv, ListsOK
<1>5. ~(l.on /\ l.next <= l.length)
  BY <1>1, <1>2 DEF PassEnds, HasNext
<1>6. /\ GoodList(id, l, state[id[1]], called[id], registered[id])
      /\ called[id] \in Seq(Fns) /\ registered[id] \in Seq(Fns)
  BY <1>2, <1>3 DEF CallsInv, CallsOK, TypeInv, DeferredTypes
<1>7. id \in Calling => ListInv(l, called[id], registered[id]) /\ l.firing /\ l.fired
  <2> SUFFICES ASSUME id \in Calling
               PROVE  ListInv(l, called[id], registered[id]) /\ l.firing /\ l.fired
    OBVIOUS
  <2>1. LoopOK(id, l.firing, frames, threw)
    BY <1>2 DEF CallsInv, CallsOK
  <2>2. 1 \in DOMAIN frames /\ frames[1] = FireFrame(id)
    BY <1>3 DEF Top
  <2>3. l.firing
    BY <2>1, <2>2 DEF LoopOK
  <2> QED BY <1>6, <2>3 DEF GoodList, ListInv
<1>8. \A q : FireFrame(q) = FireFrame(id) => q = id
  BY DEF FireFrame
<1>9. /\ \A q \in Calling : q \in ListIds
      /\ \A q \in Settling : q \in ListIds /\ q \in Calling
  BY DEF Calling, Settling, ListIds, Kinds
<1>10. NoneSettles(lists, state)
  <2> SUFFICES ASSUME NEW q \in Settling, state[q[1]] = "pending", lists[q].fired PROVE FALSE
    BY DEF NoneSettles
  <2>1. q = id
    BY <1>3, <1>8 DEF CallsInv, CallsOK, PendingOK, Top
  <2>2. SettlingInv(l, state[id[1]], Outcome(id[2]), called[id])
    BY <1>6, <2>1 DEF GoodList
  <2>3. l.on /\ l.next = 1 /\ l.length >= 1
    BY <1>2, <2>1, <2>2 DEF SettlingInv
  <2>4. l.length \in Nat
    BY <1>4, ListFields
  <2> QED BY <1>5, <2>3, <2>4
<1>11. \A q \in ListIds : GoodList(q, lists[q], state[q[1]], called[q], registered[q])
  BY DEF CallsInv, CallsOK
<1>12. \A q \in Calling : LoopOK(q, lists[q].firing, frames, threw)
  BY DEF CallsInv, CallsOK
<1>13. UNCHANGED <<state, called, registered, threw>>
  BY DEF PassEnds, givenVars
<1>14. CASE l.on /\ l.open /\ l.queued > 0
  <2>1. PICK m : m = [Started(l, 1) EXCEPT !.queued = @ - 1]
    OBVIOUS
  <2>2. lists' = [lists EXCEPT ![id] = m] /\ frames' = frames
    BY <1>1, <1>2, <1>14, <2>1 DEF PassEnds
  <2>3. m.fns = l.fns
    <3>1. PICK n : n = Started(l, 1)
      OBVIOUS
    <3>2. n = [l EXCEPT !.memory = TRUE, !.fired = TRUE, !.firing = TRUE, !.next = 1,
                        !.length = Len(l.fns)]
      BY <3>1 DEF Started
    <3>3. n.fns = l.fns
      BY <1>4, <3>2, ListFields
    <3>4. n \in List
      <4>1. 1 \in 1 .. Len(l.fns) + 1
        BY <1>4, ListFields
      <4> QED BY <1>4, <3>1, <4>1, StartedOK
    <3>5. m = [n EXCEPT !.queued = @ - 1]
      BY <2>1, <3>1
    <3>6. m.fns = n.fns
      BY <3>4, <3>5, ListFields
    <3> QED BY <3>3, <3>6
  <2>4. id \notin Calling
    BY <1>7, <1>14 DEF ListInv
  <2>5. id \notin Settling
    BY <1>9, <2>4
  <2>6. lists'[id] = m /\ \A q \in ListIds : q # id => lists'[q] = lists[q]
    BY <1>3, <1>4, <2>2
  <2>7. \A q \in ListIds : GoodList(q, lists'[q], state[q[1]], called[q], registered[q])
    <3> TAKE q \in ListIds
    <3>1. CASE q = id
      BY <1>6, <2>3, <2>4, <2>5, <2>6, <3>1 DEF GoodList
    <3> QED BY <1>11, <2>6, <3>1
  <2>8. \A q \in Calling : LoopOK(q, lists'[q].firing, frames, threw)
    BY <1>9, <1>12, <2>4, <2>6
  <2>9. PendingOK(lists', state, frames)
    BY <1>9, <1>10, <2>5, <2>6 DEF PendingOK, NoneSettles
  <2> QED BY <1>13, <2>2, <2>7, <2>8, <2>9 DEF CallsInv, CallsOK
<1>15. CASE ~(l.on /\ l.open /\ l.queued > 0)
  <2>1. PICK m : m = [l EXCEPT !.firing = FALSE, !.fns = IF l.open THEN l.fns ELSE <<>>,
                               !.next = 1, !.length = 0]
    OBVIOUS
  <2>2. lists' = [lists EXCEPT ![id] = m] /\ frames' = Below
    BY <1>1, <1>2, <1>15, <2>1 DEF PassEnds
  <2>3. /\ GoodList(id, m, state[id[1]], called[id], registered[id])
        /\ m.fired = l.fired /\ m.firing = FALSE
    BY <1>3, <1>4, <1>5, <1>6, <1>7, <2>1, EndedGood
  <2>4. lists'[id] = m /\ \A q \in ListIds : q # id => lists'[q] = lists[q]
    BY <1>3, <1>4, <2>2
  <2>5. \A q \in ListIds : GoodList(q, lists'[q], state[q[1]], called[q], registered[q])
    BY <1>11, <2>3, <2>4
  <2>6. \A q \in Calling : LoopOK(q, lists'[q].firing, Below, threw)
    <3> TAKE q \in Calling
    <3>1. LoopOK(q, lists[q].firing, frames, threw)
      BY <1>12
    <3>2. CASE q = id
      BY <1>3, <2>3, <2>4, <3>1, <3>2, LoopDrop DEF Top, Below
    <3>3. CASE q # id
      BY <1>3, <1>8, <1>9, <2>4, <3>1, <3>3, LoopDrop DEF Top, Below
    <3> QED BY <3>2, <3>3
  <2>7. PendingOK(lists', state, Below)
    BY <1>2, <1>9, <1>10, <2>3, <2>4 DEF PendingOK, NoneSettles
  <2> QED BY <1>13, <2>2, <2>5, <2>6, <2>7 DEF CallsInv, CallsOK
<1> QED BY <1>14, <1>15

\* Nothing fires on top: code of the page, of ajax() or of done runs, or nothing.
LEMMA QuietTop ==
    ASSUME TypeInv, Idle \/ On("callback") \/ On("hook") \/ On("status") \/ On("close")
    PROVE  frames = <<>> \/ Top \in AjaxFrames \cup CallFrames
BY TopFrame DEF Idle, AjaxFrames

\* A function of the page returns.
LEMMA ReturnsCalls ==
    ASSUME TypeInv, CallsInv, Returns
    PROVE  CallsInv'
<1>1. On("callback") /\ UNCHANGED <<state, called, registered, threw>>
  BY DEF Returns, givenVars
<1>2. frames # <<>> /\ Top.list \in ListIds /\ Top.then \in Deferreds \cup {NoDeferred}
  BY <1>1, TopFrame DEF On
<1>3. Base(lists, Below)
  BY <1>1, <1>2, QuietTop, BaseHere
<1>4. PICK ls : ls = lists
  OBVIOUS
<1>5. PICK rest : rest = Below
  OBVIOUS
<1>6. CASE Top.then = NoDeferred
  BY <1>1, <1>3, <1>4, <1>5, <1>6, KeepCalls DEF Returns, Base
<1>7. CASE Top.then # NoDeferred
  <2>1. PICK id : id = <<Top.then, Top.list[2]>>
    OBVIOUS
  <2>2. id \in ListIds
    BY <1>2, <1>7, <2>1 DEF ListIds
  <2>3. FireWith(ls, id, rest)
    BY <1>4, <1>5, <1>7, <2>1 DEF Returns
  <2> QED BY <1>1, <1>3, <1>4, <1>5, <2>2, <2>3, TypesOfCalls, FireCalls
<1> QED BY <1>6, <1>7

-----------------------------------------------------------------------------
(* The lists, when the page calls in.                                      *)

\* What the page gives while no loop is on top.
LEMMA GivesHere ==
    ASSUME TypeInv, CallsInv, PageAdds, \E ids, cbs : Gives(ids, cbs, frames),
           UNCHANGED <<state, called, threw>>
    PROVE  CallsInv'
<1>1. Base(lists, frames)
  BY QuietTop, BaseHere DEF PageAdds
<1>2. PICK rest : rest = frames
  OBVIOUS
<1>3. PICK ids, cbs : Gives(ids, cbs, rest)
  BY <1>2
<1> QED BY <1>1, <1>2, <1>3, TypesOfCalls, GiveCalls

LEMMA PageCalls ==
    ASSUME TypeInv, CallsInv, PageStep
    PROVE  CallsInv'
<1>1. ASSUME NEW d \in Deferreds, NEW k \in Kinds, Add(d, k)
      PROVE  CallsInv'
  BY <1>1, AddGives, GivesHere DEF Add
<1>2. ASSUME NEW d \in Deferreds, Always(d)
      PROVE  CallsInv'
  <2>1. NewFn \in Fns
    BY <1>2, MadeFn DEF Always
  <2>2. PICK f : f = NewFn
    OBVIOUS
  <2>3. AddAll([id \in Outcomes(d) |-> User(f)], frames) /\ Registers(Outcomes(d), f)
    BY <1>2, <2>2 DEF Always
  <2>4. \E ids, cbs : Gives(ids, cbs, frames)
    BY <2>1, <2>2, <2>3, OutcomesGive
  <2> QED BY <1>2, <2>4, GivesHere DEF Always
<1>3. ASSUME NEW d \in Deferreds, NEW t \in Deferreds, ThenCall(d, t)
      PROVE  CallsInv'
  BY <1>3, ThenGives, GivesHere DEF ThenCall
<1>4. ASSUME NEW m \in Deferreds, NEW ds \in SUBSET Deferreds, When(m, ds)
      PROVE  CallsInv'
  BY <1>4, WhenGives, GivesHere DEF When
<1>5. ASSUME NEW p \in Deferreds, ReturnsPromise(p)
      PROVE  CallsInv'
  <2>1. frames # <<>> /\ Top.then \in Deferreds
    BY <1>5, TopFrame DEF ReturnsPromise, On
  <2>2. Base(lists, Below)
    BY <1>5, <2>1, QuietTop, BaseHere DEF ReturnsPromise
  <2>3. PICK rest : rest = Below
    OBVIOUS
  <2>4. PICK ids, cbs : Gives(ids, cbs, rest)
    BY <1>5, <2>1, <2>3, ReturnsPromiseGives
  <2>5. UNCHANGED <<state, called, threw>>
    BY <1>5 DEF ReturnsPromise
  <2> QED BY <2>2, <2>3, <2>4, <2>5, TypesOfCalls, GiveCalls
<1>6. CASE Throw
  <2>1. /\ frames # <<>> /\ frames' = <<>> /\ threw' = TRUE
        /\ UNCHANGED <<lists, state, called, registered>>
    BY <1>6 DEF Throw, On, givenVars
  <2>2. NoneSettles(lists, state)
    BY <1>6, QuietTop, BaseHere DEF Throw, Base
  <2>3. \A id \in Calling : LoopOK(id, lists[id].firing, <<>>, TRUE)
    BY DEF LoopOK
  <2>4. PendingOK(lists, state, <<>>)
    BY <2>2 DEF PendingOK, NoneSettles
  <2> QED BY <2>1, <2>3, <2>4 DEF CallsInv, CallsOK
<1>7. "done" \in Kinds /\ "fail" \in Kinds /\ "complete" \in Kinds /\ Requests \subseteq Deferreds
  BY AjaxAssumption DEF Kinds
<1> QED BY <1>1, <1>2, <1>3, <1>4, <1>5, <1>6, <1>7 DEF PageStep

-----------------------------------------------------------------------------
(* The lists, at the steps of ajax() and done.                             *)

\* done settles the deferred, with what is left of done below the loop.
LEMMA DoneCalls ==
    ASSUME TypeInv, NEW rest, Base(lists, rest), NEW r \in Requests, NEW ok,
           Done(r, ok, rest), UNCHANGED <<state, called, registered, threw>>
    PROVE  CallsInv'
<1>1. PICK ls : ls = lists
  OBVIOUS
<1>2. CASE phase[r] = "done"
  BY <1>1, <1>2, KeepCalls DEF Done, Base
<1>3. CASE phase[r] # "done"
  <2>1. PICK id : id = <<r, IF ok THEN "done" ELSE "fail">>
    OBVIOUS
  <2>2. id \in ListIds
    BY <2>1, AjaxAssumption DEF ListIds, Kinds
  <2>3. PICK f : f = After(r)
    OBVIOUS
  <2>4. f \in AjaxFrames
    BY <2>3, AfterKind DEF AjaxFrames, EndFrames, HookFrames, Hooks
  <2>5. Base(ls, <<f>> \o rest)
    BY <1>1, <2>4, BasePush
  <2>6. FireWith(ls, id, <<f>> \o rest)
    BY <1>1, <1>3, <2>1, <2>3, AfterKind DEF Done
  <2> QED BY <2>2, <2>5, <2>6, TypesOfCalls, FireCalls
<1> QED BY <1>2, <1>3

\* The code of ajax() or done runs on top.
LEMMA AjaxBase ==
    ASSUME TypeInv, CallsInv, On("hook") \/ On("status") \/ On("close")
    PROVE  Base(lists, frames) /\ Base(lists, Below)
BY QuietTop, BaseHere DEF On

\* An action of the page or of the browser that settles.
LEMMA SettlesHere ==
    ASSUME TypeInv, CallsInv, PageRuns, NEW r \in Requests, NEW ok, Done(r, ok, frames),
           UNCHANGED <<state, called, registered, threw>>
    PROVE  CallsInv'
<1>1. Base(lists, frames)
  BY QuietTop, BaseHere DEF PageRuns
<1>2. PICK rest : rest = frames
  OBVIOUS
<1> QED BY <1>1, <1>2, DoneCalls

\* A step that fires nothing, and puts at most one frame in place of what is on top.
LEMMA StaysCalls ==
    ASSUME NEW s, Base(lists, s), frames' = s, UNCHANGED <<lists, state, called, registered>>,
           threw => threw'
    PROVE  CallsInv'
<1>1. PICK ls : ls = lists
  OBVIOUS
<1> QED BY <1>1, KeepCalls DEF Base

LEMMA SwapCalls ==
    ASSUME NEW s, Base(lists, s), NEW f \in AjaxFrames, frames' = <<f>> \o s,
           UNCHANGED <<lists, state, called, registered>>, threw => threw'
    PROVE  CallsInv'
<1>1. PICK ls : ls = lists
  OBVIOUS
<1>2. Base(ls, <<f>> \o s)
  BY <1>1, BasePush
<1> QED BY <1>1, <1>2, KeepCalls DEF Base

\* Hooks, and the frames of done.
LEMMA HookIs ==
    ASSUME NEW r \in Requests, NEW at \in Hooks
    PROVE  HookFrame(r, at) \in AjaxFrames /\ CloseFrame(r) \in AjaxFrames
BY DEF HookFrame, CloseFrame, AjaxFrames, HookFrames, CloseFrames

\* ajax() goes on to its next step, or ends, and fires nothing.
LEMMA AjaxQuiet ==
    ASSUME TypeInv, CallsInv, NEW r \in Requests,
           \/ SettledHandled(r) \/ Uncounts(r) \/ StopHandled(r) \/ Prefiltered(r)
           \/ StartHandled(r) \/ ReadyToSend(r) \/ Sent(r)
    PROVE  CallsInv'
<1>1. On("hook") /\ UNCHANGED <<lists, quietVars, givenVars>>
  BY DEF SettledHandled, Uncounts, StopHandled, Prefiltered, StartHandled, ReadyToSend,
         Sent, AtHook
<1>2. UNCHANGED <<lists, state, called, registered, threw>>
  BY <1>1 DEF quietVars, givenVars
<1>3. PICK s : s = Below
  OBVIOUS
<1>4. Base(lists, s)
  BY <1>1, <1>3, AjaxBase
<1>5. \/ frames' = s \/ frames' = <<CloseFrame(r)>> \o s
      \/ \E at \in Hooks : frames' = <<HookFrame(r, at)>> \o s
  BY <1>3 DEF SettledHandled, Uncounts, StopHandled, Prefiltered, StartHandled,
              ReadyToSend, Sent, Hooks
<1>6. CASE frames' = s
  BY <1>2, <1>4, <1>6, StaysCalls
<1>7. CASE frames' = <<CloseFrame(r)>> \o s
  <2>1. PICK f : f = CloseFrame(r)
    OBVIOUS
  <2>2. f \in AjaxFrames
    BY <2>1 DEF CloseFrame, AjaxFrames, CloseFrames
  <2> QED BY <1>2, <1>4, <1>7, <2>1, <2>2, SwapCalls
<1>8. ASSUME NEW at \in Hooks, frames' = <<HookFrame(r, at)>> \o s
      PROVE  CallsInv'
  <2>1. PICK f : f = HookFrame(r, at)
    OBVIOUS
  <2>2. f \in AjaxFrames
    BY <2>1, HookIs
  <2> QED BY <1>2, <1>4, <1>8, <2>1, <2>2, SwapCalls
<1> QED BY <1>5, <1>6, <1>7, <1>8

\* $.ajax is called.
LEMMA AjaxCallCalls ==
    ASSUME TypeInv, CallsInv, NEW r \in Requests, AjaxCall(r)
    PROVE  CallsInv'
<1>1. PICK s : s = frames
  OBVIOUS
<1>2. Base(lists, s)
  BY <1>1, QuietTop, BaseHere DEF AjaxCall, PageRuns
<1>3. PICK f : f = HookFrame(r, "prefilter")
  OBVIOUS
<1>4. f \in AjaxFrames
  BY <1>3, HookIs DEF Hooks
<1>5. frames' = <<f>> \o s /\ UNCHANGED <<lists, state, called, registered, threw>>
  BY <1>1, <1>3 DEF AjaxCall, quietVars
<1> QED BY <1>2, <1>4, <1>5, SwapCalls

\* statusCode, and an answer whose conversion throws.
LEMMA RestCalls ==
    ASSUME TypeInv, CallsInv, NEW r \in Requests, StatusCode(r) \/ AnswerThrows(r)
    PROVE  CallsInv'
<1>1. PICK s : s = frames
  OBVIOUS
<1>2. Base(lists, s)
  BY <1>1, QuietTop, BaseHere DEF StatusCode, PageAdds, AnswerThrows
<1>3. /\ frames' = s /\ UNCHANGED <<lists, state, called, registered>>
      /\ threw => threw'
  BY <1>1 DEF StatusCode, AnswerThrows, quietVars, givenVars
<1> QED BY <1>2, <1>3, StaysCalls

\* done is called by ajax().
LEMMA NotSentCalls ==
    ASSUME TypeInv, CallsInv, NEW r \in Requests, NotSent(r) \/ SendThrows(r)
    PROVE  CallsInv'
<1>1. PICK rest : rest = Below
  OBVIOUS
<1>2. Base(lists, rest)
  BY <1>1, AjaxBase DEF NotSent, SendThrows, AtHook
<1>3. PICK ok : ok = FALSE
  OBVIOUS
<1>4. Done(r, ok, rest) /\ UNCHANGED <<state, called, registered, threw>>
  BY <1>1, <1>3 DEF NotSent, SendThrows, quietVars, givenVars
<1> QED BY <1>2, <1>4, DoneCalls

\* done is called by the page or by the browser.
LEMMA SettledCalls ==
    ASSUME TypeInv, CallsInv, NEW r \in Requests,
           Abort(r) \/ Timeout(r) \/ (\E ok \in Heard : Answered(r, ok))
    PROVE  CallsInv'
<1>1. PageRuns
  BY DEF Abort, Timeout, Answered, PageRuns
<1>2. PICK ok : Done(r, ok, frames)
  BY DEF Abort, Timeout, Answered, Idle
<1>3. UNCHANGED <<state, called, registered, threw>>
  BY DEF Abort, Timeout, Answered, quietVars, givenVars
<1> QED BY <1>1, <1>2, <1>3, SettlesHere

\* The list complete is fired.
LEMMA CompletesCalls ==
    ASSUME TypeInv, CallsInv, NEW r \in Requests, Completes(r)
    PROVE  CallsInv'
<1>1. PICK ls : ls = lists
  OBVIOUS
<1>2. PICK s : s = Below
  OBVIOUS
<1>3. Base(ls, s)
  BY <1>1, <1>2, AjaxBase DEF Completes
<1>4. PICK f : f = HookFrame(r, "ajaxComplete")
  OBVIOUS
<1>5. f \in AjaxFrames
  BY <1>4, HookIs DEF Hooks
<1>6. PICK rest : rest = IF counted[r] THEN <<f>> \o s ELSE s
  OBVIOUS
<1>7. Base(ls, rest)
  BY <1>3, <1>5, <1>6, BasePush
<1>8. PICK id : id = <<r, "complete">>
  OBVIOUS
<1>9. id \in ListIds
  BY <1>8, AjaxAssumption DEF ListIds, Kinds
<1>10. FireWith(ls, id, rest) /\ UNCHANGED <<state, called, registered, threw>>
  BY <1>1, <1>2, <1>4, <1>6, <1>8 DEF Completes, quietVars, givenVars
<1> QED BY <1>7, <1>9, <1>10, TypesOfCalls, FireCalls

\* done, the second time: the list of the outcome has fired and is not fired again.
LEMMA SendsNothingCalls ==
    ASSUME TypeInv, CallsInv, NEW r \in Requests, SendsNothing(r)
    PROVE  CallsInv'
<1>1. PICK ls : ls = lists
  OBVIOUS
<1>2. PICK s : s = Below
  OBVIOUS
<1>3. Base(ls, s)
  BY <1>1, <1>2, AjaxBase DEF SendsNothing, AtHook
<1>4. PICK f : f = After(r)
  OBVIOUS
<1>5. f \in AjaxFrames
  BY <1>4, AfterKind DEF AjaxFrames, EndFrames, HookFrames, Hooks
<1>6. Base(ls, <<f>> \o s)
  BY <1>3, <1>5, BasePush
<1>7. PICK id : id = <<r, "fail">>
  OBVIOUS
<1>8. id \in ListIds
  BY <1>7, AjaxAssumption DEF ListIds, Kinds
<1>9. FireWith(ls, id, <<f>> \o s) /\ UNCHANGED <<state, called, registered, threw>>
  BY <1>1, <1>2, <1>4, <1>7, AfterKind DEF SendsNothing, quietVars, givenVars
<1> QED BY <1>6, <1>8, <1>9, TypesOfCalls, FireCalls

\* The function of statusCode is added to both lists of the outcome.
LEMMA CallsStatusCalls ==
    ASSUME AjaxInv, CallsInv, NEW r \in Requests, CallsStatus(r)
    PROVE  CallsInv'
<1>1. TypeInv /\ frames # <<>> /\ On("status")
  BY DEF AjaxInv, CallsStatus, On
<1>2. Top = StatusFrame(r) /\ FrameOK(Top)
  BY <1>1, TopFrame, HookTop DEF CallsStatus
<1>3. status[r] # 0
  BY <1>2, FrameKinds DEF FrameOK
<1>4. PICK f : f = status[r]
  OBVIOUS
<1>5. f \in Fns /\ r \in Deferreds
  BY <1>1, <1>3, <1>4, DeferredAssumption, AjaxAssumption DEF TypeInv, AjaxTypes, Fns
<1>6. PICK s : s = Below
  OBVIOUS
<1>7. PICK a : a = SettledFrame(r)
  OBVIOUS
<1>8. a \in AjaxFrames
  BY <1>1, <1>7, AfterKind DEF AjaxFrames, EndFrames, HookFrames, Hooks
<1>9. Base(lists, <<a>> \o s)
  BY <1>1, <1>6, <1>8, AjaxBase, BasePush
<1>10. PICK rest : rest = <<a>> \o s
  OBVIOUS
<1>11. PICK ids, cbs : Gives(ids, cbs, rest)
  <2>1. /\ AddAll([id \in Outcomes(r) |-> User(f)], rest)
        /\ Registers(Outcomes(r), f)
    BY <1>4, <1>6, <1>7, <1>10 DEF CallsStatus
  <2> QED BY <1>5, <2>1, OutcomesGive
<1>12. UNCHANGED <<state, called, threw>>
  BY DEF CallsStatus, quietVars
<1> QED BY <1>1, <1>9, <1>10, <1>11, <1>12, TypesOfCalls, GiveCalls

-----------------------------------------------------------------------------
(* Each list calls its functions once and in order.                        *)

\* No function of the page is in a list that is new.
LEMMA NothingDue ==
    ASSUME NEW fns, fns = <<>> \/ fns = <<SettleEntry>>
    PROVE  Due(fns, 1, <<>>, <<>>)
<1>1. PagesFrom(fns, 1) = {}
  BY DEF PagesFrom, PagesIn, Paged, SettleEntry
<1>2. Cardinality(PagesFrom(fns, 1)) = 0
  BY <1>1, FS_EmptySet
<1> QED BY <1>1, <1>2 DEF Due

LEMMA CallsInvInit == Init => CallsInv
<1> SUFFICES ASSUME Init PROVE CallsInv
  OBVIOUS
<1>1. /\ frames = <<>> /\ threw = FALSE
      /\ lists = [id \in ListIds |-> NewList(id[2])]
      /\ state = [d \in Deferreds |-> "pending"]
      /\ registered = [id \in ListIds |-> <<>>] /\ called = [id \in ListIds |-> <<>>]
  BY DEF Init, DeferredInit
<1>2. ASSUME NEW id \in ListIds
      PROVE  GoodList(id, lists[id], state[id[1]], called[id], registered[id])
             /\ lists[id].fired = FALSE /\ lists[id].firing = FALSE
  <2>1. PICK l : l = NewList(id[2])
    OBVIOUS
  <2>2. /\ l.on = TRUE /\ l.open = (id[2] = "progress") /\ l.memory = FALSE
        /\ l.fired = FALSE /\ l.firing = FALSE /\ l.next = 1 /\ l.length = 0 /\ l.queued = 0
        /\ l.fns = IF id[2] \in {"done", "fail"} THEN <<SettleEntry>> ELSE <<>>
    BY <2>1 DEF NewList
  <2>3. lists[id] = l /\ called[id] = <<>> /\ registered[id] = <<>> /\ state[id[1]] = "pending"
    BY <1>1, <2>1 DEF ListIds
  <2>4. id \in Calling => ListInv(l, <<>>, <<>>)
    <3>1. id \in Calling => id[2] # "progress"
      BY DEF Calling
    <3>2. Due(l.fns, 1, <<>>, <<>>)
      BY <2>2, NothingDue
    <3>3. Len(<<>>) <= Len(<<>>) /\ \A i \in 1 .. Len(<<>>) : <<>>[i] = <<>>[i]
      OBVIOUS
    <3>4. id \in Calling => ~l.open /\ l.queued = 0
      BY <2>2, <3>1
    <3>5. l.memory = l.fired /\ l.on /\ ~l.fired /\ ~l.firing /\ l.next = 1 /\ l.length = 0
      BY <2>2
    <3>6. Due(l.fns, l.next, <<>>, <<>>)
      BY <3>2, <3>5
    <3> QED BY <3>3, <3>4, <3>5, <3>6 DEF ListInv
  <2>5. id \in Settling => SettlingInv(l, "pending", Outcome(id[2]), <<>>)
    <3>1. id \in Settling => l.fns = <<SettleEntry>>
      BY <2>2 DEF Settling
    <3>2. Outcome(id[2]) # "pending"
      BY DEF Outcome
    <3>3. /\ DOMAIN <<SettleEntry>> = {1} /\ <<SettleEntry>> # <<>>
          /\ <<SettleEntry>>[1].kind = "settle"
      BY DEF SettleEntry
    <3>4. \A p \in DOMAIN <<SettleEntry>> : <<SettleEntry>>[p].kind = "settle" <=> p = 1
      BY <3>3
    <3> HIDE DEF SettleEntry
    <3> QED BY <2>2, <3>1, <3>2, <3>3, <3>4 DEF SettlingInv
  <2>6. id \notin Settling => l.fns = <<>>
    BY <2>2 DEF Settling, ListIds
  <2> QED BY <2>2, <2>3, <2>4, <2>5, <2>6 DEF GoodList
<1>3. \A id \in Calling : LoopOK(id, lists[id].firing, frames, threw)
  <2> TAKE id \in Calling
  <2>1. id \in ListIds
    BY DEF Calling, ListIds, Kinds
  <2>2. lists[id].firing = FALSE
    BY <1>2, <2>1
  <2>3. frames = <<>> /\ DOMAIN <<>> = {}
    BY <1>1
  <2> QED BY <2>2, <2>3 DEF LoopOK
<1>4. PendingOK(lists, state, frames)
  BY <1>2 DEF Settling, ListIds, Kinds, PendingOK
<1> QED BY <1>2, <1>3, <1>4 DEF CallsInv, CallsOK

\* Every step.
LEMMA CallsInvStep == AjaxInv /\ CallsInv /\ [Next]_vars => CallsInv'
<1> SUFFICES ASSUME AjaxInv, CallsInv, [Next]_vars PROVE CallsInv'
  OBVIOUS
<1>1. TypeInv
  BY DEF AjaxInv
<1>2. ASSUME DeferredStep
      PROVE  CallsInv'
  BY <1>1, <1>2, SettlesCalls, CallsCalls, CountsCalls, ForwardsCalls, PassEndsCalls,
     ReturnsCalls DEF DeferredStep
<1>3. ASSUME PageStep
      PROVE  CallsInv'
  BY <1>1, <1>3, PageCalls
<1>4. ASSUME AjaxStep
      PROVE  CallsInv'
  BY <1>1, <1>4, CallsStatusCalls, AjaxQuiet, CompletesCalls, NotSentCalls,
     SendsNothingCalls DEF AjaxStep
<1>5. ASSUME NEW r \in Requests, AjaxCall(r) \/ Abort(r) \/ Timeout(r) \/ StatusCode(r)
      PROVE  CallsInv'
  BY <1>1, <1>5, AjaxCallCalls, SettledCalls, RestCalls
<1>6. ASSUME NEW r \in Requests, NEW ok \in Heard, Answered(r, ok)
      PROVE  CallsInv'
  BY <1>1, <1>6, SettledCalls
<1>7. ASSUME NEW r \in Requests, AnswerThrows(r)
      PROVE  CallsInv'
  BY <1>1, <1>7, RestCalls
<1>8. ASSUME UNCHANGED vars
      PROVE  CallsInv'
  BY <1>8 DEF vars, deferredVars, givenVars, CallsInv, CallsOK
<1> QED BY <1>2, <1>3, <1>4, <1>5, <1>6, <1>7, <1>8 DEF Next

\* Callbacks and deferreds keep their invariant.
THEOREM CallsInvariant == Spec => []CallsInv
<1>1. Init => AjaxInv /\ CallsInv
  BY AjaxInvInit, CallsInvInit
<1>2. AjaxInv /\ CallsInv /\ [Next]_vars => AjaxInv' /\ CallsInv'
  BY AjaxInvStep, CallsInvStep
<1> QED BY <1>1, <1>2, PTL DEF Spec

\* Whatever callbacks add, settle and abort while lists fire: a list calls its
\* functions once each and in the order they were given, only the list of the
\* outcome calls any, and with nothing running and nothing thrown none is left out
\* (:3084-3101, :3247-3262).
THEOREM FunctionsCalledInOrder == Spec => []CalledOnceInOrder
<1>1. ASSUME TypeInv, CallsInv, NEW d \in Deferreds, NEW k \in {"done", "fail", "complete"}
      PROVE  LET id == <<d, k>>
             IN  /\ called[id] = <<>> \/ (IsPrefix(called[id], registered[id]) /\ Kept(id))
                 /\ Idle /\ ~threw /\ Kept(id) => called[id] = registered[id]
  <2>1. PICK id : id = <<d, k>>
    OBVIOUS
  <2>2. id \in Calling /\ id \in ListIds /\ id[1] = d /\ id[2] = k
    BY <2>1 DEF Calling, ListIds, Kinds
  <2>3. PICK l \in List : l = lists[id]
    BY <1>1, <2>2 DEF TypeInv, ListsOK
  <2>4. PICK ca \in Seq(Fns) : ca = called[id]
    BY <1>1, <2>2 DEF TypeInv, DeferredTypes
  <2>5. PICK re \in Seq(Fns) : re = registered[id]
    BY <1>1, <2>2 DEF TypeInv, DeferredTypes
  <2>6. ListInv(l, ca, re)
    BY <1>1, <2>2, <2>3, <2>4, <2>5 DEF CallsInv, CallsOK, GoodList
  <2>7. id \in Settling => SettlingInv(l, state[d], Outcome(k), ca)
    BY <1>1, <2>2, <2>3, <2>4 DEF CallsInv, CallsOK, GoodList
  <2>8. l.fired \in BOOLEAN /\ l.on \in BOOLEAN
    BY ListFields
  <2>9. k # "complete" => id \in Settling
    BY <2>1 DEF Settling
  <2>10. Kept(id) <=> IF k = "complete" THEN l.fired ELSE state[d] = Outcome(k)
    BY <2>2, <2>3 DEF Kept, Outcome
  <2>11. l.fired => ca = <<>> \/ Kept(id)
    BY <2>6, <2>7, <2>9, <2>10 DEF ListInv, SettlingInv
  <2>12. Kept(id) => l.fired /\ l.on
    BY <2>6, <2>7, <2>9, <2>10 DEF ListInv, SettlingInv, Outcome
  <2>13. IsPrefix(ca, re)
    BY <2>6 DEF ListInv, IsPrefix
  <2>14. ca = <<>> \/ (IsPrefix(ca, re) /\ Kept(id))
    BY <2>6, <2>11, <2>13 DEF ListInv
  <2>15. ASSUME Idle, ~threw, Kept(id)
         PROVE  ca = re
    <3>1. frames = <<>> /\ DOMAIN frames = {}
      BY <2>15 DEF Idle
    <3>2. ~l.firing
      BY <1>1, <2>2, <2>3, <2>15, <3>1 DEF CallsInv, CallsOK, LoopOK
    <3>3. l.fns = <<>> /\ l.next = 1 /\ Due(l.fns, l.next, ca, re)
      BY <2>6, <2>12, <2>15, <3>2 DEF ListInv
    <3>4. PagesFrom(<<>>, 1) = {}
      BY DEF PagesFrom, PagesIn
    <3>5. Cardinality(PagesFrom(<<>>, 1)) = 0
      BY <3>4, FS_EmptySet
    <3>6. Len(re) = Len(ca)
      BY <3>3, <3>5 DEF Due
    <3> QED BY <2>6, <3>6 DEF ListInv
  <2> QED BY <2>1, <2>4, <2>5, <2>14, <2>15
<1>2. AjaxInv /\ CallsInv => CalledOnceInOrder
  BY <1>1 DEF AjaxInv, CalledOnceInOrder
<1> QED BY <1>2, RequestsInvariant, CallsInvariant, PTL

-----------------------------------------------------------------------------
(* What comes after the outcome.                                           *)

\* No function of jQuery settles a request from the list of another deferred.
EntryAside(e) ==
    /\ e.kind = "forward" => e.to[1] \notin Requests
    /\ e.kind = "count" => e.of \notin Requests
    /\ e.kind = "then" => e.to \notin Requests

Aside(ls) == \A id \in ListIds : \A p \in DOMAIN ls[id].fns : EntryAside(ls[id].fns[p])

\* The frames of done from the settlement up to complete, and all that may lead there.
SettledFrames == [code : {"hook"}, at : {"ajaxSettled"}, request : Requests]
Late == StatusFrames \cup CloseFrames \cup SettledFrames
Waits == SetupFrames \cup Late

\* The loops over the lists of the outcome.
Loops(r) == {FireFrame(id) : id \in Outcomes(r)}

FrameGood(ls, ph, f) ==
    /\ f \in CallFrames => f.then \notin Requests
    /\ f \in Late \/ (f \in SetupFrames /\ ph[f.request] = "done")
          => \E id \in Outcomes(f.request) : ls[id].fired

\* No list of the outcome fires below these frames, and the later have seen one fire.
StackGood(ls, ph, s) ==
    \A i \in DOMAIN s :
        /\ FrameGood(ls, ph, s[i])
        /\ s[i] \in Waits => \A j \in DOMAIN s : i < j => s[j] \notin Loops(s[i].request)

\* Only done fires them.
Unheard(ls, ph) ==
    \A r \in Requests : ph[r] # "done" => \A id \in Outcomes(r) : ~ls[id].fired

OutcomeInv == Aside(lists) /\ StackGood(lists, phase, frames) /\ Unheard(lists, phase)

\* No list complete starts.
CompleteKept ==
    \A r \in Requests : lists'[<<r, "complete">>].fired => lists[<<r, "complete">>].fired

\* A frame of ajax() or done is put on the stack, or any frame that waits for nothing.
LEMMA GoodPush ==
    ASSUME NEW ls, NEW ph, NEW s \in Seq(Frames), StackGood(ls, ph, s), NEW f \in Frames,
           FrameGood(ls, ph, f), f \in Waits => \A j \in DOMAIN s : s[j] \notin Loops(f.request)
    PROVE  StackGood(ls, ph, <<f>> \o s) /\ <<f>> \o s \in Seq(Frames)
<1>1. <<f>> \o s \in Seq(Frames)
  OBVIOUS
<1>2. PICK t \in Seq(Frames) : t = <<f>> \o s
  BY <1>1
<1>3. /\ \A i \in DOMAIN t : /\ i \in Int /\ i >= 1
                             /\ i = 1 => t[i] = f
                             /\ i # 1 => i - 1 \in DOMAIN s /\ t[i] = s[i - 1]
  BY <1>2
<1>4. ASSUME NEW i \in DOMAIN t
      PROVE  /\ FrameGood(ls, ph, t[i])
             /\ t[i] \in Waits => \A j \in DOMAIN t : i < j => t[j] \notin Loops(t[i].request)
  <2>1. CASE i = 1
    BY <1>3, <2>1
  <2>2. CASE i # 1
    BY <1>3, <2>2 DEF StackGood
  <2> QED BY <2>1, <2>2
<1> QED BY <1>1, <1>2, <1>4 DEF StackGood

\* The top is taken off.
LEMMA GoodPop ==
    ASSUME NEW ls, NEW ph, NEW s \in Seq(Frames), s # <<>>, StackGood(ls, ph, s)
    PROVE  /\ StackGood(ls, ph, Tail(s)) /\ FrameGood(ls, ph, Head(s))
           /\ Head(s) \in Waits =>
                 \A j \in DOMAIN Tail(s) : Tail(s)[j] \notin Loops(Head(s).request)
<1>1. PICK t : t = Tail(s)
  OBVIOUS
<1>2. 1 \in DOMAIN s /\ s[1] = Head(s)
  OBVIOUS
<1>3. \A i \in DOMAIN t : i \in Int /\ i >= 1 /\ i + 1 \in DOMAIN s /\ t[i] = s[i + 1]
  BY <1>1
<1>4. ASSUME NEW i \in DOMAIN t
      PROVE  /\ FrameGood(ls, ph, t[i])
             /\ t[i] \in Waits => \A j \in DOMAIN t : i < j => t[j] \notin Loops(t[i].request)
  BY <1>3 DEF StackGood
<1>5. StackGood(ls, ph, t)
  BY <1>4 DEF StackGood
<1>6. ASSUME s[1] \in Waits, NEW j \in DOMAIN t
      PROVE  t[j] \notin Loops(s[1].request)
  BY <1>2, <1>3, <1>6 DEF StackGood
<1>7. FrameGood(ls, ph, s[1])
  BY <1>2 DEF StackGood
<1> QED BY <1>1, <1>2, <1>5, <1>6, <1>7

\* Loops are put on the stack.
LEMMA GoodLoops ==
    ASSUME NEW ls, NEW ph, NEW s \in Seq(Frames), StackGood(ls, ph, s),
           NEW p \in Seq(FireFrames)
    PROVE  StackGood(ls, ph, p \o s)
<1>1. PICK t : t = p \o s
  OBVIOUS
<1>2. /\ Len(p) \in Nat
      /\ \A i \in DOMAIN t : /\ i \in Int
                             /\ i <= Len(p) => t[i] \in FireFrames
                             /\ i > Len(p) => i - Len(p) \in DOMAIN s /\ t[i] = s[i - Len(p)]
  BY <1>1
<1>3. \A f \in FireFrames : f \notin Waits /\ f \notin CallFrames
  BY DEF FireFrames, CallFrames, Waits, Late, SetupFrames, StatusFrames, CloseFrames,
         SettledFrames
<1>4. ASSUME NEW i \in DOMAIN t
      PROVE  /\ FrameGood(ls, ph, t[i])
             /\ t[i] \in Waits => \A j \in DOMAIN t : i < j => t[j] \notin Loops(t[i].request)
  BY <1>2, <1>3 DEF FrameGood, Waits, StackGood
<1> QED BY <1>1, <1>4 DEF StackGood

\* Lists that have fired, and requests that are done, stay so.
LEMMA GoodMono ==
    ASSUME NEW ls, NEW ph, NEW s \in Seq(Frames), StackGood(ls, ph, s), NEW lt, NEW pt,
           \A r \in Requests : \A id \in Outcomes(r) : ls[id].fired => lt[id].fired,
           \A r \in Requests : pt[r] = "done" => \/ ph[r] = "done"
                                                 \/ \E id \in Outcomes(r) : lt[id].fired
    PROVE  StackGood(lt, pt, s)
<1>1. \A f \in SetupFrames \cup Late : f.request \in Requests
  BY DEF Late, SetupFrames, StatusFrames, CloseFrames, SettledFrames
<1>2. ASSUME NEW i \in DOMAIN s
      PROVE  FrameGood(lt, pt, s[i])
  <2>1. PICK f : f = s[i]
    OBVIOUS
  <2>2. FrameGood(ls, ph, f)
    BY <2>1 DEF StackGood
  <2>3. FrameGood(lt, pt, f)
    BY <1>1, <2>2 DEF FrameGood
  <2> QED BY <2>1, <2>3
<1> QED BY <1>2 DEF StackGood

\* fireWith changes no entry, and starts at most the list it is called on.
LEMMA FireFields ==
    ASSUME NEW ls, ListsOK(ls), NEW id \in ListIds, NEW rest, FireWith(ls, id, rest)
    PROVE  /\ \A q \in ListIds : /\ lists'[q].fns = ls[q].fns
                                 /\ q # id => lists'[q].fired = ls[q].fired
                                 /\ ls[q].fired => lists'[q].fired
           /\ frames' = rest \/ frames' = <<FireFrame(id)>> \o rest
<1>1. PICK l \in List : l = ls[id] /\ ls \in [ListIds -> List]
  BY DEF ListsOK
<1>2. CASE ~l.on \/ (l.fired /\ ~l.open)
  BY <1>1, <1>2 DEF FireWith
<1>3. CASE ~(~l.on \/ (l.fired /\ ~l.open)) /\ l.firing
  <2>1. PICK m : m = [l EXCEPT !.queued = @ + 1]
    OBVIOUS
  <2>2. lists' = [ls EXCEPT ![id] = m] /\ frames' = rest
    BY <1>1, <1>3, <2>1 DEF FireWith
  <2>3. m.fns = l.fns /\ m.fired = l.fired
    BY <2>1, ListFields
  <2>4. lists'[id] = m /\ \A q \in ListIds : q # id => lists'[q] = ls[q]
    BY <1>1, <2>2
  <2> QED BY <1>1, <2>2, <2>3, <2>4
<1>4. CASE ~(~l.on \/ (l.fired /\ ~l.open)) /\ ~l.firing
  <2>1. PICK m : m = [l EXCEPT !.memory = TRUE, !.fired = TRUE, !.firing = TRUE, !.next = 1,
                               !.length = Len(l.fns)]
    OBVIOUS
  <2>2. lists' = [ls EXCEPT ![id] = m] /\ frames' = <<FireFrame(id)>> \o rest
    BY <1>1, <1>4, <2>1 DEF FireWith, Started
  <2>3. m.fns = l.fns /\ m.fired = TRUE
    BY <2>1, ListFields
  <2>4. lists'[id] = m /\ \A q \in ListIds : q # id => lists'[q] = ls[q]
    BY <1>1, <2>2
  <2> QED BY <1>1, <2>2, <2>3, <2>4
<1> QED BY <1>2, <1>3, <1>4

\* The lists of requests.
LEMMA OutcomeIds ==
    ASSUME NEW r \in Requests
    PROVE  /\ r \in Deferreds /\ Outcomes(r) \subseteq ListIds /\ Outcomes(r) \subseteq Calling
           /\ \A id \in Outcomes(r) : id[1] = r
           /\ <<r, "complete">> \in ListIds /\ <<r, "complete">> \in Calling
           /\ <<r, "complete">> \notin Outcomes(r)
<1>1. r \in Deferreds
  BY AjaxAssumption
<1> QED BY <1>1 DEF Outcomes, ListIds, Kinds, Calling

\* fireWith on a list that is no request's, or of one that is done.
LEMMA FireGood ==
    ASSUME NEW ls, ListsOK(ls), Aside(ls), Unheard(ls, phase), NEW id \in ListIds,
           id[1] \in Requests => phase[id[1]] = "done" \/ id[2] = "complete",
           NEW rest \in Seq(Frames), StackGood(ls, phase, rest), FireWith(ls, id, rest),
           UNCHANGED phase
    PROVE  OutcomeInv' /\ \A q \in ListIds : q # id /\ lists'[q].fired => ls[q].fired
<1>1. /\ \A q \in ListIds : /\ lists'[q].fns = ls[q].fns
                            /\ q # id => lists'[q].fired = ls[q].fired
                            /\ ls[q].fired => lists'[q].fired
      /\ frames' = rest \/ frames' = <<FireFrame(id)>> \o rest
  BY FireFields
<1>2. Aside(lists')
  BY <1>1 DEF Aside
<1>3. Unheard(lists', phase)
  <2> SUFFICES ASSUME NEW r \in Requests, phase[r] # "done", NEW q \in Outcomes(r)
               PROVE  ~lists'[q].fired
    BY DEF Unheard
  <2>1. q \in ListIds /\ q[1] = r /\ ~ls[q].fired /\ q[2] # "complete"
    <3>1. q \in ListIds /\ q[1] = r
      BY OutcomeIds
    <3>2. ~ls[q].fired
      BY DEF Unheard
    <3>3. q[2] # "complete"
      BY DEF Outcomes
    <3> QED BY <3>1, <3>2, <3>3
  <2>2. q # id
    BY <2>1
  <2> QED BY <1>1, <2>1, <2>2
<1>4. StackGood(lists', phase, rest)
  <2>1. \A r \in Requests : \A q \in Outcomes(r) : ls[q].fired => lists'[q].fired
    BY <1>1, OutcomeIds
  <2>2. PICK lt : lt = lists'
    OBVIOUS
  <2>3. \A r \in Requests : \A q \in Outcomes(r) : ls[q].fired => lt[q].fired
    BY <2>1, <2>2
  <2>4. StackGood(lt, phase, rest)
    BY <2>3, GoodMono
  <2> QED BY <2>2, <2>4
<1>5. StackGood(lists', phase, <<FireFrame(id)>> \o rest)
  <2>1. <<FireFrame(id)>> \in Seq(FireFrames)
    BY DEF FireFrame, FireFrames
  <2>2. PICK lt : lt = lists'
    OBVIOUS
  <2>3. StackGood(lt, phase, <<FireFrame(id)>> \o rest)
    BY <1>4, <2>1, <2>2, GoodLoops
  <2> QED BY <2>2, <2>3
<1>6. OutcomeInv'
  BY <1>1, <1>2, <1>3, <1>4, <1>5 DEF OutcomeInv
<1> QED BY <1>1, <1>6

\* add, to some lists.
LEMMA AddGood ==
    ASSUME TypeInv, CallsInv, OutcomeInv, NEW rest \in Seq(Frames),
           StackGood(lists, phase, rest), NEW ids \in SUBSET ListIds, IsFiniteSet(ids),
           NEW cbs \in [ids -> {e \in Entry : EntryAside(e)}], AddAll(cbs, rest),
           UNCHANGED phase
    PROVE  OutcomeInv' /\ CompleteKept
<1>1. DOMAIN cbs = ids
  OBVIOUS
<1>2. lists' = [id \in ListIds |-> IF id \in ids THEN Added(lists[id], cbs[id]) ELSE lists[id]]
  BY <1>1 DEF AddAll
<1>3. ASSUME NEW id \in ListIds
      PROVE  /\ \A p \in DOMAIN lists'[id].fns : EntryAside(lists'[id].fns[p])
             /\ id \in Calling => lists'[id].fired = lists[id].fired
  <2>1. PICK l \in List : l = lists[id]
    BY DEF TypeInv, ListsOK
  <2>2. \A p \in DOMAIN l.fns : EntryAside(l.fns[p])
    BY <2>1 DEF OutcomeInv, Aside
  <2>3. CASE id \notin ids
    BY <1>2, <2>1, <2>2, <2>3
  <2>4. CASE id \in ids
    <3>1. PICK e \in {x \in Entry : EntryAside(x)} : e = cbs[id]
      BY <2>4
    <3>2. PICK m : m = Added(l, e)
      OBVIOUS
    <3>3. lists'[id] = m
      BY <1>2, <2>1, <2>4, <3>1, <3>2
    <3>4. /\ ~l.on => m = l
          /\ l.on => m.fns = Append(l.fns, e)
          /\ l.on /\ (l.firing \/ ~l.memory) => m.fired = l.fired
          /\ l.on /\ ~l.firing /\ l.memory => m.fired = TRUE
      BY <3>2, AddedFields
    <3>5. \A p \in DOMAIN m.fns : EntryAside(m.fns[p])
      <4>1. CASE ~l.on
        BY <2>2, <3>4, <4>1
      <4>2. CASE l.on
        <5>1. m.fns = Append(l.fns, e) /\ l.fns \in Seq(Entry) /\ EntryAside(e)
          BY <3>1, <3>4, <4>2, ListFields
        <5>2. PICK fns \in Seq(Entry) : fns = l.fns
          BY <5>1
        <5>3. \A p \in DOMAIN Append(fns, e) : \/ p \in DOMAIN fns /\ Append(fns, e)[p] = fns[p]
                                               \/ Append(fns, e)[p] = e
          BY <3>1
        <5> QED BY <2>2, <5>1, <5>2, <5>3
      <4> QED BY <4>1, <4>2
    <3>6. ASSUME id \in Calling
          PROVE  m.fired = l.fired
      BY <2>1, <3>4, <3>6, ListFields DEF CallsInv, CallsOK, GoodList, ListInv
    <3> QED BY <2>1, <3>3, <3>5, <3>6
  <2> QED BY <2>3, <2>4
<1>4. Aside(lists')
  BY <1>3 DEF Aside
<1>5. Unheard(lists', phase)
  BY <1>3, OutcomeIds DEF OutcomeInv, Unheard
<1>6. CompleteKept
  BY <1>3, OutcomeIds DEF CompleteKept
<1>7. PICK lt : lt = lists'
  OBVIOUS
<1>8. StackGood(lt, phase, rest)
  <2>1. \A r \in Requests : \A q \in Outcomes(r) : lists[q].fired => lt[q].fired
    BY <1>3, <1>7, OutcomeIds
  <2>2. PICK ls : ls = lists
    OBVIOUS
  <2> QED BY <2>1, <2>2, GoodMono
<1>9. PICK ps : ps = Passes(cbs)
  OBVIOUS
<1>10. ps \in SUBSET ListIds /\ IsFiniteSet(ps)
  BY <1>1, <1>9, FS_Subset DEF Passes
<1>11. PICK p : /\ p = SetToSeq({FireFrame(id) : id \in ps})
                /\ frames' = p \o rest
  BY <1>9 DEF AddAll, Passes
<1>12. p \in Seq(FireFrames)
  BY <1>10, <1>11, PassFrames
<1>13. StackGood(lt, phase, p \o rest)
  BY <1>8, <1>12, GoodLoops
<1> QED BY <1>4, <1>5, <1>6, <1>7, <1>11, <1>13 DEF OutcomeInv

\* A step that fires no list, and adds nothing to one.
LEMMA SameGood ==
    ASSUME OutcomeInv, NEW s \in Seq(Frames), StackGood(lists, phase, s), frames' = s,
           UNCHANGED phase,
           \A q \in ListIds : /\ lists'[q].fns = lists[q].fns \/ lists'[q].fns = <<>>
                              /\ q \in Calling => lists'[q].fired = lists[q].fired
    PROVE  OutcomeInv' /\ CompleteKept
<1>1. Aside(lists')
  <2> SUFFICES ASSUME NEW q \in ListIds
               PROVE  \A p \in DOMAIN lists'[q].fns : EntryAside(lists'[q].fns[p])
    BY DEF Aside
  <2>1. CASE lists'[q].fns = lists[q].fns
    BY <2>1 DEF OutcomeInv, Aside
  <2>2. CASE lists'[q].fns = <<>>
    BY <2>2
  <2> QED BY <2>1, <2>2
<1>2. \A r \in Requests : \A q \in Outcomes(r) : lists'[q].fired = lists[q].fired
  BY OutcomeIds
<1>3. Unheard(lists', phase)
  BY <1>2 DEF OutcomeInv, Unheard
<1>4. CompleteKept
  BY OutcomeIds DEF CompleteKept
<1>5. PICK lt, ls : lt = lists' /\ ls = lists
  OBVIOUS
<1>6. StackGood(lt, phase, s)
  <2>1. \A r \in Requests : \A q \in Outcomes(r) : ls[q].fired => lt[q].fired
    BY <1>2, <1>5
  <2>2. StackGood(ls, phase, s)
    BY <1>5
  <2> HIDE <1>1, <1>2, <1>3, <1>4, <1>5
  <2> QED BY <2>1, <2>2, GoodMono
<1> QED BY <1>1, <1>3, <1>4, <1>5, <1>6 DEF OutcomeInv

\* What the top frame tells, and what runs below it.
LEMMA GoodBelow ==
    ASSUME TypeInv, OutcomeInv, frames # <<>>
    PROVE  /\ Below \in Seq(Frames) /\ StackGood(lists, phase, Below)
           /\ FrameGood(lists, phase, Top)
           /\ Top \in Waits => \A j \in DOMAIN Below : Below[j] \notin Loops(Top.request)
<1>1. PICK s \in Seq(Frames) : s = frames
  BY DEF TypeInv
<1>2. PICK ls, ph : ls = lists /\ ph = phase
  OBVIOUS
<1>3. s # <<>> /\ StackGood(ls, ph, s)
  BY <1>1, <1>2 DEF OutcomeInv
<1>4. /\ StackGood(ls, ph, Tail(s)) /\ FrameGood(ls, ph, Head(s))
      /\ Head(s) \in Waits => \A j \in DOMAIN Tail(s) : Tail(s)[j] \notin Loops(Head(s).request)
  BY <1>3, GoodPop
<1> QED BY <1>1, <1>2, <1>3, <1>4 DEF Top, Below

\* The loop goes past an entry.
LEMMA SteppedSame ==
    ASSUME TypeInv, CallsInv, On("fire"), HasNext
    PROVE  /\ ListsOK(Stepped)
           /\ \A q \in ListIds : /\ Stepped[q].fns = lists[q].fns
                                 /\ Stepped[q].fired = lists[q].fired
<1>1. PICK id : id = Firing
  OBVIOUS
<1>2. PICK l : l = lists[id]
  OBVIOUS
<1>3. PICK m : m = [l EXCEPT !.next = @ + 1]
  OBVIOUS
<1>4. /\ id \in ListIds /\ l \in List /\ ListOK(l) /\ l.on /\ l.next <= l.length
      /\ Stepped[id] = m /\ ListsOK(Stepped)
      /\ \A q \in ListIds : q # id => Stepped[q] = lists[q]
  BY <1>1, <1>2, <1>3, StepsOver
<1>5. m.fns = l.fns /\ m.fired = l.fired
  BY <1>3, <1>4, NextFields
<1> QED BY <1>2, <1>4, <1>5

\* The entry that is next.
LEMMA NextAside ==
    ASSUME TypeInv, CallsInv, OutcomeInv, On("fire"), HasNext
    PROVE  EntryAside(NextEntry) /\ NextEntry \in Entry /\ Firing \in ListIds
<1>1. PICK l : l = lists[Firing]
  OBVIOUS
<1>2. /\ Firing \in ListIds /\ l \in List /\ ListOK(l) /\ l.on /\ l.next <= l.length
      /\ NextEntry = l.fns[l.next] /\ NextEntry \in Entry
  BY <1>1, StepsOver
<1>3. l.next \in DOMAIN l.fns
  <2>1. PICK m : m = [l EXCEPT !.next = @ + 1]
    OBVIOUS
  <2> QED BY <1>2, <2>1, NextFields
<1> QED BY <1>1, <1>2, <1>3 DEF OutcomeInv, Aside

LEMMA SettlesGood ==
    ASSUME TypeInv, CallsInv, OutcomeInv, Settles, UNCHANGED phase
    PROVE  OutcomeInv' /\ CompleteKept
<1>1. ListsOK(Stepped)
      /\ \A q \in ListIds : Stepped[q].fns = lists[q].fns /\ Stepped[q].fired = lists[q].fired
  BY SteppedSame DEF Settles
<1>2. PICK other, prog : /\ other = <<Firing[1], IF Firing[2] = "done" THEN "fail" ELSE "done">>
                         /\ prog = <<Firing[1], "progress">>
  OBVIOUS
<1>3. PICK ls : ls = Stepped
  OBVIOUS
<1>4. lists' = [[ls EXCEPT ![other] = Disabled(@)] EXCEPT ![prog] = Locked(@)]
  BY <1>2, <1>3 DEF Settles
<1>5. other # prog
  BY <1>2
<1>6. ls \in [ListIds -> List]
  BY <1>1, <1>3 DEF ListsOK
<1>7. ASSUME NEW q \in ListIds
      PROVE  lists'[q] \in {ls[q], Disabled(ls[q]), Locked(ls[q])}
  BY <1>4, <1>5, <1>6
<1>8. ASSUME NEW l \in List, NEW m \in {l, Disabled(l), Locked(l)}
      PROVE  (m.fns = l.fns \/ m.fns = <<>>) /\ m.fired = l.fired
  BY ListFields DEF Disabled, Locked
<1>9. \A q \in ListIds : /\ lists'[q].fns = lists[q].fns \/ lists'[q].fns = <<>>
                         /\ lists'[q].fired = lists[q].fired
  <2> TAKE q \in ListIds
  <2>1. PICK l \in List : l = ls[q]
    BY <1>6
  <2>2. PICK m \in {l, Disabled(l), Locked(l)} : m = lists'[q]
    BY <1>7, <2>1
  <2>3. (m.fns = l.fns \/ m.fns = <<>>) /\ m.fired = l.fired
    BY <1>8
  <2> QED BY <1>1, <1>3, <2>1, <2>2, <2>3
<1>10. PICK s \in Seq(Frames) : s = frames
  BY DEF TypeInv
<1>11. frames' = s /\ StackGood(lists, phase, s)
  BY <1>10 DEF Settles, OutcomeInv
<1> QED BY <1>9, <1>11, SameGood

LEMMA CallsGood ==
    ASSUME TypeInv, CallsInv, OutcomeInv, Calls, UNCHANGED phase
    PROVE  OutcomeInv' /\ CompleteKept
<1>1. \A q \in ListIds : Stepped[q].fns = lists[q].fns /\ Stepped[q].fired = lists[q].fired
  BY SteppedSame DEF Calls
<1>2. EntryAside(NextEntry) /\ NextEntry \in Entry /\ Firing \in ListIds
  BY NextAside DEF Calls
<1>3. PICK t : t = IF NextEntry.kind = "then" THEN NextEntry.to ELSE NoDeferred
  OBVIOUS
<1>4. t \in Deferreds \cup {NoDeferred} /\ t \notin Requests
  BY <1>2, <1>3, DeferredAssumption, AjaxAssumption DEF EntryAside, Entry, SettleEntry
<1>5. PICK c : c = CallFrame(Firing, t)
  OBVIOUS
<1>6. c \in CallFrames /\ c.then = t /\ c \in Frames
  BY <1>2, <1>4, <1>5 DEF CallFrame, CallFrames, Frames, PlainFrames
<1>7. c \notin Waits
  BY <1>6 DEF CallFrames, Waits, Late, SetupFrames, StatusFrames, CloseFrames, SettledFrames
<1>8. PICK s \in Seq(Frames) : s = frames
  BY DEF TypeInv
<1>9. FrameGood(lists, phase, c)
  BY <1>4, <1>6, <1>7 DEF FrameGood, Waits
<1>10. PICK ls, ph : ls = lists /\ ph = phase
  OBVIOUS
<1>11. StackGood(ls, ph, <<c>> \o s) /\ <<c>> \o s \in Seq(Frames)
  BY <1>6, <1>7, <1>8, <1>9, <1>10, GoodPush DEF OutcomeInv
<1>12. lists' = Stepped /\ frames' = <<c>> \o s
  BY <1>3, <1>5, <1>8 DEF Calls
<1> QED BY <1>1, <1>10, <1>11, <1>12, SameGood

\* A list of another deferred than a request is fired from lists like ours.
LEMMA FiredGood ==
    ASSUME OutcomeInv, NEW ls, ListsOK(ls),
           \A q \in ListIds : ls[q].fns = lists[q].fns /\ ls[q].fired = lists[q].fired,
           NEW id \in ListIds, id[1] \notin Requests, NEW s \in Seq(Frames),
           StackGood(lists, phase, s), FireWith(ls, id, s), UNCHANGED phase
    PROVE  OutcomeInv' /\ CompleteKept
<1>1. Aside(ls)
  BY DEF OutcomeInv, Aside
<1>2. Unheard(ls, phase)
  BY OutcomeIds DEF OutcomeInv, Unheard
<1>3. PICK lt : lt = lists
  OBVIOUS
<1>4. StackGood(ls, phase, s)
  <2>1. \A r \in Requests : \A q \in Outcomes(r) : lt[q].fired => ls[q].fired
    BY <1>3, OutcomeIds
  <2>2. StackGood(lt, phase, s)
    BY <1>3
  <2> HIDE <1>3
  <2> QED BY <2>1, <2>2, GoodMono
<1>5. OutcomeInv' /\ \A q \in ListIds : q # id /\ lists'[q].fired => ls[q].fired
  BY <1>1, <1>2, <1>4, FireGood
<1>6. CompleteKept
  BY <1>5, OutcomeIds DEF CompleteKept
<1> QED BY <1>5, <1>6

LEMMA CountsGood ==
    ASSUME TypeInv, CallsInv, OutcomeInv, Counts, UNCHANGED phase
    PROVE  OutcomeInv' /\ CompleteKept
<1>1. PICK ls : ls = Stepped
  OBVIOUS
<1>2. /\ ListsOK(ls)
      /\ \A q \in ListIds : ls[q].fns = lists[q].fns /\ ls[q].fired = lists[q].fired
  BY <1>1, SteppedSame DEF Counts
<1>3. EntryAside(NextEntry) /\ NextEntry \in Entry /\ NextEntry.kind = "count"
  BY NextAside DEF Counts
<1>4. PICK m \in Deferreds : m = NextEntry.of
  BY <1>3 DEF Entry, SettleEntry
<1>5. PICK id : id = <<m, "done">>
  OBVIOUS
<1>6. id \in ListIds /\ id[1] \notin Requests
  BY <1>3, <1>4, <1>5 DEF EntryAside, ListIds, Kinds
<1>7. PICK s \in Seq(Frames) : s = frames
  BY DEF TypeInv
<1>8. StackGood(lists, phase, s)
  BY <1>7 DEF OutcomeInv
<1>9. CASE remaining[m] = 1
  <2>1. FireWith(ls, id, s)
    BY <1>1, <1>4, <1>5, <1>7, <1>9 DEF Counts
  <2> QED BY <1>2, <1>6, <1>8, <2>1, FiredGood
<1>10. CASE remaining[m] # 1
  BY <1>1, <1>2, <1>4, <1>7, <1>8, <1>10, SameGood DEF Counts
<1> QED BY <1>9, <1>10

LEMMA ForwardsGood ==
    ASSUME TypeInv, CallsInv, OutcomeInv, Forwards, UNCHANGED phase
    PROVE  OutcomeInv' /\ CompleteKept
<1>1. PICK ls : ls = Stepped
  OBVIOUS
<1>2. /\ ListsOK(ls)
      /\ \A q \in ListIds : ls[q].fns = lists[q].fns /\ ls[q].fired = lists[q].fired
  BY <1>1, SteppedSame DEF Forwards
<1>3. EntryAside(NextEntry) /\ NextEntry \in Entry /\ NextEntry.kind = "forward"
  BY NextAside DEF Forwards
<1>4. PICK id \in ListIds : id = NextEntry.to
  BY <1>3 DEF Entry, SettleEntry
<1>5. id[1] \notin Requests
  BY <1>3, <1>4 DEF EntryAside
<1>6. PICK s \in Seq(Frames) : s = frames
  BY DEF TypeInv
<1>7. StackGood(lists, phase, s)
  BY <1>6 DEF OutcomeInv
<1>8. FireWith(ls, id, s)
  BY <1>1, <1>4, <1>6 DEF Forwards
<1> QED BY <1>2, <1>5, <1>7, <1>8, FiredGood

LEMMA PassEndsGood ==
    ASSUME TypeInv, CallsInv, OutcomeInv, PassEnds, UNCHANGED phase
    PROVE  OutcomeInv' /\ CompleteKept
<1>1. PICK id : id = Firing
  OBVIOUS
<1>2. PICK l : l = lists[id]
  OBVIOUS
<1>3. frames # <<>> /\ id \in ListIds /\ lists \in [ListIds -> List] /\ l \in List
  BY <1>1, <1>2, TopFrame DEF PassEnds, On, TypeInv, ListsOK
<1>4. PICK s \in Seq(Frames) : s = frames
  BY DEF TypeInv
<1>5. StackGood(lists, phase, s)
  BY <1>4 DEF OutcomeInv
<1>6. PICK b \in Seq(Frames) : b = Below /\ StackGood(lists, phase, b)
  <2>1. Below \in Seq(Frames) /\ StackGood(lists, phase, Below)
    BY <1>3, GoodBelow
  <2> QED BY <2>1
<1>7. CASE l.on /\ l.open /\ l.queued > 0
  <2>1. PICK n : n = Started(l, 1)
    OBVIOUS
  <2>2. n.fns = l.fns /\ n \in List
    <3>1. n = [l EXCEPT !.memory = TRUE, !.fired = TRUE, !.firing = TRUE, !.next = 1,
                        !.length = Len(l.fns)]
      BY <2>1 DEF Started
    <3>2. 1 \in 1 .. Len(l.fns) + 1
      BY <1>3, ListFields
    <3>3. n \in List
      BY <1>3, <2>1, <3>2, StartedOK
    <3>4. n.fns = l.fns
      BY <1>3, <3>1, ListFields
    <3> QED BY <3>3, <3>4
  <2>3. PICK m : m = [n EXCEPT !.queued = @ - 1]
    OBVIOUS
  <2>4. m.fns = n.fns
    BY <2>2, <2>3, ListFields
  <2>5. lists' = [lists EXCEPT ![id] = m] /\ frames' = s
    BY <1>1, <1>2, <1>4, <1>7, <2>1, <2>3 DEF PassEnds
  <2>6. id \notin Calling
    BY <1>2, <1>3, <1>7 DEF CallsInv, CallsOK, GoodList, ListInv
  <2>7. \A q \in ListIds : /\ lists'[q].fns = lists[q].fns \/ lists'[q].fns = <<>>
                           /\ q \in Calling => lists'[q].fired = lists[q].fired
    BY <1>2, <1>3, <2>2, <2>4, <2>5, <2>6
  <2> QED BY <1>5, <2>5, <2>7, SameGood
<1>8. CASE ~(l.on /\ l.open /\ l.queued > 0)
  <2>1. PICK fns : fns = IF l.open THEN l.fns ELSE <<>>
    OBVIOUS
  <2>2. PICK m : m = [l EXCEPT !.firing = FALSE, !.fns = fns, !.next = 1, !.length = 0]
    OBVIOUS
  <2>3. m.fns = fns /\ m.fired = l.fired
    BY <1>3, <2>2, ListFields
  <2>4. lists' = [lists EXCEPT ![id] = m] /\ frames' = b
    BY <1>1, <1>2, <1>6, <1>8, <2>1, <2>2 DEF PassEnds
  <2>5. \A q \in ListIds : /\ lists'[q].fns = lists[q].fns \/ lists'[q].fns = <<>>
                           /\ q \in Calling => lists'[q].fired = lists[q].fired
    BY <1>2, <1>3, <2>1, <2>3, <2>4
  <2> QED BY <1>6, <2>4, <2>5, SameGood
<1> QED BY <1>7, <1>8

LEMMA ReturnsGood ==
    ASSUME TypeInv, CallsInv, OutcomeInv, Returns, UNCHANGED phase
    PROVE  OutcomeInv' /\ CompleteKept
<1>1. frames # <<>> /\ Top \in CallFrames
      /\ Top.list \in ListIds /\ Top.then \in Deferreds \cup {NoDeferred}
  BY TopFrame DEF Returns, On
<1>2. PICK b \in Seq(Frames) : b = Below /\ StackGood(lists, phase, b)
  <2>1. Below \in Seq(Frames) /\ StackGood(lists, phase, Below)
    BY <1>1, GoodBelow
  <2> QED BY <2>1
<1>3. CASE Top.then = NoDeferred
  BY <1>2, <1>3, SameGood DEF Returns
<1>4. CASE Top.then # NoDeferred
  <2>1. PICK id : id = <<Top.then, Top.list[2]>>
    OBVIOUS
  <2>2. id \in ListIds /\ id[1] \notin Requests
    BY <1>1, <1>4, <2>1, GoodBelow DEF FrameGood, ListIds
  <2>3. PICK ls : ls = lists
    OBVIOUS
  <2>4. FireWith(ls, id, b) /\ ListsOK(ls)
    BY <1>2, <1>4, <2>1, <2>3 DEF Returns, TypeInv
  <2> QED BY <1>2, <2>2, <2>3, <2>4, FiredGood
<1> QED BY <1>3, <1>4

\* The page adds to some lists.
LEMMA AddHere ==
    ASSUME TypeInv, CallsInv, OutcomeInv, NEW ids \in SUBSET ListIds, IsFiniteSet(ids),
           NEW cbs \in [ids -> {e \in Entry : EntryAside(e)}], AddAll(cbs, frames),
           UNCHANGED phase
    PROVE  OutcomeInv' /\ CompleteKept
<1>1. PICK s \in Seq(Frames) : s = frames
  BY DEF TypeInv
<1>2. AddAll(cbs, s) /\ StackGood(lists, phase, s)
  BY <1>1 DEF OutcomeInv
<1> QED BY <1>2, AddGood

\* What the page adds.
LEMMA EntriesAside ==
    ASSUME TRUE
    PROVE  /\ \A f \in Fns : User(f) \in Entry /\ EntryAside(User(f))
           /\ \A m \in Deferreds \ Requests : Count(m) \in Entry /\ EntryAside(Count(m))
           /\ \A m \in Deferreds \ Requests, k \in Kinds :
                 Forward(<<m, k>>) \in Entry /\ EntryAside(Forward(<<m, k>>))
           /\ \A f \in Fns, m \in Deferreds \ Requests :
                 ThenEntry(f, m) \in Entry /\ EntryAside(ThenEntry(f, m))
<1>1. \A f \in Fns : User(f) \in Entry /\ EntryAside(User(f))
  BY DEF User, Entry, EntryAside
<1>2. \A m \in Deferreds \ Requests : Count(m) \in Entry /\ EntryAside(Count(m))
  BY DEF Count, Entry, EntryAside
<1>3. ASSUME NEW m \in Deferreds \ Requests, NEW k \in Kinds
      PROVE  Forward(<<m, k>>) \in Entry /\ EntryAside(Forward(<<m, k>>))
  BY DEF ListIds, Forward, Entry, EntryAside
<1>4. \A f \in Fns, m \in Deferreds \ Requests :
         ThenEntry(f, m) \in Entry /\ EntryAside(ThenEntry(f, m))
  BY DEF ThenEntry, Entry, EntryAside
<1> QED BY <1>1, <1>2, <1>3, <1>4

LEMMA PageGood ==
    ASSUME TypeInv, CallsInv, OutcomeInv, PageStep, UNCHANGED phase
    PROVE  OutcomeInv' /\ CompleteKept
<1>1. ASSUME NEW d \in Deferreds, NEW k \in Kinds, Add(d, k)
      PROVE  OutcomeInv' /\ CompleteKept
  <2>1. PICK ids : ids = {<<d, k>>}
    OBVIOUS
  <2>2. PICK cbs : cbs = [id \in ids |-> User(NewFn)]
    OBVIOUS
  <2>3. ids \in SUBSET ListIds /\ IsFiniteSet(ids)
    BY <2>1, FS_Singleton DEF ListIds
  <2>4. NewFn \in Fns
    BY <1>1, MadeFn DEF Add
  <2>5. User(NewFn) \in Entry /\ EntryAside(User(NewFn))
    BY <2>4, EntriesAside
  <2>6. cbs \in [ids -> {e \in Entry : EntryAside(e)}]
    BY <2>2, <2>5
  <2>7. AddAll(cbs, frames)
    BY <1>1, <2>1, <2>2 DEF Add
  <2> QED BY <2>3, <2>6, <2>7, AddHere
<1>2. ASSUME NEW d \in Deferreds, Always(d)
      PROVE  OutcomeInv' /\ CompleteKept
  <2>1. PICK ids : ids = Outcomes(d)
    OBVIOUS
  <2>2. PICK cbs : cbs = [id \in ids |-> User(NewFn)]
    OBVIOUS
  <2>3. ids \in SUBSET ListIds /\ IsFiniteSet(ids)
    BY <2>1, OutcomesOK
  <2>4. NewFn \in Fns
    BY <1>2, MadeFn DEF Always
  <2>5. User(NewFn) \in Entry /\ EntryAside(User(NewFn))
    BY <2>4, EntriesAside
  <2>6. cbs \in [ids -> {e \in Entry : EntryAside(e)}]
    BY <2>2, <2>5
  <2>7. AddAll(cbs, frames)
    BY <1>2, <2>1, <2>2 DEF Always
  <2> QED BY <2>3, <2>6, <2>7, AddHere
<1>3. ASSUME NEW d \in Deferreds, NEW t \in Deferreds \ Requests, ThenCall(d, t)
      PROVE  OutcomeInv' /\ CompleteKept
  <2>1. PICK ids : ids = Outcomes(d)
    OBVIOUS
  <2>2. PICK cbs : cbs = [id \in ids |-> IF id[2] = "done" THEN ThenEntry(NewFn, t)
                                         ELSE Forward(<<t, "fail">>)]
    OBVIOUS
  <2>3. ids \in SUBSET ListIds /\ IsFiniteSet(ids)
    BY <2>1, OutcomesOK
  <2>4. NewFn \in Fns /\ "fail" \in Kinds
    BY <1>3, MadeFn DEF ThenCall, Kinds
  <2>5. /\ ThenEntry(NewFn, t) \in {e \in Entry : EntryAside(e)}
        /\ Forward(<<t, "fail">>) \in {e \in Entry : EntryAside(e)}
    BY <2>4, EntriesAside
  <2>6. cbs \in [ids -> {e \in Entry : EntryAside(e)}]
    BY <2>2, <2>5
  <2>7. AddAll(cbs, frames)
    BY <1>3, <2>1, <2>2 DEF ThenCall
  <2> QED BY <2>3, <2>6, <2>7, AddHere
<1>4. ASSUME NEW m \in Deferreds \ Requests, NEW ds \in SUBSET Deferreds, When(m, ds)
      PROVE  OutcomeInv' /\ CompleteKept
  <2>1. PICK ids : ids = UNION {Outcomes(d) : d \in ds}
    OBVIOUS
  <2>2. PICK cbs : cbs = [id \in ids |-> IF id[2] = "done" THEN Count(m)
                                         ELSE Forward(<<m, "fail">>)]
    OBVIOUS
  <2>3. ids \in SUBSET ListIds /\ IsFiniteSet(ids)
    BY <1>4, <2>1, TwoFinite DEF When
  <2>4. "fail" \in Kinds
    BY DEF Kinds
  <2>5. /\ Count(m) \in {e \in Entry : EntryAside(e)}
        /\ Forward(<<m, "fail">>) \in {e \in Entry : EntryAside(e)}
    BY <2>4, EntriesAside
  <2>6. cbs \in [ids -> {e \in Entry : EntryAside(e)}]
    BY <2>2, <2>5
  <2>7. AddAll(cbs, frames)
    BY <1>4, <2>1, <2>2 DEF When
  <2> QED BY <2>3, <2>6, <2>7, AddHere
<1>5. ASSUME NEW p \in Deferreds, ReturnsPromise(p)
      PROVE  OutcomeInv' /\ CompleteKept
  <2>1. frames # <<>> /\ Top \in CallFrames /\ Top.then \in Deferreds
    BY <1>5, TopFrame DEF ReturnsPromise, On
  <2>2. PICK t \in Deferreds : t = Top.then
    BY <2>1
  <2>3. t \notin Requests
    BY <2>1, <2>2, GoodBelow DEF FrameGood
  <2>4. PICK ids : ids = Outcomes(p)
    OBVIOUS
  <2>5. PICK cbs : cbs = [id \in ids |-> Forward(<<t, id[2]>>)]
    OBVIOUS
  <2>6. ids \in SUBSET ListIds /\ IsFiniteSet(ids)
    BY <2>4, OutcomesOK
  <2>7. ASSUME NEW id \in ids
        PROVE  Forward(<<t, id[2]>>) \in {e \in Entry : EntryAside(e)}
    <3>1. id[2] \in Kinds
      BY <2>4 DEF Outcomes, Kinds
    <3> QED BY <2>3, <3>1, EntriesAside
  <2>8. cbs \in [ids -> {e \in Entry : EntryAside(e)}]
    BY <2>5, <2>7
  <2>9. PICK s \in Seq(Frames) : s = Below /\ StackGood(lists, phase, s)
    <3>1. Below \in Seq(Frames) /\ StackGood(lists, phase, Below)
      BY <2>1, GoodBelow
    <3> QED BY <3>1
  <2>10. AddAll(cbs, s)
    BY <1>5, <2>2, <2>4, <2>5, <2>9 DEF ReturnsPromise
  <2> QED BY <2>6, <2>8, <2>9, <2>10, AddGood
<1>6. CASE Throw
  <2>1. frames' = <<>> /\ lists' = lists
    BY <1>6 DEF Throw
  <2>2. <<>> \in Seq(Frames) /\ StackGood(lists, phase, <<>>)
    BY DEF StackGood
  <2> QED BY <2>1, <2>2, SameGood
<1>7. "done" \in Kinds /\ "fail" \in Kinds /\ "complete" \in Kinds /\ Requests \subseteq Deferreds
  BY AjaxAssumption DEF Kinds
<1> QED BY <1>1, <1>2, <1>3, <1>4, <1>5, <1>6, <1>7 DEF PageStep

\* The steps of the loops.
LEMMA LoopGood ==
    ASSUME TypeInv, CallsInv, OutcomeInv, DeferredStep, UNCHANGED phase
    PROVE  OutcomeInv' /\ CompleteKept
<1> QED BY SettlesGood, CallsGood, CountsGood, ForwardsGood, PassEndsGood, ReturnsGood
        DEF DeferredStep

\* The frames of done before complete.
LEMMA SettledLate ==
    ASSUME NEW r \in Requests
    PROVE  /\ SettledFrame(r) \in Late /\ SettledFrame(r) \in Frames
           /\ SettledFrame(r).request = r /\ SettledFrame(r) \notin CallFrames
           /\ StatusFrame(r) \in Late /\ StatusFrame(r) \in Frames
           /\ StatusFrame(r).request = r /\ StatusFrame(r) \notin CallFrames
           /\ CloseFrame(r) \in Late /\ CloseFrame(r) \in Frames
           /\ CloseFrame(r).request = r /\ CloseFrame(r) \notin CallFrames
<1>1. /\ StatusFrame(r) \in StatusFrames /\ StatusFrame(r).request = r
      /\ StatusFrame(r) \notin CallFrames
  BY DEF StatusFrame, StatusFrames, CallFrames
<1>2. /\ CloseFrame(r) \in CloseFrames /\ CloseFrame(r).request = r
      /\ CloseFrame(r) \notin CallFrames
  BY DEF CloseFrame, CloseFrames, CallFrames
<1>3. PICK h : h = HookFrame(r, "ajaxSettled")
  OBVIOUS
<1>4. /\ h \in SettledFrames /\ h \in HookFrames /\ h.request = r /\ h \notin CallFrames
  BY <1>3 DEF HookFrame, SettledFrames, HookFrames, Hooks, CallFrames
<1>5. SettledFrame(r) = h \/ SettledFrame(r) = CloseFrame(r)
  BY <1>3 DEF SettledFrame
<1> QED BY <1>1, <1>2, <1>4, <1>5 DEF Late, Frames, AjaxFrames

LEMMA AfterLate ==
    ASSUME NEW r \in Requests
    PROVE  \E f \in Frames : /\ AfterSettling(r) = <<f>> /\ f \in Late /\ f.request = r
                             /\ f \notin CallFrames
BY SettledLate DEF AfterSettling

\* A request that is not done has lists that are on, and that nothing fires.
LEMMA UnheardLists ==
    ASSUME TypeInv, CallsInv, OutcomeInv, NEW r \in Requests, phase[r] # "done",
           NEW id \in Outcomes(r)
    PROVE  lists[id].on /\ ~lists[id].fired /\ ~lists[id].firing
<1>1. <<r, "done">> \in ListIds /\ <<r, "fail">> \in ListIds /\ r \in Deferreds
  BY OutcomeIds DEF Outcomes
<1>2. ~lists[<<r, "done">>].fired /\ ~lists[<<r, "fail">>].fired
  BY DEF OutcomeInv, Unheard, Outcomes
<1>3. state[r] \in {"pending", "resolved", "rejected"}
  BY <1>1 DEF TypeInv, DeferredTypes
<1>4. ASSUME NEW k \in {"done", "fail"}
      PROVE  /\ SettlingInv(lists[<<r, k>>], state[r], Outcome(k), called[<<r, k>>])
             /\ ListInv(lists[<<r, k>>], called[<<r, k>>], registered[<<r, k>>])
  <2>1. PICK q : q = <<r, k>>
    OBVIOUS
  <2>2. q \in ListIds /\ q \in Settling /\ q \in Calling /\ q[1] = r /\ q[2] = k
    BY <1>1, <2>1 DEF Settling, Calling
  <2>3. GoodList(q, lists[q], state[q[1]], called[q], registered[q])
    BY <2>2 DEF CallsInv, CallsOK
  <2> QED BY <2>1, <2>2, <2>3 DEF GoodList
<1>5. state[r] # "resolved"
  BY <1>2, <1>4 DEF Outcome, SettlingInv
<1>6. state[r] # "rejected"
  BY <1>2, <1>4 DEF Outcome, SettlingInv
<1>7. PICK k \in {"done", "fail"} : id = <<r, k>>
  BY DEF Outcomes
<1> QED BY <1>2, <1>3, <1>4, <1>5, <1>6, <1>7 DEF SettlingInv, ListInv

\* done settles a request: its list starts, above what is left of done.
LEMMA DoneGood ==
    ASSUME TypeInv, CallsInv, OutcomeInv, NEW r \in Requests, NEW ok, NEW rest \in Seq(Frames),
           StackGood(lists, phase, rest), Base(lists, rest), Done(r, ok, rest)
    PROVE  OutcomeInv' /\ CompleteKept
<1>1. CASE phase[r] = "done"
  BY <1>1, SameGood DEF Done
<1>2. CASE phase[r] # "done"
  <2>1. PICK id \in Outcomes(r) : id = <<r, IF ok THEN "done" ELSE "fail">>
    BY DEF Outcomes
  <2>2. PICK l : l = lists[id]
    OBVIOUS
  <2>3. id \in ListIds /\ l \in List /\ l.on /\ ~l.fired /\ ~l.firing
        /\ lists \in [ListIds -> List]
    BY <1>2, <2>2, OutcomeIds, UnheardLists DEF TypeInv, ListsOK
  <2>4. PICK f \in Frames : /\ AfterSettling(r) = <<f>> /\ f \in Late /\ f.request = r
                            /\ f \notin CallFrames
    BY AfterLate
  <2>5. PICK m : m = Started(l, 1)
    OBVIOUS
  <2>6. m.fns = l.fns /\ m.fired = TRUE
    BY <2>3, <2>5, ListFields DEF Started
  <2>7. PICK lt, pt : lt = lists' /\ pt = phase'
    OBVIOUS
  <2>8. PICK ls, ph : ls = lists /\ ph = phase
    OBVIOUS
  <2>9. /\ FireWith(lists, id, AfterSettling(r) \o rest)
        /\ pt = [ph EXCEPT ![r] = "done"]
    BY <1>2, <2>1, <2>7, <2>8 DEF Done
  <2>10. lt = [ls EXCEPT ![id] = m] /\ frames' = <<FireFrame(id)>> \o (<<f>> \o rest)
    BY <2>2, <2>3, <2>4, <2>5, <2>7, <2>8, <2>9 DEF FireWith
  <2>11. lt[id] = m /\ \A q \in ListIds : q # id => lt[q] = ls[q]
    BY <2>3, <2>8, <2>10
  <2>12. pt[r] = "done" /\ \A x \in Requests : x # r => pt[x] = ph[x]
    BY <2>8, <2>9 DEF TypeInv, AjaxTypes
  <2>13. Aside(lt)
    BY <2>2, <2>6, <2>8, <2>11 DEF OutcomeInv, Aside
  <2>14. Unheard(lt, pt)
    <3> SUFFICES ASSUME NEW x \in Requests, pt[x] # "done", NEW q \in Outcomes(x)
                 PROVE  ~lt[q].fired
      BY DEF Unheard
    <3>1. x # r /\ ph[x] # "done"
      BY <2>12
    <3>2. q \in ListIds /\ q[1] = x /\ id[1] = r
      BY OutcomeIds
    <3>3. ~ls[q].fired
      BY <2>8, <3>1 DEF OutcomeInv, Unheard
    <3> QED BY <2>11, <3>1, <3>2, <3>3
  <2>15. CompleteKept
    <3> SUFFICES ASSUME NEW x \in Requests
                 PROVE  lt[<<x, "complete">>].fired => ls[<<x, "complete">>].fired
      BY <2>7, <2>8 DEF CompleteKept
    <3>1. id[2] # "complete" /\ <<x, "complete">>[2] = "complete"
      BY <2>1
    <3>2. <<x, "complete">> # id /\ <<x, "complete">> \in ListIds
      BY <3>1, OutcomeIds
    <3> QED BY <2>11, <3>2
  <2>16. StackGood(lt, pt, rest)
    <3>1. StackGood(ls, ph, rest)
      BY <2>8
    <3>2. \A x \in Requests : \A q \in Outcomes(x) : ls[q].fired => lt[q].fired
      BY <2>6, <2>11, OutcomeIds
    <3>3. \A x \in Requests : pt[x] = "done" => \/ ph[x] = "done"
                                                \/ \E q \in Outcomes(x) : lt[q].fired
      BY <2>6, <2>11, <2>12
    <3> HIDE <2>13, <2>14, <2>15
    <3> QED BY <3>1, <3>2, <3>3, GoodMono
  <2>17. \A j \in DOMAIN rest : rest[j] \notin Loops(r)
    <3> SUFFICES ASSUME NEW j \in DOMAIN rest, NEW q \in Outcomes(r), rest[j] = FireFrame(q)
                 PROVE  FALSE
      BY DEF Loops
    <3>1. q \in Calling
      BY OutcomeIds
    <3>2. LoopOK(q, lists[q].firing, rest, threw)
      BY <3>1 DEF Base, CallsOK
    <3>3. lists[q].firing
      BY <3>2 DEF LoopOK
    <3> QED BY <1>2, <3>3, UnheardLists
  <2>18. FrameGood(lt, pt, f)
    BY <2>4, <2>6, <2>11 DEF FrameGood
  <2>19. StackGood(lt, pt, <<f>> \o rest) /\ <<f>> \o rest \in Seq(Frames)
    BY <2>4, <2>16, <2>17, <2>18, GoodPush
  <2>20. <<FireFrame(id)>> \in Seq(FireFrames)
    BY <2>3 DEF FireFrame, FireFrames
  <2>21. PICK t \in Seq(Frames) : t = <<f>> \o rest
    BY <2>19
  <2>22. StackGood(lt, pt, <<FireFrame(id)>> \o t)
    BY <2>19, <2>20, <2>21, GoodLoops
  <2> QED BY <2>7, <2>10, <2>13, <2>14, <2>15, <2>21, <2>22 DEF OutcomeInv
<1> QED BY <1>1, <1>2

\* Nothing is fired and nothing added, whatever becomes of the phases.
LEMMA KeepGood ==
    ASSUME OutcomeInv, NEW s, frames' = s, lists' = lists, StackGood(lists, phase', s),
           \A x \in Requests : phase'[x] # "done" => phase[x] # "done"
    PROVE  OutcomeInv' /\ CompleteKept
<1>1. Aside(lists)
  BY DEF OutcomeInv
<1>2. Unheard(lists, phase')
  BY DEF OutcomeInv, Unheard
<1>3. CompleteKept
  BY DEF CompleteKept
<1> QED BY <1>1, <1>2, <1>3 DEF OutcomeInv

\* Which frames the hooks are.
LEMMA HookKinds ==
    ASSUME NEW r \in Requests, NEW at \in Hooks, NEW f \in {HookFrame(r, at)}
    PROVE  /\ f \in Frames /\ f \notin CallFrames /\ f.request = r
           /\ f \in SetupFrames <=> at \in Setup
           /\ f \in Late <=> at = "ajaxSettled"
<1>1. f \in HookFrames /\ f.at = at /\ f.request = r /\ f.code = "hook"
  BY DEF HookFrame, HookFrames
<1>2. f \notin CallFrames /\ f \notin StatusFrames /\ f \notin CloseFrames
  BY <1>1 DEF CallFrames, StatusFrames, CloseFrames
<1>3. f \in SetupFrames <=> at \in Setup
  BY <1>1 DEF SetupFrames, HookFrame
<1>4. f \in SettledFrames <=> at = "ajaxSettled"
  BY <1>1 DEF SettledFrames, HookFrame
<1> QED BY <1>1, <1>2, <1>3, <1>4 DEF Late, Frames, AjaxFrames

\* ajax() or done go on to their next frame.
LEMMA SwapGood ==
    ASSUME TypeInv, OutcomeInv, frames # <<>>, NEW f \in Frames, f \notin CallFrames,
           f \in SetupFrames => Top \in SetupFrames /\ Top.request = f.request,
           f \in Late => /\ Top \in Late \/ (Top \in SetupFrames /\ phase[f.request] = "done")
                         /\ Top.request = f.request
    PROVE  StackGood(lists, phase, <<f>> \o Below) /\ <<f>> \o Below \in Seq(Frames)
<1>1. PICK b \in Seq(Frames) : /\ b = Below /\ StackGood(lists, phase, b)
                               /\ FrameGood(lists, phase, Top)
                               /\ Top \in Waits =>
                                     \A j \in DOMAIN b : b[j] \notin Loops(Top.request)
  BY GoodBelow
<1>2. PICK ls, ph : ls = lists /\ ph = phase
  OBVIOUS
<1>3. FrameGood(ls, ph, f)
  <2> SUFFICES ASSUME f \in Late \/ (f \in SetupFrames /\ ph[f.request] = "done")
               PROVE  \E id \in Outcomes(f.request) : ls[id].fired
    BY DEF FrameGood
  <2>1. Top \in Late \/ (Top \in SetupFrames /\ ph[Top.request] = "done")
    BY <1>2
  <2>2. Top.request = f.request
    OBVIOUS
  <2> QED BY <1>1, <1>2, <2>1, <2>2 DEF FrameGood
<1>4. f \in Waits => \A j \in DOMAIN b : b[j] \notin Loops(f.request)
  BY <1>1 DEF Waits
<1>5. StackGood(ls, ph, b)
  BY <1>1, <1>2
<1>6. StackGood(ls, ph, <<f>> \o b) /\ <<f>> \o b \in Seq(Frames)
  BY <1>3, <1>4, <1>5, GoodPush
<1> QED BY <1>1, <1>2, <1>6

\* Steps of ajax() and done that fire nothing.
LEMMA AjaxQuietGood ==
    ASSUME TypeInv, OutcomeInv, NEW r \in Requests,
           \/ SettledHandled(r) \/ Uncounts(r) \/ StopHandled(r) \/ Prefiltered(r)
           \/ StartHandled(r) \/ ReadyToSend(r)
    PROVE  OutcomeInv' /\ CompleteKept
<1>1. On("hook") /\ frames # <<>> /\ UNCHANGED <<lists, phase>>
  BY DEF SettledHandled, Uncounts, StopHandled, Prefiltered, StartHandled, ReadyToSend,
         AtHook, On, ajaxVars
<1>2. PICK b \in Seq(Frames) : b = Below /\ StackGood(lists, phase, b)
  <2>1. Below \in Seq(Frames) /\ StackGood(lists, phase, Below)
    BY <1>1, GoodBelow
  <2> QED BY <2>1
<1>3. CASE frames' = b
  BY <1>1, <1>2, <1>3, KeepGood
<1>4. ASSUME NEW f \in Frames, f \notin CallFrames, frames' = <<f>> \o b,
             f \in SetupFrames => Top \in SetupFrames /\ Top.request = f.request,
             f \in Late => Top \in Late /\ Top.request = f.request
      PROVE  OutcomeInv' /\ CompleteKept
  <2>1. StackGood(lists, phase, <<f>> \o Below)
    BY <1>1, <1>4, SwapGood
  <2>2. PICK s : s = <<f>> \o b /\ StackGood(lists, phase, s)
    BY <1>2, <2>1
  <2> QED BY <1>1, <1>4, <2>2, KeepGood
<1>5. ASSUME NEW at \in Hooks, NEW to \in Hooks, Top = HookFrame(r, at),
             at \in Setup \/ to = "ajaxStop", to \in Setup \cup {"ajaxStop"},
             frames' = <<HookFrame(r, to)>> \o b
      PROVE  OutcomeInv' /\ CompleteKept
  <2>1. PICK f : f = HookFrame(r, to)
    OBVIOUS
  <2>2. /\ f \in Frames /\ f \notin CallFrames /\ f.request = r
        /\ f \in SetupFrames <=> to \in Setup
        /\ f \notin Late
    BY <1>5, <2>1, HookKinds DEF Setup
  <2>3. Top.request = r /\ (Top \in SetupFrames <=> at \in Setup)
    <3>1. PICK g : g = HookFrame(r, at)
      OBVIOUS
    <3>2. g.request = r /\ (g \in SetupFrames <=> at \in Setup)
      BY <3>1, HookKinds
    <3> QED BY <1>5, <3>1, <3>2
  <2>4. "ajaxStop" \notin Setup
    BY DEF Setup
  <2>5. frames' = <<f>> \o b
    BY <1>5, <2>1
  <2> QED BY <1>4, <1>5, <2>2, <2>3, <2>4, <2>5
<1>6. CASE SettledHandled(r)
  <2>1. PICK f : f = CloseFrame(r)
    OBVIOUS
  <2>2. f \in Frames /\ f \notin CallFrames /\ f.request = r /\ f \notin SetupFrames
    BY <2>1, SettledLate DEF CloseFrame, SetupFrames
  <2>3. PICK g : g = Top
    OBVIOUS
  <2>4. g = HookFrame(r, "ajaxSettled") /\ "ajaxSettled" \in Hooks
    BY <1>6, <2>3 DEF SettledHandled, AtHook, Hooks
  <2>5. g \in Late /\ g.request = r
    BY <2>4, HookKinds
  <2>6. frames' = <<f>> \o b
    BY <1>2, <1>6, <2>1 DEF SettledHandled
  <2> QED BY <1>4, <2>2, <2>3, <2>5, <2>6
<1>7. CASE Uncounts(r)
  BY <1>2, <1>3, <1>5, <1>7 DEF Uncounts, AtHook, Hooks
<1>8. CASE StopHandled(r)
  BY <1>2, <1>3, <1>8 DEF StopHandled
<1>9. CASE Prefiltered(r)
  BY <1>2, <1>3, <1>5, <1>9 DEF Prefiltered, AtHook, Hooks, Setup
<1>10. CASE StartHandled(r)
  BY <1>2, <1>5, <1>10 DEF StartHandled, AtHook, Hooks, Setup
<1>11. CASE ReadyToSend(r)
  BY <1>2, <1>5, <1>11 DEF ReadyToSend, AtHook, Hooks, Setup
<1> QED BY <1>6, <1>7, <1>8, <1>9, <1>10, <1>11

\* The request is sent, once ajaxSend has been handled.
LEMMA SentGood ==
    ASSUME AjaxInv, OutcomeInv, NEW r \in Requests, Sent(r)
    PROVE  OutcomeInv' /\ CompleteKept
<1>1. /\ frames # <<>> /\ TypeInv /\ phase[r] # "done"
      /\ phase \in [Requests -> {"new", "setup", "sent", "done"}]
  BY DEF Sent, AtHook, On, AjaxInv, RequestInv, TypeInv, AjaxTypes
<1>2. PICK b \in Seq(Frames) : b = Below /\ StackGood(lists, phase, b)
  <2>1. Below \in Seq(Frames) /\ StackGood(lists, phase, Below)
    BY <1>1, GoodBelow
  <2> QED BY <2>1
<1>3. PICK ls, ph, pt : ls = lists /\ ph = phase /\ pt = phase'
  OBVIOUS
<1>4. pt = [ph EXCEPT ![r] = "sent"] /\ lists' = lists /\ frames' = b
  BY <1>2, <1>3 DEF Sent
<1>5. \A x \in Requests : pt[x] = "done" <=> ph[x] = "done"
  BY <1>1, <1>3, <1>4
<1>6. StackGood(ls, pt, b)
  <2>1. StackGood(ls, ph, b)
    BY <1>2, <1>3
  <2>2. \A x \in Requests : pt[x] = "done" => \/ ph[x] = "done"
                                              \/ \E q \in Outcomes(x) : ls[q].fired
    BY <1>5
  <2> HIDE <1>2, <1>3, <1>4, <1>5
  <2> QED BY <2>1, <2>2, GoodMono
<1>7. StackGood(lists, phase', b) /\ \A x \in Requests : phase'[x] # "done" => phase[x] # "done"
  BY <1>3, <1>5, <1>6
<1> QED BY <1>4, <1>7, KeepGood

\* $.ajax is called: nothing fires the lists of a request that is new.
LEMMA AjaxCallGood ==
    ASSUME TypeInv, CallsInv, OutcomeInv, NEW r \in Requests, AjaxCall(r)
    PROVE  OutcomeInv' /\ CompleteKept
<1>1. phase[r] = "new" /\ phase \in [Requests -> {"new", "setup", "sent", "done"}]
  BY DEF AjaxCall, IsNext, TypeInv, AjaxTypes
<1>2. PICK b \in Seq(Frames) : b = frames
  BY DEF TypeInv
<1>3. PICK ls, ph, pt : ls = lists /\ ph = phase /\ pt = phase'
  OBVIOUS
<1>4. PICK f : f = HookFrame(r, "prefilter")
  OBVIOUS
<1>5. /\ f \in Frames /\ f \notin CallFrames /\ f.request = r /\ f \in SetupFrames
      /\ f \notin Late
  BY <1>4, HookKinds DEF Hooks, Setup
<1>6. pt = [ph EXCEPT ![r] = "setup"] /\ lists' = lists /\ frames' = <<f>> \o b
  BY <1>2, <1>3, <1>4 DEF AjaxCall
<1>7. pt[r] # "done" /\ \A x \in Requests : pt[x] = "done" <=> ph[x] = "done"
  BY <1>1, <1>3, <1>6
<1>8. StackGood(ls, pt, b)
  <2>1. StackGood(ls, ph, b)
    BY <1>2, <1>3 DEF OutcomeInv
  <2>2. \A x \in Requests : pt[x] = "done" => \/ ph[x] = "done"
                                              \/ \E q \in Outcomes(x) : ls[q].fired
    BY <1>7
  <2> HIDE <1>2, <1>3, <1>4, <1>5, <1>6, <1>7
  <2> QED BY <2>1, <2>2, GoodMono
<1>9. \A j \in DOMAIN b : b[j] \notin Loops(r)
  <2> SUFFICES ASSUME NEW j \in DOMAIN b, NEW q \in Outcomes(r), b[j] = FireFrame(q)
               PROVE  FALSE
    BY DEF Loops
  <2>1. q \in Calling
    BY OutcomeIds
  <2>2. LoopOK(q, lists[q].firing, b, threw)
    BY <1>2, <2>1 DEF CallsInv, CallsOK
  <2>3. lists[q].firing
    BY <2>2 DEF LoopOK
  <2> QED BY <1>1, <2>3, UnheardLists
<1>10. FrameGood(ls, pt, f)
  BY <1>5, <1>7 DEF FrameGood
<1>11. StackGood(ls, pt, <<f>> \o b)
  BY <1>5, <1>8, <1>9, <1>10, GoodPush
<1>12. PICK s : s = <<f>> \o b
  OBVIOUS
<1>13. /\ frames' = s /\ lists' = lists /\ StackGood(lists, phase', s)
       /\ \A x \in Requests : phase'[x] # "done" => phase[x] # "done"
  BY <1>3, <1>6, <1>7, <1>11, <1>12
<1> QED BY <1>13, KeepGood

\* A function for statusCode waits; an answer that cannot be converted ends a request.
LEMMA RestGood ==
    ASSUME TypeInv, CallsInv, OutcomeInv, NEW r \in Requests, StatusCode(r) \/ AnswerThrows(r)
    PROVE  OutcomeInv' /\ CompleteKept
<1>1. CASE StatusCode(r)
  <2>1. PICK s : s = frames
    OBVIOUS
  <2>2. UNCHANGED <<lists, phase, frames>> /\ StackGood(lists, phase, s) /\ frames' = s
    BY <1>1, <2>1 DEF StatusCode, OutcomeInv
  <2> QED BY <2>2, KeepGood
<1>2. CASE AnswerThrows(r)
  BY <1>2, KeepGood DEF AnswerThrows, Idle, StackGood, TypeInv, AjaxTypes
<1> QED BY <1>1, <1>2

\* Where done is called.
LEMMA DoneHere ==
    ASSUME TypeInv, CallsInv, OutcomeInv, NEW r \in Requests, NEW ok,
           \/ PageRuns /\ Done(r, ok, frames)
           \/ On("hook") /\ Done(r, ok, Below)
    PROVE  OutcomeInv' /\ CompleteKept
<1>1. CASE PageRuns /\ Done(r, ok, frames)
  <2>1. PICK s \in Seq(Frames) : s = frames
    BY DEF TypeInv
  <2>2. Base(lists, s)
    BY <1>1, <2>1, QuietTop, BaseHere DEF PageRuns
  <2>3. StackGood(lists, phase, s) /\ Done(r, ok, s)
    BY <1>1, <2>1 DEF OutcomeInv
  <2> QED BY <2>2, <2>3, DoneGood
<1>2. CASE On("hook") /\ Done(r, ok, Below)
  <2>1. frames # <<>>
    BY <1>2 DEF On
  <2>2. PICK s \in Seq(Frames) : s = Below /\ StackGood(lists, phase, s)
    <3>1. Below \in Seq(Frames) /\ StackGood(lists, phase, Below)
      BY <2>1, GoodBelow
    <3> QED BY <3>1
  <2>3. Base(lists, s) /\ Done(r, ok, s)
    BY <1>2, <2>2, AjaxBase
  <2> QED BY <2>2, <2>3, DoneGood
<1> QED BY <1>1, <1>2

LEMMA SettledOutcome ==
    ASSUME TypeInv, CallsInv, OutcomeInv, NEW r \in Requests,
           \/ NotSent(r) \/ SendThrows(r) \/ Abort(r) \/ Timeout(r)
           \/ \E ok \in Heard : Answered(r, ok)
    PROVE  OutcomeInv' /\ CompleteKept
<1>1. CASE NotSent(r) \/ SendThrows(r)
  BY <1>1, DoneHere DEF NotSent, SendThrows, AtHook
<1>2. CASE Abort(r)
  BY <1>2, DoneHere DEF Abort
<1>3. CASE Timeout(r)
  BY <1>3, DoneHere DEF Timeout, Idle, PageRuns
<1>4. ASSUME NEW ok \in Heard, Answered(r, ok)
      PROVE  OutcomeInv' /\ CompleteKept
  BY <1>4, DoneHere DEF Answered, Idle, PageRuns
<1> QED BY <1>1, <1>2, <1>3, <1>4

\* done runs once more for a request that ajaxSend has aborted.
LEMMA SendsNothingGood ==
    ASSUME AjaxInv, CallsInv, OutcomeInv, NEW r \in Requests, SendsNothing(r)
    PROVE  OutcomeInv' /\ CompleteKept
<1>1. /\ TypeInv /\ frames # <<>> /\ Top = HookFrame(r, "ajaxSend") /\ ~transport[r]
      /\ UNCHANGED phase
  BY DEF SendsNothing, AtHook, On, AjaxInv
<1>2. PICK g : g = Top
  OBVIOUS
<1>3. g = HookFrame(r, "ajaxSend") /\ g \in SetupFrames /\ g.request = r /\ g.at = "ajaxSend"
  BY <1>1, <1>2, HookKinds DEF Setup, Hooks, HookFrame
<1>4. phase[r] = "done"
  <2>1. PICK s \in Seq(Frames) : s = frames /\ s # <<>>
    BY <1>1 DEF TypeInv
  <2>2. 1 \in DOMAIN s /\ s[1] = Head(s)
    BY <2>1
  <2>3. FrameOK(g)
    BY <1>2, <2>1, <2>2 DEF AjaxInv, FramesInv, Top
  <2> QED BY <1>1, <1>3, <2>3 DEF FrameOK
<1>5. PICK f \in Frames : /\ AfterSettling(r) = <<f>> /\ f \in Late /\ f.request = r
                          /\ f \notin CallFrames
  BY AfterLate
<1>6. StackGood(lists, phase, <<f>> \o Below) /\ <<f>> \o Below \in Seq(Frames)
  BY <1>1, <1>2, <1>3, <1>4, <1>5, SwapGood
<1>7. PICK s \in Seq(Frames) : s = <<f>> \o Below
  BY <1>6
<1>8. PICK ls : ls = lists
  OBVIOUS
<1>9. PICK id \in ListIds : id = <<r, "fail">>
  BY OutcomeIds DEF Outcomes
<1>10. FireWith(ls, id, s) /\ StackGood(ls, phase, s)
  BY <1>5, <1>6, <1>7, <1>8, <1>9 DEF SendsNothing
<1>11. ListsOK(ls) /\ Aside(ls) /\ Unheard(ls, phase)
  BY <1>1, <1>8 DEF TypeInv, OutcomeInv
<1>12. id[1] \in Requests => phase[id[1]] = "done" \/ id[2] = "complete"
  BY <1>4, <1>9
<1>13. OutcomeInv' /\ \A q \in ListIds : q # id /\ lists'[q].fired => ls[q].fired
  BY <1>1, <1>10, <1>11, <1>12, FireGood
<1>14. \A x \in Requests : <<x, "complete">> \in ListIds /\ <<x, "complete">> # id
  BY <1>9, OutcomeIds
<1> QED BY <1>8, <1>13, <1>14 DEF CompleteKept

\* The functions of statusCode.
LEMMA CallsStatusGood ==
    ASSUME AjaxInv, CallsInv, OutcomeInv, NEW r \in Requests, CallsStatus(r)
    PROVE  OutcomeInv' /\ CompleteKept
<1>1. /\ TypeInv /\ frames # <<>> /\ On("status") /\ Top.request = r /\ UNCHANGED phase
  BY DEF CallsStatus, On, AjaxInv
<1>2. PICK g : g = Top
  OBVIOUS
<1>3. g \in StatusFrames /\ g.request = r
  <2>1. g \in Frames /\ g.code = "status"
    BY <1>1, <1>2, TopFrame DEF On
  <2>2. g \in StatusFrames
    BY <2>1 DEF Frames, PlainFrames, AjaxFrames, FireFrames, CallFrames, HookFrames,
                StatusFrames, CloseFrames
  <2> QED BY <1>1, <1>2, <2>2
<1>4. status[r] \in Fns
  <2>1. PICK s \in Seq(Frames) : s = frames /\ s # <<>>
    BY <1>1 DEF TypeInv
  <2>2. 1 \in DOMAIN s /\ s[1] = Head(s)
    BY <2>1
  <2>3. FrameOK(g)
    BY <1>2, <2>1, <2>2 DEF AjaxInv, FramesInv, Top
  <2>4. status[r] # 0 /\ status[r] \in 0 .. MaxObjects /\ MaxObjects \in Nat
    BY <1>1, <1>3, <2>3, DeferredAssumption DEF FrameOK, TypeInv, AjaxTypes
  <2> QED BY <2>4 DEF Fns
<1>5. PICK f \in Frames : /\ f = SettledFrame(r) /\ f \in Late /\ f.request = r
                          /\ f \notin CallFrames
  BY SettledLate
<1>6. g \in Late
  BY <1>3 DEF Late
<1>7. f \in SetupFrames => g \in SetupFrames
  BY <1>5 DEF SettledFrame, HookFrame, CloseFrame, SetupFrames, Setup
<1>8. StackGood(lists, phase, <<f>> \o Below) /\ <<f>> \o Below \in Seq(Frames)
  BY <1>1, <1>2, <1>3, <1>5, <1>6, <1>7, SwapGood
<1>9. PICK s \in Seq(Frames) : s = <<f>> \o Below
  BY <1>8
<1>10. PICK ids : ids = Outcomes(r)
  OBVIOUS
<1>11. PICK cbs : cbs = [id \in ids |-> User(status[r])]
  OBVIOUS
<1>12. ids \in SUBSET ListIds /\ IsFiniteSet(ids)
  BY <1>10, OutcomeIds, OutcomesOK
<1>13. User(status[r]) \in {e \in Entry : EntryAside(e)}
  BY <1>4, EntriesAside
<1>14. cbs \in [ids -> {e \in Entry : EntryAside(e)}]
  BY <1>11, <1>13
<1>15. AddAll(cbs, s) /\ StackGood(lists, phase, s)
  BY <1>5, <1>8, <1>9, <1>10, <1>11 DEF CallsStatus
<1> QED BY <1>1, <1>12, <1>14, <1>15, AddGood

\* The list complete starts, and no other.
LEMMA CompletesGood ==
    ASSUME TypeInv, CallsInv, OutcomeInv, NEW r \in Requests, Completes(r)
    PROVE  /\ OutcomeInv'
           /\ \A q \in ListIds : q # <<r, "complete">> /\ lists'[q].fired => lists[q].fired
<1>1. frames # <<>> /\ UNCHANGED phase
  BY DEF Completes, On, ajaxVars
<1>2. PICK b \in Seq(Frames) : b = Below /\ StackGood(lists, phase, b)
  <2>1. Below \in Seq(Frames) /\ StackGood(lists, phase, Below)
    BY <1>1, GoodBelow
  <2> QED BY <2>1
<1>3. PICK h \in Frames : h = HookFrame(r, "ajaxComplete") /\ h \notin Waits /\ h \notin CallFrames
  <2>1. PICK x : x = HookFrame(r, "ajaxComplete")
    OBVIOUS
  <2>2. "ajaxComplete" \in Hooks /\ "ajaxComplete" \notin Setup
    BY DEF Hooks, Setup
  <2>3. x \in Frames /\ x \notin CallFrames /\ x \notin SetupFrames /\ x \notin Late
    BY <2>1, <2>2, HookKinds
  <2> QED BY <2>1, <2>3 DEF Waits
<1>4. PICK ls, ph : ls = lists /\ ph = phase
  OBVIOUS
<1>5. StackGood(ls, ph, <<h>> \o b) /\ <<h>> \o b \in Seq(Frames)
  BY <1>2, <1>3, <1>4, GoodPush DEF FrameGood, Waits
<1>6. PICK s \in Seq(Frames) : /\ s = IF counted[r] THEN <<h>> \o b ELSE b
                               /\ StackGood(ls, phase, s)
  BY <1>2, <1>4, <1>5
<1>7. PICK id \in ListIds : id = <<r, "complete">>
  BY OutcomeIds
<1>8. FireWith(ls, id, s)
  BY <1>2, <1>3, <1>4, <1>6, <1>7 DEF Completes
<1>9. ListsOK(ls) /\ Aside(ls) /\ Unheard(ls, phase)
  BY <1>4 DEF TypeInv, OutcomeInv
<1>10. id[1] \in Requests => phase[id[1]] = "done" \/ id[2] = "complete"
  BY <1>7
<1>11. OutcomeInv' /\ \A q \in ListIds : q # id /\ lists'[q].fired => ls[q].fired
  BY <1>1, <1>6, <1>8, <1>9, <1>10, FireGood
<1> QED BY <1>4, <1>7, <1>11

LEMMA OutcomeInvInit == Init => OutcomeInv
<1> SUFFICES ASSUME Init PROVE OutcomeInv
  OBVIOUS
<1>1. frames = <<>> /\ lists = [id \in ListIds |-> NewList(id[2])]
  BY DEF Init, DeferredInit
<1>2. ASSUME NEW id \in ListIds
      PROVE  /\ ~lists[id].fired
             /\ \A p \in DOMAIN lists[id].fns : EntryAside(lists[id].fns[p])
  <2>1. PICK l : l = NewList(id[2])
    OBVIOUS
  <2>2. l.fired = FALSE /\ (l.fns = <<>> \/ l.fns = <<SettleEntry>>) /\ lists[id] = l
    BY <1>1, <2>1 DEF NewList
  <2>3. EntryAside(SettleEntry)
    BY DEF SettleEntry, EntryAside
  <2> QED BY <2>2, <2>3
<1>3. Aside(lists)
  BY <1>2 DEF Aside
<1>4. Unheard(lists, phase)
  BY <1>2, OutcomeIds DEF Unheard
<1>5. StackGood(lists, phase, frames)
  BY <1>1 DEF StackGood
<1> QED BY <1>3, <1>4, <1>5 DEF OutcomeInv

\* Every step but Completes leaves the lists complete as they are.
LEMMA OutcomeInvStep ==
    AjaxInv /\ CallsInv /\ OutcomeInv /\ [Next]_vars
        => OutcomeInv' /\ (CompleteKept \/ \E r \in Requests : Completes(r))
<1> SUFFICES ASSUME AjaxInv, CallsInv, OutcomeInv, [Next]_vars
             PROVE  OutcomeInv' /\ (CompleteKept \/ \E r \in Requests : Completes(r))
  OBVIOUS
<1>1. TypeInv
  BY DEF AjaxInv
<1>2. ASSUME DeferredStep \/ PageStep, UNCHANGED ajaxVars
      PROVE  OutcomeInv' /\ CompleteKept
  BY <1>1, <1>2, LoopGood, PageGood DEF ajaxVars
<1>3. ASSUME NEW r \in Requests,
             \/ SettledHandled(r) \/ Uncounts(r) \/ StopHandled(r) \/ Prefiltered(r)
             \/ StartHandled(r) \/ ReadyToSend(r)
      PROVE  OutcomeInv' /\ CompleteKept
  BY <1>1, <1>3, AjaxQuietGood
<1>4. ASSUME NEW r \in Requests, NotSent(r) \/ SendThrows(r) \/ Abort(r) \/ Timeout(r)
      PROVE  OutcomeInv' /\ CompleteKept
  BY <1>1, <1>4, SettledOutcome
<1>5. ASSUME NEW r \in Requests,
             CallsStatus(r) \/ Sent(r) \/ SendsNothing(r)
      PROVE  OutcomeInv' /\ CompleteKept
  BY <1>5, CallsStatusGood, SentGood, SendsNothingGood
<1>6. ASSUME NEW r \in Requests, AjaxCall(r) \/ StatusCode(r) \/ AnswerThrows(r)
      PROVE  OutcomeInv' /\ CompleteKept
  BY <1>1, <1>6, AjaxCallGood, RestGood
<1>7. ASSUME NEW r \in Requests, NEW ok \in Heard, Answered(r, ok)
      PROVE  OutcomeInv' /\ CompleteKept
  BY <1>1, <1>7, SettledOutcome
<1>8. ASSUME NEW r \in Requests, Completes(r)
      PROVE  OutcomeInv'
  BY <1>1, <1>8, CompletesGood
<1>9. ASSUME UNCHANGED vars
      PROVE  OutcomeInv' /\ CompleteKept
  BY <1>9 DEF vars, deferredVars, ajaxVars, OutcomeInv, CompleteKept
<1> QED BY <1>2, <1>3, <1>4, <1>5, <1>6, <1>7, <1>8, <1>9 DEF Next, AjaxStep

\* Where complete starts, the list of the outcome has fired, nothing fires it still,
\* and so it has nothing left to call.
LEMMA OutcomeOver ==
    ASSUME TypeInv, CallsInv, OutcomeInv, NEW r \in Requests, Completes(r)
    PROVE  \E id \in Outcomes(r) : Kept(id) /\ (called[id] = registered[id] \/ threw)
<1>1. frames # <<>> /\ On("close") /\ Top.request = r
  BY DEF Completes, On
<1>2. Top \in CloseFrames
  <2>1. PICK g : g = Top
    OBVIOUS
  <2>2. g \in Frames /\ g.code = "close"
    BY <1>1, <2>1, TopFrame DEF On
  <2>3. g \in CloseFrames
    BY <2>2 DEF Frames, PlainFrames, AjaxFrames, FireFrames, CallFrames, HookFrames,
                StatusFrames, CloseFrames
  <2> QED BY <2>1, <2>3
<1>3. Top \in Late /\ Top \in Waits
  BY <1>2 DEF Late, Waits
<1>4. PICK id \in Outcomes(r) : lists[id].fired
  BY <1>1, <1>3, GoodBelow DEF FrameGood
<1>5. \A i \in DOMAIN frames : frames[i] # FireFrame(id)
  <2>1. PICK s \in Seq(Frames) : s = frames /\ s # <<>>
    BY <1>1 DEF TypeInv
  <2>2. \A j \in DOMAIN Tail(s) : Tail(s)[j] # FireFrame(id)
    BY <1>1, <1>3, <2>1, GoodBelow DEF Loops, Below
  <2>3. s[1] # FireFrame(id)
    BY <1>2, <2>1, NoLoop DEF Top, AjaxFrames
  <2>4. \A i \in DOMAIN s : i = 1 \/ (i - 1 \in DOMAIN Tail(s) /\ s[i] = Tail(s)[i - 1])
    BY <2>1
  <2> QED BY <2>1, <2>2, <2>3, <2>4
<1>6. id \in ListIds /\ id \in Calling /\ id \in Settling /\ id[1] = r /\ r \in Deferreds
  BY OutcomeIds, OutcomesOK
<1>7. ~lists[id].firing \/ threw
  BY <1>5, <1>6 DEF CallsInv, CallsOK, LoopOK
<1>8. PICK l \in List : l = lists[id]
  BY <1>6 DEF TypeInv, ListsOK
<1>9. PICK ca, re \in Seq(Fns) : ca = called[id] /\ re = registered[id]
  BY <1>6 DEF TypeInv, DeferredTypes
<1>10. ListInv(l, ca, re) /\ SettlingInv(l, state[r], Outcome(id[2]), ca)
  BY <1>6, <1>8, <1>9 DEF CallsInv, CallsOK, GoodList
<1>11. l.fired /\ l.on
  BY <1>4, <1>8, <1>10 DEF ListInv
<1>12. state[r] # "pending"
  BY <1>1, <1>4, <1>6, QuietTop, BaseHere DEF Base, NoneSettles
<1>13. state[r] = Outcome(id[2])
  BY <1>10, <1>11, <1>12 DEF SettlingInv
<1>14. Kept(id)
  BY <1>6, <1>13 DEF Outcomes, Kept, Outcome
<1>15. ASSUME ~l.firing
       PROVE  ca = re
  <2>1. l.fns = <<>> /\ l.next = 1 /\ Due(l.fns, l.next, ca, re)
    BY <1>10, <1>11, <1>15 DEF ListInv
  <2>2. PagesFrom(<<>>, 1) = {}
    BY DEF PagesFrom, PagesIn
  <2>3. Cardinality(PagesFrom(<<>>, 1)) = 0
    BY <2>2, FS_EmptySet
  <2>4. Len(re) = Len(ca)
    BY <2>1, <2>3 DEF Due
  <2> QED BY <1>10, <2>4 DEF ListInv
<1> QED BY <1>7, <1>8, <1>9, <1>14, <1>15

\* complete comes after success and error: in whatever order callbacks abort, settle
\* and add, and whatever done is called from, the list complete of a request starts
\* only where the list of its outcome has called every function it was given, unless
\* a function threw (done, :8242-8268).
THEOREM CompleteLast == Spec => CompleteComesLast
<1>1. Init => AjaxInv /\ CallsInv /\ OutcomeInv
  BY AjaxInvInit, CallsInvInit, OutcomeInvInit
<1>2. ASSUME AjaxInv, CallsInv, OutcomeInv, [Next]_vars
      PROVE  /\ AjaxInv' /\ CallsInv' /\ OutcomeInv'
             /\ \A r \in Requests :
                   ~lists[<<r, "complete">>].fired /\ lists'[<<r, "complete">>].fired
                      => \E id \in Outcomes(r) :
                            Kept(id) /\ (called[id] = registered[id] \/ threw)
  <2>1. /\ AjaxInv' /\ CallsInv' /\ OutcomeInv'
        /\ CompleteKept \/ \E r \in Requests : Completes(r)
    BY <1>2, AjaxInvStep, CallsInvStep, OutcomeInvStep
  <2>2. TypeInv
    BY <1>2 DEF AjaxInv
  <2> SUFFICES ASSUME NEW r \in Requests, ~lists[<<r, "complete">>].fired,
                      lists'[<<r, "complete">>].fired
               PROVE  \E id \in Outcomes(r) :
                         Kept(id) /\ (called[id] = registered[id] \/ threw)
    BY <2>1
  <2>3. PICK q \in Requests : Completes(q)
    BY <2>1 DEF CompleteKept
  <2>4. q = r
    BY <1>2, <2>2, <2>3, OutcomeIds, CompletesGood
  <2> QED BY <1>2, <2>2, <2>3, <2>4, OutcomeOver
<1> QED BY <1>1, <1>2, PTL DEF Spec, CompleteComesLast

-----------------------------------------------------------------------------
(* The invariant: what then and when make of an outcome.                   *)

\* The entries by which a list settles another deferred, and which.
Derives(e) == e.kind \in {"then", "count", "forward"}
About(e) == CASE e.kind = "then"  -> e.to
              [] e.kind = "count" -> e.of
              [] OTHER            -> e.to[1]

\* Those of a list that are still to come, each of another deferred.
Coming(l) == {p \in DOMAIN l.fns : l.on /\ p >= l.next /\ Derives(l.fns[p])}
Owed(l) == {l.fns[p] : p \in Coming(l)}
OwedOnce(l) == \A p, q \in Coming(l) : About(l.fns[p]) = About(l.fns[q]) => p = q
Owes(ls, id, t) == \E e \in Owed(ls[id]) : About(e) = t

\* then adds to done a function and to both lists what passes the outcome on, when a
\* count to done.
EntryShape(id, e, pa) ==
    /\ e.kind \in {"then", "count"} => id[2] = "done"
    /\ e.kind = "forward" => e.to[2] = id[2]
    /\ e.kind = "then" => pa[e.to] = {} /\ e.to # id[1]
    /\ e.kind = "count" => pa[e.of] # {}
    /\ e.kind = "forward" /\ id[2] = "done" => pa[e.to[1]] = {}

EntriesOK(ls, pa) ==
    /\ \A id \in Settling : OwedOnce(ls[id]) /\ \A e \in Owed(ls[id]) : EntryShape(id, e, pa)
    /\ \A id \in ListIds \ Settling : \A p \in DOMAIN ls[id].fns : ~Derives(ls[id].fns[p])

\* The deferreds whose function, given to then, runs.
ThenFrame(f) == f \in CallFrames /\ f.then # NoDeferred
Thens(s) == {s[i].then : i \in {j \in DOMAIN s : ThenFrame(s[j])}}
ThensOK(s, fo) ==
    \A i \in DOMAIN s : ThenFrame(s[i]) =>
        /\ s[i].list = <<fo[s[i].then], "done">>
        /\ \A j \in DOMAIN s : ThenFrame(s[j]) /\ s[i].then = s[j].then => i = j

\* A deferred that takes over the outcome of d, itself if it is not one of then.
Follow(t, d, ls, th, runs) ==
    /\ \A k \in {"done", "fail"} :
          /\ ls[<<t, k>>].fired => ls[<<d, k>>].fired
          /\ ls[<<d, k>>].on => d = t \/ Owes(ls, <<d, k>>, t) \/ runs \/ ls[<<t, k>>].fired \/ th
          /\ d # t /\ Owes(ls, <<d, k>>, t) => ~ls[<<t, k>>].fired
    /\ \A id \in Settling : Owes(ls, id, t) => id[1] = d
    /\ runs => /\ ls[<<d, "done">>].fired
               /\ \A k \in {"done", "fail"} : ~ls[<<t, k>>].fired
               /\ \A id \in Settling : ~Owes(ls, id, t)

\* The parts of a when that it has still to count, or never will.
Uncounted(ls, m, ds) == {d \in ds : ~ls[<<d, "done">>].on \/ Owes(ls, <<d, "done">>, m)}

\* A when of ds.
Join(m, ds, ls, n) ==
    /\ \A id \in Settling : Owes(ls, id, m) => id[1] \in ds
    /\ ls[<<m, "done">>].fired <=> n = 0
    /\ ls[<<m, "fail">>].fired => \E d \in ds : ls[<<d, "fail">>].fired
    /\ IsFiniteSet(ds) /\ n = Cardinality(Uncounted(ls, m, ds))
    /\ \A d \in ds :
          /\ d \in Uncounted(ls, m, ds) \/ ls[<<d, "done">>].fired
          /\ ls[<<d, "fail">>].on => Owes(ls, <<d, "fail">>, m) \/ ls[<<m, "fail">>].fired

\* A deferred that is not made.
Fresh(t, ls, pa, fo) ==
    /\ fo[t] = t /\ pa[t] = {}
    /\ \A k \in {"done", "fail"} : ~ls[<<t, k>>].fired
    /\ \A id \in Settling : ~Owes(ls, id, t)

Derived(t, ls, s, mk, pa, fo, re, th) ==
    /\ t \notin mk => Fresh(t, ls, pa, fo) /\ t \notin Thens(s)
    /\ t \in Requests => fo[t] = t /\ pa[t] = {}
    /\ pa[t] = {} => Follow(t, fo[t], ls, th, t \in Thens(s))
    /\ pa[t] # {} => fo[t] = t /\ t \notin Thens(s) /\ Join(t, pa[t], ls, re[t])

DerivedOK(ls, s, mk, pa, fo, re, th) ==
    /\ EntriesOK(ls, pa) /\ ThensOK(s, fo)
    /\ \A t \in Deferreds : Derived(t, ls, s, mk, pa, fo, re, th)

DerivedInv == DerivedOK(lists, frames, made, parts, follows, remaining, threw)

\* A list that is off owes nothing.
LEMMA OffOwes ==
    ASSUME NEW l, ~l.on \/ l.fns = <<>>
    PROVE  Coming(l) = {} /\ Owed(l) = {} /\ OwedOnce(l)
<1>1. Coming(l) = {}
  BY DEF Coming
<1> QED BY <1>1 DEF Owed, OwedOnce

\* What a list owes depends on few of its fields.
LEMMA SameOwes ==
    ASSUME NEW l, NEW m, m.on = l.on, m.next = l.next, m.fns = l.fns
    PROVE  Owed(m) = Owed(l) /\ (OwedOnce(l) => OwedOnce(m))
<1>1. Coming(m) = Coming(l)
  BY DEF Coming
<1> QED BY <1>1 DEF Owed, OwedOnce

\* The loop goes past the next entry.
LEMMA NextOwes ==
    ASSUME NEW l \in List, ListOK(l), l.on, l.next <= l.length, OwedOnce(l),
           NEW m \in {[l EXCEPT !.next = @ + 1]}, NEW e \in {l.fns[l.next]}
    PROVE  /\ OwedOnce(m)
           /\ ~Derives(e) => Owed(m) = Owed(l)
           /\ Derives(e) => /\ e \in Owed(l) /\ Owed(m) \subseteq Owed(l)
                            /\ \A f \in Owed(m) : About(f) # About(e)
                            /\ \A f \in Owed(l) : About(f) # About(e) => f \in Owed(m)
<1>1. /\ m.on = l.on /\ m.next = l.next + 1 /\ m.fns = l.fns
      /\ l.fns \in Seq(Entry) /\ l.next \in DOMAIN l.fns /\ l.next \in Nat
  BY NextFields
<1>2. \A p \in DOMAIN l.fns : p \in Nat
  BY <1>1
<1>3. Coming(m) = Coming(l) \ {l.next}
  BY <1>1, <1>2 DEF Coming
<1>4. Derives(e) => l.next \in Coming(l)
  BY <1>1 DEF Coming
<1>5. ~Derives(e) => l.next \notin Coming(l)
  BY DEF Coming
<1>6. OwedOnce(m)
  BY <1>1, <1>3 DEF OwedOnce
<1>7. ASSUME ~Derives(e)
      PROVE  Owed(m) = Owed(l)
  BY <1>1, <1>3, <1>5, <1>7 DEF Owed
<1>8. ASSUME Derives(e)
      PROVE  /\ e \in Owed(l) /\ Owed(m) \subseteq Owed(l)
             /\ \A f \in Owed(m) : About(f) # About(e)
             /\ \A f \in Owed(l) : About(f) # About(e) => f \in Owed(m)
  <2>1. e \in Owed(l) /\ Owed(m) \subseteq Owed(l)
    BY <1>1, <1>3, <1>4, <1>8 DEF Owed
  <2>2. ASSUME NEW f \in Owed(m)
        PROVE  About(f) # About(e)
    <3>1. PICK p \in Coming(m) : f = l.fns[p]
      BY <1>1 DEF Owed
    <3>2. p \in Coming(l) /\ p # l.next
      BY <1>3, <3>1
    <3> QED BY <1>4, <1>8, <3>1, <3>2 DEF OwedOnce
  <2>3. ASSUME NEW f \in Owed(l), About(f) # About(e)
        PROVE  f \in Owed(m)
    <3>1. PICK p \in Coming(l) : f = l.fns[p]
      BY DEF Owed
    <3>2. p # l.next
      BY <2>3, <3>1
    <3>3. p \in Coming(m)
      BY <1>3, <3>1, <3>2
    <3> QED BY <1>1, <3>1, <3>3 DEF Owed
  <2> QED BY <2>1, <2>2, <2>3
<1> QED BY <1>6, <1>7, <1>8

\* An entry is added.
LEMMA AddedOwes ==
    ASSUME NEW l \in List, ListOK(l), NEW ca, NEW re, ListInv(l, ca, re),
           OwedOnce(l), NEW e \in Entry, NEW m \in {Added(l, e)},
           Derives(e) => \A f \in Owed(l) : About(f) # About(e)
    PROVE  /\ OwedOnce(m) /\ Owed(l) \subseteq Owed(m) /\ m.on = l.on /\ m.fired = l.fired
           /\ Owed(m) \subseteq Owed(l) \cup {e}
           /\ ~Derives(e) \/ ~l.on => Owed(m) = Owed(l)
           /\ Derives(e) /\ l.on => e \in Owed(m)
<1>1. /\ m.on = l.on
      /\ ~l.on => m = l
      /\ l.on => m.fns = Append(l.fns, e)
      /\ l.on /\ (l.firing \/ ~l.memory) => m.fired = l.fired /\ m.next = l.next
      /\ l.on /\ ~l.firing /\ l.memory => m.fired = TRUE /\ m.next = Len(l.fns) + 1
  BY AddedFields
<1>2. /\ l.fns \in Seq(Entry) /\ l.next \in Nat /\ l.on \in BOOLEAN /\ l.fired \in BOOLEAN
      /\ l.firing \in BOOLEAN /\ l.memory \in BOOLEAN
  BY ListFields
<1>3. CASE ~l.on
  BY <1>1, <1>3, OffOwes
<1>4. CASE l.on
  <2>1. m.fired = l.fired /\ m.next = l.next
    <3>1. CASE l.firing \/ ~l.memory
      BY <1>1, <1>4, <3>1
    <3>2. CASE ~l.firing /\ l.memory
      <4>1. l.fired /\ l.memory = l.fired /\ l.fns = <<>> /\ l.next = 1
        BY <1>2, <1>4, <3>2 DEF ListInv
      <4>2. m.fired = TRUE /\ m.next = 1
        BY <1>1, <1>4, <3>2, <4>1
      <4> QED BY <1>2, <4>1, <4>2
    <3> QED BY <1>2, <3>1, <3>2
  <2>2. PICK n \in Nat : n = Len(l.fns)
    BY <1>2
  <2>3. PICK fns \in Seq(Entry) : fns = l.fns
    BY <1>2
  <2>4. /\ DOMAIN m.fns = DOMAIN l.fns \cup {n + 1}
        /\ \A p \in DOMAIN l.fns : m.fns[p] = l.fns[p] /\ p \in Nat /\ p <= n
        /\ m.fns[n + 1] = e
    BY <1>1, <1>4, <2>2, <2>3
  <2>5. l.next <= n + 1 /\ n + 1 \notin DOMAIN l.fns
    BY <1>2, <1>4, <2>2, <2>4, ListFields DEF ListOK
  <2>6. Coming(m) = Coming(l) \cup (IF Derives(e) THEN {n + 1} ELSE {})
    BY <1>1, <1>2, <1>4, <2>1, <2>2, <2>4, <2>5 DEF Coming
  <2>7. Coming(l) \subseteq DOMAIN l.fns
    BY DEF Coming
  <2>8. \A p \in Coming(l) : m.fns[p] = l.fns[p] /\ l.fns[p] \in Owed(l) /\ p # n + 1
    BY <2>4, <2>5, <2>7 DEF Owed
  <2>9. Owed(m) = Owed(l) \cup (IF Derives(e) THEN {e} ELSE {})
    BY <2>4, <2>6, <2>8 DEF Owed
  <2>10. OwedOnce(m)
    <3> SUFFICES ASSUME NEW p \in Coming(m), NEW q \in Coming(m),
                        About(m.fns[p]) = About(m.fns[q])
                 PROVE  p = q
      BY DEF OwedOnce
    <3>1. CASE p \in Coming(l) /\ q \in Coming(l)
      BY <2>8, <3>1 DEF OwedOnce
    <3>2. CASE p \notin Coming(l)
      BY <2>4, <2>6, <2>8, <3>2
    <3>3. CASE q \notin Coming(l)
      BY <2>4, <2>6, <2>8, <3>3
    <3> QED BY <3>1, <3>2, <3>3
  <2> QED BY <1>1, <1>4, <2>1, <2>9, <2>10
<1> QED BY <1>2, <1>3, <1>4

-----------------------------------------------------------------------------
(* Lemmas about the functions given to then that run.                      *)

\* Frames that run no such function are put on.
LEMMA ThensGrow ==
    ASSUME NEW p \in Seq(Frames), NEW s \in Seq(Frames), NEW fo,
           \A i \in DOMAIN p : ~ThenFrame(p[i])
    PROVE  Thens(p \o s) = Thens(s) /\ (ThensOK(s, fo) => ThensOK(p \o s, fo))
<1>1. PICK t : t = p \o s
  OBVIOUS
<1>2. PICK n \in Nat : n = Len(p)
  OBVIOUS
<1>3. /\ \A i \in DOMAIN t : /\ i \in Int
                             /\ i <= n => t[i] = p[i] /\ i \in DOMAIN p
                             /\ i > n => i - n \in DOMAIN s /\ t[i] = s[i - n]
      /\ \A j \in DOMAIN s : j + n \in DOMAIN t /\ t[j + n] = s[j] /\ j \in Int
  BY <1>1, <1>2
<1>4. \A i \in DOMAIN t : ThenFrame(t[i]) =>
          i \in Int /\ i - n \in DOMAIN s /\ t[i] = s[i - n]
  BY <1>3
<1>5. Thens(t) = Thens(s)
  BY <1>3, <1>4 DEF Thens
<1>6. ASSUME ThensOK(s, fo)
      PROVE  ThensOK(t, fo)
  <2> SUFFICES ASSUME NEW i \in DOMAIN t, ThenFrame(t[i])
               PROVE  /\ t[i].list = <<fo[t[i].then], "done">>
                      /\ \A j \in DOMAIN t : ThenFrame(t[j]) /\ t[i].then = t[j].then => i = j
    BY DEF ThensOK
  <2>1. t[i].list = <<fo[t[i].then], "done">>
    BY <1>4, <1>6 DEF ThensOK
  <2>2. ASSUME NEW j \in DOMAIN t, ThenFrame(t[j]), t[i].then = t[j].then
        PROVE  i = j
    BY <1>4, <1>6, <2>2 DEF ThensOK
  <2> QED BY <2>1, <2>2
<1> QED BY <1>1, <1>5, <1>6

\* The top is taken off.
LEMMA ThensPop ==
    ASSUME NEW s \in Seq(Frames), s # <<>>, NEW fo, ThensOK(s, fo)
    PROVE  /\ ThensOK(Tail(s), fo)
           /\ ~ThenFrame(Head(s)) => Thens(Tail(s)) = Thens(s)
           /\ ThenFrame(Head(s)) => /\ Head(s).then \in Thens(s)
                                    /\ Head(s).then \notin Thens(Tail(s))
                                    /\ \A x \in Thens(s) : x # Head(s).then => x \in Thens(Tail(s))
                                    /\ Thens(Tail(s)) \subseteq Thens(s)
                                    /\ Head(s).list = <<fo[Head(s).then], "done">>
<1>1. PICK t : t = Tail(s)
  OBVIOUS
<1>2. /\ 1 \in DOMAIN s /\ Head(s) = s[1]
      /\ \A i \in DOMAIN s : i \in Int /\ (i # 1 => i - 1 \in DOMAIN t /\ s[i] = t[i - 1])
      /\ \A j \in DOMAIN t : /\ j \in Int /\ j + 1 \in DOMAIN s /\ t[j] = s[j + 1]
                             /\ j + 1 # 1
  BY <1>1
<1>3. ThensOK(t, fo)
  <2> SUFFICES ASSUME NEW i \in DOMAIN t, ThenFrame(t[i])
               PROVE  /\ t[i].list = <<fo[t[i].then], "done">>
                      /\ \A j \in DOMAIN t : ThenFrame(t[j]) /\ t[i].then = t[j].then => i = j
    BY DEF ThensOK
  <2>1. t[i].list = <<fo[t[i].then], "done">>
    BY <1>2 DEF ThensOK
  <2>2. ASSUME NEW j \in DOMAIN t, ThenFrame(t[j]), t[i].then = t[j].then
        PROVE  i = j
    <3>1. /\ i + 1 \in DOMAIN s /\ j + 1 \in DOMAIN s /\ i \in Int /\ j \in Int
          /\ ThenFrame(s[i + 1]) /\ ThenFrame(s[j + 1]) /\ s[i + 1].then = s[j + 1].then
      BY <1>2, <2>2
    <3>2. i + 1 = j + 1
      BY <3>1 DEF ThensOK
    <3> QED BY <3>1, <3>2
  <2> QED BY <2>1, <2>2
<1>4. \A x \in Thens(t) : \E j \in DOMAIN t : ThenFrame(t[j]) /\ t[j].then = x
  BY DEF Thens
<1>5. \A x \in Thens(s) : \E i \in DOMAIN s : ThenFrame(s[i]) /\ s[i].then = x
  BY DEF Thens
<1>6. Thens(t) \subseteq Thens(s)
  BY <1>2, <1>4 DEF Thens
<1>7. ASSUME NEW x \in Thens(s), ~ThenFrame(Head(s)) \/ x # Head(s).then
      PROVE  x \in Thens(t)
  <2>1. PICK i \in DOMAIN s : ThenFrame(s[i]) /\ s[i].then = x
    BY <1>5
  <2>2. i # 1
    BY <1>2, <1>7, <2>1
  <2>3. i - 1 \in DOMAIN t /\ s[i] = t[i - 1]
    BY <1>2, <2>2
  <2> QED BY <2>1, <2>3 DEF Thens
<1>8. ASSUME ThenFrame(Head(s))
      PROVE  /\ Head(s).then \in Thens(s) /\ Head(s).then \notin Thens(t)
             /\ Head(s).list = <<fo[Head(s).then], "done">>
  <2>1. Head(s).then \in Thens(s)
    BY <1>2, <1>8 DEF Thens
  <2>2. Head(s).list = <<fo[Head(s).then], "done">>
    BY <1>2, <1>8 DEF ThensOK
  <2>3. ASSUME Head(s).then \in Thens(t)
        PROVE  FALSE
    <3>1. PICK j \in DOMAIN t : ThenFrame(t[j]) /\ t[j].then = Head(s).then
      BY <1>4, <2>3
    <3>2. j + 1 \in DOMAIN s /\ ThenFrame(s[j + 1]) /\ s[1].then = s[j + 1].then /\ j + 1 # 1
      BY <1>2, <3>1
    <3> QED BY <1>2, <1>8, <3>2 DEF ThensOK
  <2> QED BY <2>1, <2>2, <2>3
<1> QED BY <1>1, <1>3, <1>6, <1>7, <1>8

\* Such a function is called.
LEMMA ThensPush ==
    ASSUME NEW s \in Seq(Frames), NEW f \in Frames, ThenFrame(f), f.then \notin Thens(s),
           NEW fo, f.list = <<fo[f.then], "done">>, ThensOK(s, fo)
    PROVE  ThensOK(<<f>> \o s, fo) /\ Thens(<<f>> \o s) = Thens(s) \cup {f.then}
<1>1. PICK t : t = <<f>> \o s
  OBVIOUS
<1>2. /\ 1 \in DOMAIN t /\ t[1] = f
      /\ \A i \in DOMAIN t : i \in Int /\ (i # 1 => i - 1 \in DOMAIN s /\ t[i] = s[i - 1])
      /\ \A j \in DOMAIN s : j \in Int /\ j + 1 \in DOMAIN t /\ s[j] = t[j + 1] /\ j + 1 # 1
  BY <1>1
<1>3. \A j \in DOMAIN s : ThenFrame(s[j]) => s[j].then \in Thens(s)
  BY DEF Thens
<1>4. ThensOK(t, fo)
  <2> SUFFICES ASSUME NEW i \in DOMAIN t, ThenFrame(t[i])
               PROVE  /\ t[i].list = <<fo[t[i].then], "done">>
                      /\ \A j \in DOMAIN t : ThenFrame(t[j]) /\ t[i].then = t[j].then => i = j
    BY DEF ThensOK
  <2>1. t[i].list = <<fo[t[i].then], "done">>
    BY <1>2 DEF ThensOK
  <2>2. ASSUME NEW j \in DOMAIN t, ThenFrame(t[j]), t[i].then = t[j].then
        PROVE  i = j
    <3>1. CASE i = 1 \/ j = 1
      BY <1>2, <1>3, <2>2, <3>1
    <3>2. CASE i # 1 /\ j # 1
      BY <1>2, <2>2, <3>2 DEF ThensOK
    <3> QED BY <3>1, <3>2
  <2> QED BY <2>1, <2>2
<1>5. Thens(t) = Thens(s) \cup {f.then}
  <2>1. ASSUME NEW x \in Thens(t)
        PROVE  x \in Thens(s) \cup {f.then}
    BY <1>2, <2>1 DEF Thens
  <2>2. ASSUME NEW x \in Thens(s)
        PROVE  x \in Thens(t)
    BY <1>2, <2>2 DEF Thens
  <2>3. f.then \in Thens(t)
    BY <1>2 DEF Thens
  <2> QED BY <2>1, <2>2, <2>3
<1> QED BY <1>1, <1>4, <1>5

\* The deferred another follows has changed, and its function does not run.
LEMMA ThensFollow ==
    ASSUME NEW s, NEW fo, ThensOK(s, fo), NEW ft, \A x \in Thens(s) : ft[x] = fo[x]
    PROVE  ThensOK(s, ft)
<1>1. \A i \in DOMAIN s : ThenFrame(s[i]) => s[i].then \in Thens(s)
  BY DEF Thens
<1> QED BY <1>1 DEF ThensOK

-----------------------------------------------------------------------------
(* Lemmas about one deferred.                                              *)

\* What moves from ls to lt concerns the outcome of other deferreds than t.
Unmoved(ls, lt, t) ==
    \A id \in Settling :
        /\ ls[id].fired => lt[id].fired
        /\ id[1] = t /\ lt[id].fired => ls[id].fired
        /\ lt[id].on => ls[id].on
        /\ ls[id].on /\ ~lt[id].on => ~ls[id].fired
        /\ Owes(lt, id, t) => Owes(ls, id, t)
        /\ lt[id].on /\ Owes(ls, id, t) => Owes(lt, id, t)

\* Nothing moves.
Still(ls, lt) ==
    \A id \in Settling : /\ lt[id].fired = ls[id].fired
                         /\ lt[id].on = ls[id].on
                         /\ Owed(lt[id]) = Owed(ls[id])

LEMMA StillUnmoved ==
    ASSUME NEW ls, NEW lt, Still(ls, lt), NEW t
    PROVE  Unmoved(ls, lt, t)
<1>1. \A id \in Settling : Owes(lt, id, t) <=> Owes(ls, id, t)
  BY DEF Owes, Still
<1> QED BY <1>1 DEF Unmoved, Still

LEMMA SettlingIds ==
    ASSUME NEW d \in Deferreds, NEW k \in {"done", "fail"}
    PROVE  /\ <<d, k>> \in Settling /\ <<d, k>> \in ListIds /\ <<d, k>> \in Calling
           /\ <<d, k>>[1] = d /\ <<d, k>>[2] = k
BY DEF Settling, ListIds, Kinds, Calling

LEMMA FollowKept ==
    ASSUME NEW t \in Deferreds, NEW d \in Deferreds, NEW ls, NEW lt, Unmoved(ls, lt, t),
           NEW th, NEW runs, Follow(t, d, ls, th, runs),
           NEW ht, th => ht, NEW goes, goes => runs, runs => goes \/ ht
    PROVE  Follow(t, d, lt, ht, goes)
<1>1. ASSUME NEW k \in {"done", "fail"}
      PROVE  /\ lt[<<t, k>>].fired => lt[<<d, k>>].fired
             /\ lt[<<d, k>>].on => d = t \/ Owes(lt, <<d, k>>, t) \/ goes \/ lt[<<t, k>>].fired \/ ht
             /\ d # t /\ Owes(lt, <<d, k>>, t) => ~lt[<<t, k>>].fired
             /\ goes => ~lt[<<t, k>>].fired
  <2>1. PICK i, j : i = <<t, k>> /\ j = <<d, k>>
    OBVIOUS
  <2>2. i \in Settling /\ j \in Settling /\ i[1] = t
    BY <2>1, SettlingIds
  <2>3. /\ ls[i].fired => ls[j].fired
        /\ ls[j].on => d = t \/ Owes(ls, j, t) \/ runs \/ ls[i].fired \/ th
        /\ d # t /\ Owes(ls, j, t) => ~ls[i].fired
        /\ runs => ~ls[i].fired
    BY <2>1 DEF Follow
  <2>4. /\ lt[i].fired => ls[i].fired
        /\ ls[i].fired => lt[i].fired
        /\ ls[j].fired => lt[j].fired
        /\ lt[j].on => ls[j].on
        /\ Owes(lt, j, t) => Owes(ls, j, t)
        /\ lt[j].on /\ Owes(ls, j, t) => Owes(lt, j, t)
    BY <2>2 DEF Unmoved
  <2> QED BY <2>1, <2>3, <2>4
<1>2. \A id \in Settling : Owes(lt, id, t) => id[1] = d
  BY DEF Follow, Unmoved
<1>3. goes => /\ lt[<<d, "done">>].fired
              /\ \A id \in Settling : ~Owes(lt, id, t)
  BY SettlingIds DEF Follow, Unmoved
<1> QED BY <1>1, <1>2, <1>3 DEF Follow

LEMMA JoinKept ==
    ASSUME NEW m \in Deferreds, NEW ds \in SUBSET Deferreds, NEW ls, NEW lt,
           Unmoved(ls, lt, m), NEW n, Join(m, ds, ls, n)
    PROVE  Join(m, ds, lt, n)
<1>1. PICK md, mf : md = <<m, "done">> /\ mf = <<m, "fail">>
  OBVIOUS
<1>2. md \in Settling /\ mf \in Settling /\ md[1] = m /\ mf[1] = m
  BY <1>1, SettlingIds
<1>3. (lt[md].fired <=> ls[md].fired) /\ (lt[mf].fired <=> ls[mf].fired)
  BY <1>2 DEF Unmoved
<1>4. ASSUME NEW d \in ds
      PROVE  /\ d \in Uncounted(lt, m, ds) <=> d \in Uncounted(ls, m, ds)
             /\ d \in Uncounted(lt, m, ds) \/ lt[<<d, "done">>].fired
             /\ ls[<<d, "fail">>].fired => lt[<<d, "fail">>].fired
             /\ lt[<<d, "fail">>].on => Owes(lt, <<d, "fail">>, m) \/ lt[mf].fired
  <2>1. PICK i, j : i = <<d, "done">> /\ j = <<d, "fail">>
    OBVIOUS
  <2>2. i \in Settling /\ j \in Settling
    BY <2>1, SettlingIds
  <2>3. /\ d \in Uncounted(ls, m, ds) \/ ls[i].fired
        /\ ls[j].on => Owes(ls, j, m) \/ ls[mf].fired
    BY <1>1, <2>1 DEF Join
  <2>4. /\ ls[i].fired => lt[i].fired
        /\ ls[j].fired => lt[j].fired
        /\ lt[i].on => ls[i].on
        /\ lt[j].on => ls[j].on
        /\ ls[i].on /\ ~lt[i].on => ~ls[i].fired
        /\ Owes(lt, i, m) => Owes(ls, i, m)
        /\ lt[i].on /\ Owes(ls, i, m) => Owes(lt, i, m)
        /\ lt[j].on /\ Owes(ls, j, m) => Owes(lt, j, m)
    BY <2>2 DEF Unmoved
  <2>5. /\ d \in Uncounted(ls, m, ds) <=> ~ls[i].on \/ Owes(ls, i, m)
        /\ d \in Uncounted(lt, m, ds) <=> ~lt[i].on \/ Owes(lt, i, m)
    BY <2>1 DEF Uncounted
  <2> QED BY <1>3, <2>1, <2>3, <2>4, <2>5
<1>5. Uncounted(lt, m, ds) = Uncounted(ls, m, ds)
  BY <1>4 DEF Uncounted
<1>6. \A id \in Settling : Owes(lt, id, m) => id[1] \in ds
  BY DEF Join, Unmoved
<1> QED BY <1>1, <1>3, <1>4, <1>5, <1>6 DEF Join

LEMMA FreshKept ==
    ASSUME NEW t \in Deferreds, NEW ls, NEW lt, Unmoved(ls, lt, t),
           NEW pa, NEW fo, Fresh(t, ls, pa, fo), NEW pt, NEW ft, pt[t] = pa[t], ft[t] = fo[t]
    PROVE  Fresh(t, lt, pt, ft)
<1>1. ASSUME NEW k \in {"done", "fail"}
      PROVE  ~lt[<<t, k>>].fired
  <2>1. PICK i : i = <<t, k>>
    OBVIOUS
  <2>2. i \in Settling /\ i[1] = t /\ ~ls[i].fired
    BY <2>1, SettlingIds DEF Fresh
  <2>3. ~lt[i].fired
    BY <2>2 DEF Unmoved
  <2> QED BY <2>1, <2>3
<1> QED BY <1>1 DEF Fresh, Unmoved

\* A deferred that a step leaves alone.
LEMMA DerivedKept ==
    ASSUME NEW t \in Deferreds, NEW ls, NEW s, NEW mk, NEW pa, NEW fo, NEW re, NEW th,
           Derived(t, ls, s, mk, pa, fo, re, th),
           pa[t] \in SUBSET Deferreds, fo[t] \in Deferreds,
           NEW lt, Unmoved(ls, lt, t), NEW u, t \in Thens(u) => t \in Thens(s),
           NEW mt, t \in mk => t \in mt, NEW pt, pt[t] = pa[t], NEW ft, ft[t] = fo[t],
           NEW rt, rt[t] = re[t], NEW ht, th => ht, t \in Thens(s) => t \in Thens(u) \/ ht
    PROVE  Derived(t, lt, u, mt, pt, ft, rt, ht)
<1>1. t \notin mt => Fresh(t, lt, pt, ft) /\ t \notin Thens(u)
  BY FreshKept DEF Derived
<1>2. t \in Requests => ft[t] = t /\ pt[t] = {}
  BY DEF Derived
<1>3. ASSUME pt[t] = {}
      PROVE  Follow(t, ft[t], lt, ht, t \in Thens(u))
  <2>1. PICK d \in Deferreds : d = fo[t]
    OBVIOUS
  <2>2. PICK runs, goes : runs = (t \in Thens(s)) /\ goes = (t \in Thens(u))
    OBVIOUS
  <2>3. Follow(t, d, ls, th, runs)
    BY <1>3, <2>1, <2>2 DEF Derived
  <2>4. (goes => runs) /\ (runs => goes \/ ht)
    BY <2>2
  <2>5. Follow(t, d, lt, ht, goes)
    BY <2>3, <2>4, FollowKept
  <2> QED BY <2>1, <2>2, <2>5
<1>4. ASSUME pt[t] # {}
      PROVE  ft[t] = t /\ t \notin Thens(u) /\ Join(t, pt[t], lt, rt[t])
  <2>1. PICK ds \in SUBSET Deferreds : ds = pa[t]
    OBVIOUS
  <2>2. PICK n : n = re[t]
    OBVIOUS
  <2>3. fo[t] = t /\ t \notin Thens(s) /\ Join(t, ds, ls, n)
    BY <1>4, <2>1, <2>2 DEF Derived
  <2>4. Join(t, ds, lt, n)
    BY <2>3, JoinKept
  <2> QED BY <2>1, <2>2, <2>3, <2>4
<1> QED BY <1>1, <1>2, <1>3, <1>4 DEF Derived

\* No list gets more entries that settle a deferred.
OwesLess(ls, lt) ==
    /\ \A id \in Settling : OwedOnce(lt[id]) /\ Owed(lt[id]) \subseteq Owed(ls[id])
    /\ \A id \in ListIds \ Settling : \A p \in DOMAIN lt[id].fns : ~Derives(lt[id].fns[p])

LEMMA EntriesKept ==
    ASSUME NEW ls, NEW pa, EntriesOK(ls, pa), NEW lt, OwesLess(ls, lt)
    PROVE  EntriesOK(lt, pa)
BY DEF EntriesOK, OwesLess

\* A step that leaves all deferreds alone.
LEMMA AllKept ==
    ASSUME DerivedInv, TypeInv,
           \A t \in Deferreds : Unmoved(lists, lists', t), OwesLess(lists, lists'),
           ThensOK(frames', follows), Thens(frames') \subseteq Thens(frames),
           ~threw' => Thens(frames) \subseteq Thens(frames'),
           made \subseteq made', UNCHANGED <<parts, follows, remaining>>, threw => threw'
    PROVE  DerivedInv'
<1>1. PICK ls, lt, s, u, mk, mt, pa, fo, re, th, ht :
        /\ ls = lists /\ lt = lists' /\ s = frames /\ u = frames' /\ mk = made /\ mt = made'
        /\ pa = parts /\ fo = follows /\ re = remaining /\ th = threw /\ ht = threw'
  OBVIOUS
<1>2. DerivedOK(ls, s, mk, pa, fo, re, th)
  BY <1>1 DEF DerivedInv
<1>3. EntriesOK(lt, pa)
  BY <1>1, <1>2, EntriesKept DEF DerivedOK
<1>4. ASSUME NEW t \in Deferreds
      PROVE  Derived(t, lt, u, mt, pa, fo, re, ht)
  <2>1. Derived(t, ls, s, mk, pa, fo, re, th)
    BY <1>2 DEF DerivedOK
  <2>2. pa[t] \in SUBSET Deferreds /\ fo[t] \in Deferreds
    BY <1>1 DEF TypeInv, DeferredTypes
  <2>3. /\ Unmoved(ls, lt, t) /\ (t \in Thens(u) => t \in Thens(s)) /\ (t \in mk => t \in mt)
        /\ th => ht
        /\ t \in Thens(s) => t \in Thens(u) \/ ht
    BY <1>1
  <2> QED BY <2>1, <2>2, <2>3, DerivedKept
<1>5. DerivedOK(lt, u, mt, pa, fo, re, ht)
  BY <1>1, <1>3, <1>4 DEF DerivedOK
<1> QED BY <1>1, <1>5 DEF DerivedInv

-----------------------------------------------------------------------------
(* Lemmas about what steps do to outcomes.                                 *)

\* Loops run no function.
LEMMA NoThens ==
    ASSUME NEW p \in Seq(FireFrames), NEW s \in Seq(Frames), NEW fo
    PROVE  /\ Thens(p \o s) = Thens(s) /\ (ThensOK(s, fo) => ThensOK(p \o s, fo))
           /\ p \o s \in Seq(Frames)
<1>1. FireFrames \subseteq Frames /\ \A f \in FireFrames : ~ThenFrame(f)
  BY DEF Frames, PlainFrames, ThenFrame, FireFrames, CallFrames
<1>2. p \in Seq(Frames) /\ \A i \in DOMAIN p : ~ThenFrame(p[i])
  BY <1>1
<1>3. p \o s \in Seq(Frames)
  BY <1>2
<1> QED BY <1>2, <1>3, ThensGrow

\* Nor do the frames of ajax() and done.
LEMMA NoThenFrame ==
    ASSUME NEW f \in AjaxFrames, NEW s \in Seq(Frames), NEW fo
    PROVE  /\ Thens(<<f>> \o s) = Thens(s) /\ (ThensOK(s, fo) => ThensOK(<<f>> \o s, fo))
           /\ <<f>> \o s \in Seq(Frames)
<1>1. f \in Frames /\ ~ThenFrame(f)
  BY DEF Frames, AjaxFrames, HookFrames, StatusFrames, CloseFrames, ThenFrame, CallFrames
<1>2. PICK p : p = <<f>>
  OBVIOUS
<1>3. p \in Seq(Frames) /\ \A i \in DOMAIN p : ~ThenFrame(p[i])
  BY <1>1, <1>2
<1>4. p \o s \in Seq(Frames)
  BY <1>3
<1> QED BY <1>2, <1>3, <1>4, ThensGrow

\* Which lists of a deferred have fired, and which are off.
LEMMA OutcomeFacts ==
    ASSUME TypeInv, CallsInv, NEW d \in Deferreds, NEW k \in {"done", "fail"},
           NEW o \in {"done", "fail"}, o # k
    PROVE  /\ lists[<<d, k>>].fired => lists[<<d, k>>].on
           /\ ~lists[<<d, k>>].on => lists[<<d, o>>].fired
           /\ state[d] = Outcome(k) => /\ lists[<<d, k>>].fired
                                       /\ ~lists[<<d, o>>].on /\ ~lists[<<d, o>>].fired
           /\ lists[<<d, k>>].fired /\ state[d] # "pending" => state[d] = Outcome(k)
<1>1. PICK i, j : i = <<d, k>> /\ j = <<d, o>>
  OBVIOUS
<1>2. /\ i \in Settling /\ i \in ListIds /\ i \in Calling /\ i[1] = d /\ i[2] = k
      /\ j \in Settling /\ j \in ListIds /\ j \in Calling /\ j[1] = d /\ j[2] = o
  BY <1>1, SettlingIds
<1>3. /\ GoodList(i, lists[i], state[d], called[i], registered[i])
      /\ GoodList(j, lists[j], state[d], called[j], registered[j])
  BY <1>2 DEF CallsInv, CallsOK
<1>4. /\ ~lists[i].on => ~lists[i].fired
      /\ ~lists[j].on => ~lists[j].fired
  BY <1>2, <1>3 DEF GoodList, ListInv
<1>5. /\ SettlingInv(lists[i], state[d], Outcome(k), called[i])
      /\ SettlingInv(lists[j], state[d], Outcome(o), called[j])
  BY <1>2, <1>3 DEF GoodList
<1>6. state[d] \in {"pending", "resolved", "rejected"}
  BY DEF TypeInv, DeferredTypes
<1>7. /\ Outcome(k) # "pending" /\ Outcome(o) # "pending" /\ Outcome(k) # Outcome(o)
      /\ state[d] \in {"pending", Outcome(k), Outcome(o)}
  BY <1>6 DEF Outcome
<1> QED BY <1>1, <1>4, <1>5, <1>7 DEF SettlingInv

\* What firing a list does to the outcomes.
LEMMA FireView ==
    ASSUME NEW ls, NEW rest, Base(ls, rest), NEW id \in ListIds, FireWith(ls, id, rest), NEW fo
    PROVE  /\ \A q \in Settling :
                 /\ lists'[q].on = ls[q].on /\ Owed(lists'[q]) = Owed(ls[q])
                 /\ OwedOnce(ls[q]) => OwedOnce(lists'[q])
                 /\ q # id => lists'[q].fired = ls[q].fired
                 /\ q = id => (lists'[q].fired <=> ls[q].fired \/ ls[q].on)
           /\ \A q \in ListIds : lists'[q].fns = ls[q].fns
           /\ Thens(frames') = Thens(rest)
           /\ ThensOK(rest, fo) => ThensOK(frames', fo)
<1>1. ls \in [ListIds -> List] /\ ListsOK(ls) /\ rest \in Seq(Frames)
  BY DEF Base, ListsOK
<1>2. /\ \A q \in ListIds : lists'[q].fns = ls[q].fns
      /\ frames' = rest \/ frames' = <<FireFrame(id)>> \o rest
  BY <1>1, FireFields
<1>3. /\ Thens(frames') = Thens(rest)
      /\ ThensOK(rest, fo) => ThensOK(frames', fo)
  <2>1. CASE frames' = rest
    BY <2>1
  <2>2. CASE frames' = <<FireFrame(id)>> \o rest
    <3>1. PICK f \in FireFrames : f = FireFrame(id)
      BY DEF FireFrame, FireFrames
    <3>2. PICK p : p = <<f>>
      OBVIOUS
    <3>3. p \in Seq(FireFrames)
      BY <3>2
    <3>4. Thens(p \o rest) = Thens(rest) /\ (ThensOK(rest, fo) => ThensOK(p \o rest, fo))
      BY <1>1, <3>3, NoThens
    <3> QED BY <2>2, <3>1, <3>2, <3>4
  <2> QED BY <1>2, <2>1, <2>2
<1>4. Settling \subseteq ListIds /\ Settling \subseteq Calling
  BY DEF Settling, ListIds, Kinds, Calling
<1>5. ASSUME NEW q \in Settling, q # id
      PROVE  lists'[q] = ls[q]
  BY <1>1, <1>4, <1>5 DEF FireWith
<1>6. ASSUME id \in Settling
      PROVE  /\ lists'[id].on = ls[id].on /\ Owed(lists'[id]) = Owed(ls[id])
             /\ OwedOnce(ls[id]) => OwedOnce(lists'[id])
             /\ lists'[id].fired <=> ls[id].fired \/ ls[id].on
  <2>1. PICK l \in List : l = ls[id]
    BY <1>1
  <2>2. ListInv(l, called[id], registered[id])
    BY <1>4, <1>6, <2>1 DEF Base, CallsOK, GoodList
  <2>3. CASE ~l.on \/ l.fired
    BY <2>1, <2>2, <2>3 DEF ListInv, FireWith
  <2>4. CASE l.on /\ ~l.fired
    <3>1. ~l.firing /\ l.next = 1
      BY <2>2, <2>4 DEF ListInv
    <3>2. PICK m : m = [l EXCEPT !.memory = TRUE, !.fired = TRUE, !.firing = TRUE,
                                 !.next = 1, !.length = Len(l.fns)]
      OBVIOUS
    <3>3. lists' = [ls EXCEPT ![id] = m]
      BY <2>1, <2>4, <3>1, <3>2 DEF FireWith, Started
    <3>4. lists'[id] = m
      BY <1>1, <3>3
    <3>5. m.on = l.on /\ m.next = l.next /\ m.fns = l.fns /\ m.fired = TRUE
      BY <3>1, <3>2, ListFields
    <3>6. Owed(m) = Owed(l) /\ (OwedOnce(l) => OwedOnce(m))
      BY <3>5, SameOwes
    <3> QED BY <2>1, <2>4, <3>4, <3>5, <3>6
  <2>5. l.on \in BOOLEAN /\ l.fired \in BOOLEAN
    BY ListFields
  <2> QED BY <2>3, <2>4, <2>5
<1> QED BY <1>2, <1>3, <1>5, <1>6

\* What the loop does to the outcomes when it goes past an entry.
LEMMA StepView ==
    ASSUME TypeInv, CallsInv, EntriesOK(lists, parts), On("fire"), HasNext
    PROVE  /\ \A q \in Settling : Stepped[q].on = lists[q].on /\ Stepped[q].fired = lists[q].fired
           /\ \A q \in Settling : q # Firing => Owed(Stepped[q]) = Owed(lists[q])
           /\ OwesLess(lists, Stepped)
           /\ ~Derives(NextEntry) => Still(lists, Stepped)
           /\ Derives(NextEntry) =>
                 /\ Firing \in Settling /\ NextEntry \in Owed(lists[Firing])
                 /\ EntryShape(Firing, NextEntry, parts)
                 /\ \A t : Owes(Stepped, Firing, t)
                              <=> Owes(lists, Firing, t) /\ t # About(NextEntry)
           /\ Firing \in Settling =>
                 /\ lists[Firing].fired /\ lists[Firing].on
                 /\ NextEntry.kind # "settle" => state[Firing[1]] = Outcome(Firing[2])
<1>1. PICK id : id = Firing
  OBVIOUS
<1>2. PICK ls, st : ls = lists /\ st = Stepped
  OBVIOUS
<1>3. PICK l : l = ls[id]
  OBVIOUS
<1>4. PICK m : m = [l EXCEPT !.next = @ + 1]
  OBVIOUS
<1>5. PICK e : e = l.fns[l.next]
  OBVIOUS
<1>6. /\ id \in ListIds /\ l \in List /\ ListOK(l) /\ l.on /\ l.next <= l.length
      /\ st[id] = m /\ NextEntry = e
      /\ \A q \in ListIds : q # id => st[q] = ls[q]
      /\ GoodList(id, l, state[id[1]], called[id], registered[id])
      /\ called[id] \in Seq(Fns) /\ registered[id] \in Seq(Fns)
      /\ state[id[1]] \in {"pending", "resolved", "rejected"}
      /\ id \in Calling => l.fired
  BY <1>1, <1>2, <1>3, <1>4, <1>5, StepsOver
<1>7. Settling \subseteq ListIds /\ Settling \subseteq Calling
  BY DEF Settling, ListIds, Kinds, Calling
<1>8. m.on = l.on /\ m.fired = l.fired /\ m.fns = l.fns /\ l.next \in DOMAIN l.fns
  BY <1>4, <1>6, NextFields
<1>9. EntriesOK(ls, parts)
  BY <1>2
<1>10. id \in Settling => OwedOnce(l) /\ \A f \in Owed(l) : EntryShape(id, f, parts)
  BY <1>3, <1>9 DEF EntriesOK
<1>11. \A q \in ListIds \ Settling : \A p \in DOMAIN ls[q].fns : ~Derives(ls[q].fns[p])
  BY <1>9 DEF EntriesOK
<1>12. Derives(e) => id \in Settling
  BY <1>3, <1>5, <1>6, <1>8, <1>11
<1>13. id \in Settling =>
          /\ OwedOnce(m)
          /\ ~Derives(e) => Owed(m) = Owed(l)
          /\ Derives(e) => /\ e \in Owed(l) /\ Owed(m) \subseteq Owed(l)
                           /\ \A f \in Owed(m) : About(f) # About(e)
                           /\ \A f \in Owed(l) : About(f) # About(e) => f \in Owed(m)
  BY <1>4, <1>5, <1>6, <1>10, NextOwes
<1>14. \A q \in Settling : st[q].on = ls[q].on /\ st[q].fired = ls[q].fired
  BY <1>3, <1>6, <1>7, <1>8
<1>15. \A q \in Settling : q # id => Owed(st[q]) = Owed(ls[q])
  BY <1>6, <1>7
<1>16. OwesLess(ls, st)
  BY <1>3, <1>6, <1>7, <1>8, <1>9, <1>11, <1>13 DEF EntriesOK, OwesLess
<1>17. ~Derives(e) => Still(ls, st)
  BY <1>3, <1>6, <1>13, <1>14, <1>15 DEF Still
<1>18. Derives(e) =>
          /\ id \in Settling /\ e \in Owed(l) /\ EntryShape(id, e, parts)
          /\ \A t : Owes(st, id, t) <=> Owes(ls, id, t) /\ t # About(e)
  BY <1>3, <1>6, <1>10, <1>12, <1>13 DEF Owes
<1>19. id \in Settling =>
          /\ l.fired /\ l.on
          /\ e.kind # "settle" => state[id[1]] = Outcome(id[2])
  <2> SUFFICES ASSUME id \in Settling
               PROVE  e.kind # "settle" => state[id[1]] = Outcome(id[2])
    BY <1>6, <1>7
  <2>1. SettlingInv(l, state[id[1]], Outcome(id[2]), called[id])
    BY <1>6 DEF GoodList
  <2>2. e.kind # "settle" => state[id[1]] # "pending"
    BY <1>5, <1>8, <2>1 DEF SettlingInv
  <2> QED BY <1>6, <2>1, <2>2 DEF SettlingInv
<1> QED BY <1>1, <1>2, <1>3, <1>6, <1>14, <1>15, <1>16, <1>17, <1>18, <1>19

\* What adding entries does to the outcomes.
LEMMA AddView ==
    ASSUME TypeInv, CallsInv, EntriesOK(lists, parts), NEW rest \in Seq(Frames),
           NEW ids \in SUBSET ListIds, IsFiniteSet(ids), NEW cbs \in [ids -> Entry],
           \A id \in ids : Derives(cbs[id]) =>
               id \in Settling /\ \A f \in Owed(lists[id]) : About(f) # About(cbs[id]),
           AddAll(cbs, rest), NEW fo
    PROVE  /\ \A q \in Settling :
                 /\ lists'[q].on = lists[q].on /\ lists'[q].fired = lists[q].fired
                 /\ OwedOnce(lists'[q]) /\ Owed(lists[q]) \subseteq Owed(lists'[q])
                 /\ q \notin ids \/ ~Derives(cbs[q]) => Owed(lists'[q]) = Owed(lists[q])
                 /\ q \in ids => Owed(lists'[q]) \subseteq Owed(lists[q]) \cup {cbs[q]}
                 /\ q \in ids /\ Derives(cbs[q]) /\ lists[q].on => cbs[q] \in Owed(lists'[q])
           /\ \A q \in ListIds \ Settling :
                 \A p \in DOMAIN lists'[q].fns : ~Derives(lists'[q].fns[p])
           /\ Thens(frames') = Thens(rest)
           /\ ThensOK(rest, fo) => ThensOK(frames', fo)
<1>1. DOMAIN cbs = ids
  OBVIOUS
<1>2. lists' = [id \in ListIds |-> IF id \in ids THEN Added(lists[id], cbs[id]) ELSE lists[id]]
  BY <1>1 DEF AddAll
<1>3. Settling \subseteq ListIds /\ Settling \subseteq Calling
  BY DEF Settling, ListIds, Kinds, Calling
<1>4. \A q \in Settling : OwedOnce(lists[q])
  BY DEF EntriesOK
<1>5. ASSUME NEW q \in Settling
      PROVE  /\ lists'[q].on = lists[q].on /\ lists'[q].fired = lists[q].fired
             /\ OwedOnce(lists'[q]) /\ Owed(lists[q]) \subseteq Owed(lists'[q])
             /\ q \notin ids \/ ~Derives(cbs[q]) => Owed(lists'[q]) = Owed(lists[q])
             /\ q \in ids => Owed(lists'[q]) \subseteq Owed(lists[q]) \cup {cbs[q]}
             /\ q \in ids /\ Derives(cbs[q]) /\ lists[q].on => cbs[q] \in Owed(lists'[q])
  <2>1. CASE q \notin ids
    BY <1>2, <1>3, <1>4, <2>1
  <2>2. CASE q \in ids
    <3>1. PICK l \in List : l = lists[q] /\ ListOK(l)
      BY <1>3 DEF TypeInv, ListsOK
    <3>2. PICK ca, re : ca = called[q] /\ re = registered[q]
      OBVIOUS
    <3>3. ListInv(l, ca, re)
      BY <1>3, <3>1, <3>2 DEF CallsInv, CallsOK, GoodList
    <3>4. PICK e \in Entry : e = cbs[q]
      BY <2>2
    <3>5. PICK m : m = Added(l, e)
      OBVIOUS
    <3>6. Derives(e) => \A f \in Owed(l) : About(f) # About(e)
      BY <2>2, <3>1, <3>4
    <3>7. OwedOnce(l)
      BY <1>4, <3>1
    <3>8. /\ OwedOnce(m) /\ Owed(l) \subseteq Owed(m) /\ m.on = l.on /\ m.fired = l.fired
          /\ Owed(m) \subseteq Owed(l) \cup {e}
          /\ ~Derives(e) \/ ~l.on => Owed(m) = Owed(l)
          /\ Derives(e) /\ l.on => e \in Owed(m)
      BY <3>1, <3>3, <3>5, <3>6, <3>7, AddedOwes
    <3>9. lists'[q] = m
      BY <1>2, <1>3, <2>2, <3>1, <3>4, <3>5
    <3> QED BY <2>2, <3>1, <3>4, <3>8, <3>9
  <2> QED BY <2>1, <2>2
<1>6. ASSUME NEW q \in ListIds \ Settling
      PROVE  \A p \in DOMAIN lists'[q].fns : ~Derives(lists'[q].fns[p])
  <2>1. \A p \in DOMAIN lists[q].fns : ~Derives(lists[q].fns[p])
    BY DEF EntriesOK
  <2>2. CASE q \notin ids
    BY <1>2, <2>1, <2>2
  <2>3. CASE q \in ids
    <3>1. PICK l \in List : l = lists[q]
      BY DEF TypeInv, ListsOK
    <3>2. PICK e \in Entry : e = cbs[q] /\ ~Derives(e)
      BY <2>3
    <3>3. PICK m : m = Added(l, e)
      OBVIOUS
    <3>4. (~l.on => m = l) /\ (l.on => m.fns = Append(l.fns, e))
      BY <3>3, AddedFields
    <3>5. PICK fns \in Seq(Entry) : fns = l.fns
      BY ListFields
    <3>6. \A p \in DOMAIN Append(fns, e) : \/ p \in DOMAIN fns /\ Append(fns, e)[p] = fns[p]
                                           \/ Append(fns, e)[p] = e
      OBVIOUS
    <3>7. \A p \in DOMAIN m.fns : ~Derives(m.fns[p])
      BY <2>1, <3>1, <3>2, <3>4, <3>5, <3>6
    <3>8. lists'[q] = m
      BY <1>2, <2>3, <3>1, <3>2, <3>3
    <3> QED BY <3>7, <3>8
  <2> QED BY <2>2, <2>3
<1>7. PICK ps : ps = Passes(cbs)
  OBVIOUS
<1>8. ps \in SUBSET ListIds /\ IsFiniteSet(ps)
  BY <1>1, <1>7, FS_Subset DEF Passes
<1>9. PICK p : p = SetToSeq({FireFrame(id) : id \in ps}) /\ frames' = p \o rest
  BY <1>7 DEF AddAll, Passes
<1>10. p \in Seq(FireFrames)
  BY <1>8, <1>9, PassFrames
<1>11. Thens(p \o rest) = Thens(rest) /\ (ThensOK(rest, fo) => ThensOK(p \o rest, fo))
  BY <1>10, NoThens
<1> HIDE <1>2
<1> QED BY <1>5, <1>6, <1>9, <1>11

-----------------------------------------------------------------------------
(* Steps that derive no outcome.                                           *)

\* No list of an outcome changes.
LEMMA StillKept ==
    ASSUME DerivedInv, TypeInv, Still(lists, lists'), OwesLess(lists, lists'),
           ThensOK(frames', follows), Thens(frames') = Thens(frames),
           made \subseteq made', UNCHANGED <<parts, follows, remaining>>, threw => threw'
    PROVE  DerivedInv'
<1>1. PICK ls, lt : ls = lists /\ lt = lists'
  OBVIOUS
<1>2. \A t \in Deferreds : Unmoved(ls, lt, t)
  BY <1>1, StillUnmoved
<1>3. \A t \in Deferreds : Unmoved(lists, lists', t)
  BY <1>1, <1>2
<1> QED BY <1>3, AllKept

\* No list changes at all.
LEMMA SameKept ==
    ASSUME DerivedInv, TypeInv, UNCHANGED lists,
           ThensOK(frames', follows), Thens(frames') = Thens(frames),
           made \subseteq made', UNCHANGED <<parts, follows, remaining>>, threw => threw'
    PROVE  DerivedInv'
<1>1. EntriesOK(lists, parts)
  BY DEF DerivedInv, DerivedOK
<1>2. OwesLess(lists, lists)
  BY <1>1 DEF EntriesOK, OwesLess
<1>3. Still(lists, lists)
  BY DEF Still
<1>4. Still(lists, lists') /\ OwesLess(lists, lists')
  BY <1>2, <1>3
<1> QED BY <1>4, StillKept

LEMMA DerivedSame ==
    ASSUME NEW t, NEW ls, NEW s, NEW mk, NEW pa, NEW fo, NEW re, NEW th,
           Derived(t, ls, s, mk, pa, fo, re, th),
           NEW pt, pt[t] = pa[t], NEW ft, ft[t] = fo[t], NEW rt, rt[t] = re[t]
    PROVE  Derived(t, ls, s, mk, pt, ft, rt, th)
BY DEF Derived, Fresh

\* One deferred is concerned.
Concerns(x) ==
    /\ made \subseteq made' /\ (threw => threw')
    /\ \A t \in Deferreds \ {x} :
          /\ Unmoved(lists, lists', t)
          /\ t \in Thens(frames') <=> t \in Thens(frames)
          /\ parts'[t] = parts[t] /\ follows'[t] = follows[t]
          /\ remaining'[t] = remaining[t]

LEMMA OneKept ==
    ASSUME DerivedInv, TypeInv, NEW x \in Deferreds,
           EntriesOK(lists', parts'), ThensOK(frames', follows'), Concerns(x),
           Derived(x, lists', frames', made', parts', follows', remaining', threw')
    PROVE  DerivedInv'
<1>1. PICK ls, lt, s, u, mk, mt, pa, pt, fo, ft, re, rt, th, ht :
        /\ ls = lists /\ lt = lists' /\ s = frames /\ u = frames' /\ mk = made /\ mt = made'
        /\ pa = parts /\ pt = parts' /\ fo = follows /\ ft = follows'
        /\ re = remaining /\ rt = remaining' /\ th = threw /\ ht = threw'
  OBVIOUS
<1>2. DerivedOK(ls, s, mk, pa, fo, re, th)
  BY <1>1 DEF DerivedInv
<1>3. ASSUME NEW t \in Deferreds \ {x}
      PROVE  Derived(t, lt, u, mt, pt, ft, rt, ht)
  <2>1. t \in Deferreds
    OBVIOUS
  <2>2. Derived(t, ls, s, mk, pa, fo, re, th)
    BY <1>2, <2>1 DEF DerivedOK
  <2>3. pa[t] \in SUBSET Deferreds /\ fo[t] \in Deferreds
    BY <1>1, <2>1 DEF TypeInv, DeferredTypes
  <2>4. /\ Unmoved(ls, lt, t) /\ (t \in Thens(u) <=> t \in Thens(s)) /\ (t \in mk => t \in mt)
        /\ th => ht
    BY <1>1 DEF Concerns
  <2>5. pt[t] = pa[t] /\ ft[t] = fo[t] /\ rt[t] = re[t]
    BY <1>1 DEF Concerns
  <2>6. Derived(t, lt, u, mt, pa, fo, re, ht)
    BY <2>1, <2>2, <2>3, <2>4, DerivedKept
  <2> QED BY <2>5, <2>6, DerivedSame
<1>4. Derived(x, lt, u, mt, pt, ft, rt, ht)
  BY <1>1
<1>5. EntriesOK(lt, pt) /\ ThensOK(u, ft)
  BY <1>1
<1>6. DerivedOK(lt, u, mt, pt, ft, rt, ht)
  BY <1>3, <1>4, <1>5 DEF DerivedOK
<1> QED BY <1>1, <1>6 DEF DerivedInv

\* A deferred settles.
LEMMA SettlesDerived ==
    ASSUME TypeInv, CallsInv, DerivedInv, Settles
    PROVE  DerivedInv'
<1>1. EntriesOK(lists, parts) /\ ThensOK(frames, follows)
  BY DEF DerivedInv, DerivedOK
<1>2. On("fire") /\ HasNext /\ NextEntry.kind = "settle"
  BY DEF Settles
<1>3. PICK ls, st : ls = lists /\ st = Stepped
  OBVIOUS
<1>4. /\ \A q \in Settling : st[q].on = ls[q].on /\ st[q].fired = ls[q].fired
      /\ OwesLess(ls, st)
      /\ ~Derives(NextEntry) => Still(ls, st)
  BY <1>1, <1>2, <1>3, StepView
<1>5. Still(ls, st)
  BY <1>2, <1>4 DEF Derives
<1>6. PICK l : l = lists[Firing]
  OBVIOUS
<1>7. /\ Firing \in ListIds /\ l \in List /\ ListOK(l) /\ l.on /\ l.next <= l.length
      /\ NextEntry = l.fns[l.next] /\ ListsOK(Stepped)
      /\ GoodList(Firing, l, state[Firing[1]], called[Firing], registered[Firing])
      /\ state[Firing[1]] \in {"pending", "resolved", "rejected"}
      /\ \A id \in Settling \ {Firing} : state[id[1]] = "pending" => ~lists[id].fired
  BY <1>2, <1>6, StepsOver
<1>8. l.next \in DOMAIN l.fns
  BY <1>7, NextFields
<1>9. Firing \in Settling
  BY <1>2, <1>7, <1>8 DEF GoodList
<1>10. state[Firing[1]] = "pending"
  BY <1>2, <1>7, <1>8, <1>9, ListFields DEF GoodList, SettlingInv
<1>11. PICK d \in Deferreds : d = Firing[1]
  BY <1>9 DEF Settling
<1>12. PICK o : o = <<d, IF Firing[2] = "done" THEN "fail" ELSE "done">>
  OBVIOUS
<1>13. PICK pr : pr = <<d, "progress">>
  OBVIOUS
<1>14. /\ o \in Settling /\ o # Firing /\ o[1] = d
       /\ pr \in ListIds \ Settling /\ pr # o /\ pr # Firing
  BY <1>9, <1>11, <1>12, <1>13 DEF Settling, ListIds, Kinds
<1>15. ~ls[o].fired
  BY <1>3, <1>7, <1>10, <1>11, <1>14
<1>16. st \in [ListIds -> List]
  BY <1>3, <1>7 DEF ListsOK
<1>17. PICK x \in List, y \in List : x = st[o] /\ y = st[pr]
  <2>1. o \in ListIds /\ pr \in ListIds
    BY <1>14 DEF Settling, ListIds, Kinds
  <2> QED BY <1>16, <2>1
<1>18. lists' = [st EXCEPT ![o] = Disabled(st[o]), ![pr] = Locked(st[pr])]
  BY <1>3, <1>11, <1>12, <1>13 DEF Settles
<1>19. PICK dx, ly : dx = Disabled(x) /\ ly = Locked(y)
  OBVIOUS
<1>20. /\ dx.on = FALSE /\ dx.fired = x.fired
       /\ ly.fns = y.fns \/ ly.fns = <<>>
  BY <1>19, ListFields DEF Disabled, Locked
<1>21. PICK lt : lt = lists'
  OBVIOUS
<1>22. /\ lt[o] = dx /\ lt[pr] = ly
       /\ \A q \in ListIds : q # o /\ q # pr => lt[q] = st[q]
  BY <1>14, <1>16, <1>17, <1>18, <1>19, <1>21 DEF Settling, ListIds, Kinds
<1>23. Owed(dx) = {} /\ OwedOnce(dx)
  BY <1>20, OffOwes
<1>24. \A q \in Settling : q # o => lt[q] = st[q] /\ q \in ListIds
  BY <1>14, <1>22 DEF Settling, ListIds, Kinds
<1>25. OwesLess(ls, lt)
  <2>1. ASSUME NEW q \in Settling
        PROVE  OwedOnce(lt[q]) /\ Owed(lt[q]) \subseteq Owed(ls[q])
    BY <1>4, <1>22, <1>23, <1>24 DEF OwesLess
  <2>2. ASSUME NEW q \in ListIds \ Settling
        PROVE  \A p \in DOMAIN lt[q].fns : ~Derives(lt[q].fns[p])
    BY <1>4, <1>14, <1>17, <1>20, <1>22 DEF OwesLess
  <2> QED BY <2>1, <2>2 DEF OwesLess
<1>26. ASSUME NEW t \in Deferreds
       PROVE  Unmoved(ls, lt, t)
  <2> SUFFICES ASSUME NEW q \in Settling
               PROVE  /\ ls[q].fired => lt[q].fired
                      /\ q[1] = t /\ lt[q].fired => ls[q].fired
                      /\ lt[q].on => ls[q].on
                      /\ ls[q].on /\ ~lt[q].on => ~ls[q].fired
                      /\ Owes(lt, q, t) => Owes(ls, q, t)
                      /\ lt[q].on /\ Owes(ls, q, t) => Owes(lt, q, t)
    BY DEF Unmoved
  <2>1. CASE q = o
    <3>1. lt[q].on = FALSE /\ ~lt[q].fired /\ ~ls[q].fired
      BY <1>4, <1>14, <1>15, <1>17, <1>20, <1>22, <2>1
    <3>2. ~Owes(lt, q, t)
      BY <1>22, <1>23, <2>1 DEF Owes
    <3> QED BY <3>1, <3>2
  <2>2. CASE q # o
    BY <1>5, <1>24, <2>2 DEF Owes, Still
  <2> QED BY <2>1, <2>2
<1>27. UNCHANGED <<frames, remaining, follows, threw, made, parts>>
  BY DEF Settles, givenVars
<1>28. ThensOK(frames', follows) /\ Thens(frames') = Thens(frames) /\ made \subseteq made'
  BY <1>1, <1>27
<1>29. (\A t \in Deferreds : Unmoved(lists, lists', t)) /\ OwesLess(lists, lists')
  BY <1>3, <1>21, <1>25, <1>26
<1> QED BY <1>27, <1>28, <1>29, AllKept

\* A frame that is no function given to then is taken off.
LEMMA PopHere ==
    ASSUME TypeInv, DerivedInv, frames # <<>>, ~ThenFrame(Top)
    PROVE  Below \in Seq(Frames) /\ ThensOK(Below, follows) /\ Thens(Below) = Thens(frames)
<1>1. PICK s \in Seq(Frames) : s = frames /\ s # <<>>
  BY DEF TypeInv
<1>2. PICK fo : fo = follows
  OBVIOUS
<1>3. ThensOK(s, fo)
  BY <1>1, <1>2 DEF DerivedInv, DerivedOK
<1>4. ThensOK(Tail(s), fo) /\ (~ThenFrame(Head(s)) => Thens(Tail(s)) = Thens(s))
  BY <1>1, <1>3, ThensPop
<1> QED BY <1>1, <1>2, <1>4 DEF Top, Below

LEMMA AjaxPop ==
    ASSUME TypeInv, DerivedInv, On("hook") \/ On("status") \/ On("close")
    PROVE  Below \in Seq(Frames) /\ ThensOK(Below, follows) /\ Thens(Below) = Thens(frames)
<1>1. frames # <<>> /\ Top \notin CallFrames
  BY DEF On, CallFrames
<1> QED BY <1>1, PopHere DEF ThenFrame

\* ajax() or done goes on, and changes no list.
LEMMA MovesKept ==
    ASSUME DerivedInv, TypeInv, NEW s \in Seq(Frames), ThensOK(s, follows),
           Thens(s) = Thens(frames), frames' = s \/ \E f \in AjaxFrames : frames' = <<f>> \o s,
           UNCHANGED lists, made \subseteq made',
           UNCHANGED <<parts, follows, remaining>>, threw => threw'
    PROVE  DerivedInv'
<1>1. CASE frames' = s
  BY <1>1, SameKept
<1>2. ASSUME NEW f \in AjaxFrames, frames' = <<f>> \o s
      PROVE  DerivedInv'
  <2>1. PICK fo : fo = follows
    OBVIOUS
  <2>2. Thens(<<f>> \o s) = Thens(s) /\ (ThensOK(s, fo) => ThensOK(<<f>> \o s, fo))
    BY NoThenFrame
  <2>3. ThensOK(frames', follows) /\ Thens(frames') = Thens(frames)
    BY <1>2, <2>1, <2>2
  <2> QED BY <2>3, SameKept
<1> QED BY <1>1, <1>2

LEMMA AjaxQuietDerived ==
    ASSUME TypeInv, DerivedInv, NEW r \in Requests,
           \/ SettledHandled(r) \/ Uncounts(r) \/ StopHandled(r) \/ Prefiltered(r)
           \/ StartHandled(r) \/ ReadyToSend(r) \/ Sent(r) \/ AjaxCall(r) \/ StatusCode(r)
    PROVE  DerivedInv'
<1>1. /\ UNCHANGED <<lists, parts, follows, remaining>> /\ made \subseteq made'
      /\ threw => threw'
  BY DEF SettledHandled, Uncounts, StopHandled, Prefiltered, StartHandled, ReadyToSend, Sent,
         AjaxCall, StatusCode, quietVars, givenVars
<1>2. CASE AjaxCall(r) \/ StatusCode(r)
  <2>1. PICK s \in Seq(Frames) : s = frames
    BY DEF TypeInv
  <2>2. ThensOK(s, follows)
    BY <2>1 DEF DerivedInv, DerivedOK
  <2>3. "prefilter" \in Hooks
    BY DEF Hooks
  <2>4. HookFrame(r, "prefilter") \in AjaxFrames
    BY <2>3, HookIs
  <2>5. frames' = s \/ \E f \in AjaxFrames : frames' = <<f>> \o s
    BY <1>2, <2>1, <2>4 DEF AjaxCall, StatusCode
  <2> QED BY <1>1, <2>1, <2>2, <2>5, MovesKept
<1>3. CASE ~(AjaxCall(r) \/ StatusCode(r))
  <2>1. On("hook")
    BY <1>3 DEF SettledHandled, Uncounts, StopHandled, Prefiltered, StartHandled, ReadyToSend,
                Sent, AtHook
  <2>2. PICK s \in Seq(Frames) : s = Below /\ ThensOK(s, follows) /\ Thens(s) = Thens(frames)
    BY <2>1, AjaxPop
  <2>3. \A at \in Hooks : HookFrame(r, at) \in AjaxFrames
    BY HookIs
  <2>4. /\ HookFrame(r, "ajaxStop") \in AjaxFrames /\ HookFrame(r, "ajaxStart") \in AjaxFrames
        /\ HookFrame(r, "beforeSend") \in AjaxFrames /\ HookFrame(r, "ajaxSend") \in AjaxFrames
    BY <2>3 DEF Hooks
  <2>5. CloseFrame(r) \in AjaxFrames
    BY DEF CloseFrame, AjaxFrames, CloseFrames
  <2>6. frames' = s \/ \E f \in AjaxFrames : frames' = <<f>> \o s
    BY <1>3, <2>2, <2>4, <2>5 DEF SettledHandled, Uncounts, StopHandled, Prefiltered,
       StartHandled, ReadyToSend, Sent
  <2> QED BY <1>1, <2>2, <2>6, MovesKept
<1> QED BY <1>2, <1>3

\* A function of the page throws, or no conversion is found.
LEMMA ThrowDerived ==
    ASSUME TypeInv, DerivedInv, Throw \/ \E r \in Requests : AnswerThrows(r)
    PROVE  DerivedInv'
<1>1. CASE \E r \in Requests : AnswerThrows(r)
  BY <1>1, SameKept DEF AnswerThrows, givenVars, DerivedInv, DerivedOK
<1>2. CASE Throw
  <2>1. /\ UNCHANGED <<lists, parts, follows, remaining>> /\ made \subseteq made'
        /\ threw' /\ frames' = <<>>
    BY <1>2 DEF Throw, givenVars
  <2>2. ThensOK(frames', follows) /\ Thens(frames') = {}
    BY <2>1 DEF ThensOK, Thens
  <2>3. PICK ls : ls = lists
    OBVIOUS
  <2>4. Still(ls, ls)
    BY DEF Still
  <2>5. \A t \in Deferreds : Unmoved(ls, ls, t)
    BY <2>4, StillUnmoved
  <2>6. OwesLess(ls, ls)
    BY <2>3 DEF DerivedInv, DerivedOK, EntriesOK, OwesLess
  <2>7. (\A t \in Deferreds : Unmoved(lists, lists', t)) /\ OwesLess(lists, lists')
    BY <2>1, <2>3, <2>5, <2>6
  <2> QED BY <2>1, <2>2, <2>7, AllKept
<1> QED BY <1>1, <1>2

\* The functions of a request's complete are called.
LEMMA CompletesDerived ==
    ASSUME TypeInv, CallsInv, DerivedInv, NEW r \in Requests, Completes(r)
    PROVE  DerivedInv'
<1>1. On("close") /\ UNCHANGED <<made, parts, follows, remaining, threw>>
  BY DEF Completes, quietVars, givenVars
<1>2. PICK b \in Seq(Frames) : b = Below /\ ThensOK(b, follows) /\ Thens(b) = Thens(frames)
  BY <1>1, AjaxPop
<1>3. PICK ls : ls = lists
  OBVIOUS
<1>4. PICK h \in AjaxFrames : h = HookFrame(r, "ajaxComplete")
  <2>1. "ajaxComplete" \in Hooks
    BY DEF Hooks
  <2> QED BY <2>1, HookIs
<1>5. Base(ls, b) /\ Base(ls, <<h>> \o b)
  BY <1>1, <1>2, <1>3, AjaxBase, BasePush
<1>6. Thens(<<h>> \o b) = Thens(b) /\ \A fo : ThensOK(b, fo) => ThensOK(<<h>> \o b, fo)
  BY NoThenFrame
<1>7. PICK rest : rest = IF counted[r] THEN <<h>> \o b ELSE b
  OBVIOUS
<1>8. Base(ls, rest) /\ Thens(rest) = Thens(frames) /\ ThensOK(rest, follows)
  BY <1>2, <1>5, <1>6, <1>7
<1>9. PICK id \in ListIds : id = <<r, "complete">>
  BY OutcomeIds
<1>10. FireWith(ls, id, rest)
  BY <1>2, <1>3, <1>4, <1>7, <1>9 DEF Completes
<1>11. id \notin Settling
  BY <1>9 DEF Settling
<1>12. PICK fo : fo = follows
  OBVIOUS
<1>13. /\ \A q \in Settling :
             /\ lists'[q].on = ls[q].on /\ Owed(lists'[q]) = Owed(ls[q])
             /\ OwedOnce(ls[q]) => OwedOnce(lists'[q])
             /\ q # id => lists'[q].fired = ls[q].fired
       /\ \A q \in ListIds : lists'[q].fns = ls[q].fns
       /\ Thens(frames') = Thens(rest)
       /\ ThensOK(rest, fo) => ThensOK(frames', fo)
  BY <1>8, <1>10, FireView
<1>14. EntriesOK(ls, parts)
  BY <1>3 DEF DerivedInv, DerivedOK
<1>15. Still(lists, lists') /\ OwesLess(lists, lists')
  BY <1>3, <1>11, <1>13, <1>14 DEF Still, OwesLess, EntriesOK
<1>16. ThensOK(frames', follows) /\ Thens(frames') = Thens(frames) /\ made \subseteq made'
  BY <1>1, <1>8, <1>12, <1>13
<1> QED BY <1>1, <1>15, <1>16, StillKept

\* Functions of the page are added.
LEMMA UserAdds ==
    ASSUME DerivedInv, TypeInv, CallsInv, NEW s \in Seq(Frames), ThensOK(s, follows),
           Thens(s) = Thens(frames), NEW ids \in SUBSET ListIds, IsFiniteSet(ids),
           NEW f \in Fns, AddAll([id \in ids |-> User(f)], s),
           UNCHANGED <<made, parts, follows, remaining, threw>>
    PROVE  DerivedInv'
<1>1. PICK cbs : cbs = [id \in ids |-> User(f)]
  OBVIOUS
<1>2. User(f) \in Entry /\ ~Derives(User(f))
  BY DEF User, Entry, Derives
<1>3. cbs \in [ids -> Entry] /\ \A id \in ids : ~Derives(cbs[id])
  BY <1>1, <1>2
<1>4. AddAll(cbs, s)
  BY <1>1
<1>5. EntriesOK(lists, parts)
  BY DEF DerivedInv, DerivedOK
<1>6. PICK fo : fo = follows
  OBVIOUS
<1>7. /\ \A q \in Settling :
            /\ lists'[q].on = lists[q].on /\ lists'[q].fired = lists[q].fired
            /\ OwedOnce(lists'[q])
            /\ q \notin ids \/ ~Derives(cbs[q]) => Owed(lists'[q]) = Owed(lists[q])
      /\ \A q \in ListIds \ Settling :
            \A p \in DOMAIN lists'[q].fns : ~Derives(lists'[q].fns[p])
      /\ Thens(frames') = Thens(s)
      /\ ThensOK(s, fo) => ThensOK(frames', fo)
  BY <1>3, <1>4, <1>5, AddView
<1>8. Still(lists, lists') /\ OwesLess(lists, lists')
  BY <1>3, <1>7 DEF Still, OwesLess
<1>9. ThensOK(frames', follows) /\ Thens(frames') = Thens(frames)
  BY <1>6, <1>7
<1> QED BY <1>8, <1>9, StillKept

\* done, fail, always and complete.
LEMMA AddDerived ==
    ASSUME DerivedInv, TypeInv, CallsInv, NEW d \in Deferreds,
           Always(d) \/ \E k \in Kinds : Add(d, k)
    PROVE  DerivedInv'
<1>1. PICK s \in Seq(Frames) : s = frames /\ ThensOK(s, follows)
  BY DEF TypeInv, DerivedInv, DerivedOK
<1>2. PICK f \in Fns : f = NewFn
  BY MadeFn DEF Always, Add
<1>3. UNCHANGED <<made, parts, follows, remaining, threw>>
  BY DEF Always, Add
<1>4. CASE Always(d)
  <2>1. PICK ids \in SUBSET ListIds : ids = Outcomes(d) /\ IsFiniteSet(ids)
    BY OutcomesOK
  <2>2. AddAll([id \in ids |-> User(f)], s)
    BY <1>1, <1>2, <1>4, <2>1 DEF Always
  <2> QED BY <1>1, <1>3, <2>1, <2>2, UserAdds
<1>5. ASSUME NEW k \in Kinds, Add(d, k)
      PROVE  DerivedInv'
  <2>1. PICK ids : ids = {<<d, k>>}
    OBVIOUS
  <2>2. ids \in SUBSET ListIds
    BY <2>1 DEF ListIds
  <2>3. IsFiniteSet(ids)
    BY <2>1, FS_Singleton
  <2>4. AddAll([id \in ids |-> User(f)], s)
    BY <1>1, <1>2, <1>5, <2>1 DEF Add
  <2> QED BY <1>1, <1>3, <2>2, <2>3, <2>4, UserAdds
<1> QED BY <1>4, <1>5

LEMMA CallsStatusDerived ==
    ASSUME AjaxInv, DerivedInv, CallsInv, NEW r \in Requests, CallsStatus(r)
    PROVE  DerivedInv'
<1>1. TypeInv /\ On("status") /\ Top.request = r /\ frames # <<>>
  BY DEF CallsStatus, AjaxInv, On
<1>2. PICK b \in Seq(Frames) : b = Below /\ ThensOK(b, follows) /\ Thens(b) = Thens(frames)
  BY <1>1, AjaxPop
<1>3. PICK h \in AjaxFrames : h = SettledFrame(r)
  <2>1. "ajaxSettled" \in Hooks
    BY DEF Hooks
  <2> QED BY <2>1, HookIs DEF SettledFrame
<1>4. PICK s : s = <<h>> \o b
  OBVIOUS
<1>5. PICK fo : fo = follows
  OBVIOUS
<1>6. /\ Thens(<<h>> \o b) = Thens(b) /\ (ThensOK(b, fo) => ThensOK(<<h>> \o b, fo))
      /\ <<h>> \o b \in Seq(Frames)
  BY NoThenFrame
<1>7. s \in Seq(Frames) /\ ThensOK(s, follows) /\ Thens(s) = Thens(frames)
  BY <1>2, <1>4, <1>5, <1>6
<1>8. PICK f \in Fns : f = status[r]
  <2>1. PICK g : g = Top
    OBVIOUS
  <2>2. g \in StatusFrames /\ g.request = r /\ FrameOK(g)
    BY <1>1, <2>1, TopFrame, HookTop
  <2>3. status[r] # 0 /\ status[r] \in 0 .. MaxObjects /\ MaxObjects \in Nat
    BY <1>1, <2>2, DeferredAssumption DEF FrameOK, TypeInv, AjaxTypes
  <2> QED BY <2>3 DEF Fns
<1>9. PICK ids \in SUBSET ListIds : ids = Outcomes(r) /\ IsFiniteSet(ids)
  <2>1. r \in Deferreds
    BY OutcomeIds
  <2> QED BY <2>1, OutcomesOK
<1>10. AddAll([id \in ids |-> User(f)], s)
  BY <1>2, <1>3, <1>4, <1>8, <1>9 DEF CallsStatus
<1>11. UNCHANGED <<made, parts, follows, remaining, threw>>
  BY DEF CallsStatus, quietVars
<1> QED BY <1>1, <1>7, <1>9, <1>10, <1>11, UserAdds

\* A pass ends: nothing is owed any more.
LEMMA PassEndsDerived ==
    ASSUME DerivedInv, TypeInv, CallsInv, PassEnds
    PROVE  DerivedInv'
<1>1. PICK id : id = Firing
  OBVIOUS
<1>2. PICK l : l = lists[id]
  OBVIOUS
<1>3. frames # <<>> /\ id \in ListIds /\ l \in List /\ Top = FireFrame(id)
      /\ lists \in [ListIds -> List]
  BY <1>1, <1>2, TopFrame DEF PassEnds, On, TypeInv, ListsOK
<1>4. GoodList(id, l, state[id[1]], called[id], registered[id])
  BY <1>2, <1>3 DEF CallsInv, CallsOK
<1>5. Settling \subseteq Calling /\ Settling \subseteq ListIds
  BY DEF Settling, Calling, ListIds, Kinds
<1>6. EntriesOK(lists, parts) /\ ThensOK(frames, follows)
  BY DEF DerivedInv, DerivedOK
<1>7. UNCHANGED <<made, parts, follows, remaining, threw>>
  BY DEF PassEnds, givenVars
<1>8. CASE l.on /\ l.open /\ l.queued > 0
  <2>1. PICK m : m = [Started(l, 1) EXCEPT !.queued = @ - 1]
    OBVIOUS
  <2>2. m.fns = l.fns
    <3>1. PICK n : n = [l EXCEPT !.memory = TRUE, !.fired = TRUE, !.firing = TRUE,
                                 !.next = 1, !.length = Len(l.fns)]
      OBVIOUS
    <3>2. n.fns = l.fns
      BY <1>3, <3>1, ListFields
    <3>3. m = [n EXCEPT !.queued = @ - 1]
      BY <2>1, <3>1 DEF Started
    <3>4. n \in List
      <4>1. n = Started(l, 1)
        BY <3>1 DEF Started
      <4>2. 1 \in 1 .. Len(l.fns) + 1
        BY <1>3, ListFields
      <4> QED BY <1>3, <4>1, <4>2, StartedOK
    <3>5. m.fns = n.fns
      BY <3>3, <3>4, ListFields
    <3> QED BY <3>2, <3>5
  <2>3. lists' = [lists EXCEPT ![id] = m] /\ frames' = frames
    BY <1>1, <1>2, <1>8, <2>1 DEF PassEnds
  <2>4. id \notin Calling
    BY <1>4, <1>8 DEF GoodList, ListInv
  <2>5. \A q \in ListIds : /\ lists'[q].fns = lists[q].fns
                           /\ q \in Settling => lists'[q] = lists[q]
    BY <1>2, <1>3, <1>5, <2>2, <2>3, <2>4
  <2>6. Still(lists, lists') /\ OwesLess(lists, lists')
    BY <1>5, <1>6, <2>5 DEF Still, OwesLess, EntriesOK
  <2>7. ThensOK(frames', follows) /\ Thens(frames') = Thens(frames)
    BY <1>6, <2>3
  <2> QED BY <1>7, <2>6, <2>7, StillKept
<1>9. CASE ~(l.on /\ l.open /\ l.queued > 0)
  <2>1. PICK fns : fns = IF l.open THEN l.fns ELSE <<>>
    OBVIOUS
  <2>2. PICK m : m = [l EXCEPT !.firing = FALSE, !.fns = fns, !.next = 1, !.length = 0]
    OBVIOUS
  <2>3. m.fns = fns /\ m.fired = l.fired /\ m.on = l.on
    BY <1>3, <2>2, ListFields
  <2>4. lists' = [lists EXCEPT ![id] = m] /\ frames' = Below
    BY <1>1, <1>2, <1>9, <2>1, <2>2 DEF PassEnds
  <2>5. ASSUME id \in Settling
        PROVE  Owed(m) = Owed(l) /\ OwedOnce(m)
    <3>1. m.fns = <<>>
      BY <1>4, <1>5, <2>1, <2>3, <2>5 DEF GoodList, ListInv
    <3>2. Owed(m) = {} /\ OwedOnce(m)
      BY <3>1, OffOwes
    <3>3. CASE ~l.on
      BY <3>2, <3>3, OffOwes
    <3>4. CASE l.on
      <4>1. l.firing
        <5>1. PICK s \in Seq(Frames) : s = frames /\ s # <<>>
          BY <1>3 DEF TypeInv
        <5>2. 1 \in DOMAIN s /\ s[1] = FireFrame(id)
          BY <1>3, <5>1 DEF Top
        <5>3. LoopOK(id, l.firing, s, threw)
          BY <1>2, <1>5, <2>5, <5>1 DEF CallsInv, CallsOK
        <5> QED BY <5>2, <5>3 DEF LoopOK
      <4>2. l.length = Len(l.fns)
        BY <1>4, <1>5, <2>5, <4>1 DEF GoodList, ListInv
      <4>3. ~(l.next <= l.length)
        BY <1>1, <1>2, <3>4 DEF PassEnds, HasNext
      <4>4. l.fns \in Seq(Entry) /\ l.next \in Nat
        BY <1>3, ListFields
      <4>5. \A p \in DOMAIN l.fns : ~(p >= l.next)
        BY <4>2, <4>3, <4>4
      <4>6. Coming(l) = {}
        BY <4>5 DEF Coming
      <4>7. Owed(l) = {}
        BY <4>6 DEF Owed
      <4> QED BY <3>2, <4>7
    <3> QED BY <3>3, <3>4
  <2>6. PICK ls, lt : ls = lists /\ lt = lists'
    OBVIOUS
  <2>7. lt[id] = m /\ ls[id] = l /\ \A q \in ListIds : q # id => lt[q] = ls[q]
    BY <1>2, <1>3, <2>4, <2>6
  <2>8. Still(ls, lt)
    BY <1>5, <2>3, <2>5, <2>7 DEF Still
  <2>9. OwesLess(ls, lt)
    <3>1. EntriesOK(ls, parts)
      BY <1>6, <2>6
    <3>2. \A q \in Settling : OwedOnce(lt[q])
      BY <1>5, <2>5, <2>7, <3>1 DEF EntriesOK
    <3>3. \A q \in ListIds : lt[q].fns = ls[q].fns \/ lt[q].fns = <<>>
      BY <2>1, <2>3, <2>7
    <3>4. \A q \in ListIds \ Settling : \A p \in DOMAIN lt[q].fns : ~Derives(lt[q].fns[p])
      BY <3>1, <3>3 DEF EntriesOK
    <3> QED BY <2>8, <3>2, <3>4 DEF OwesLess, Still
  <2>10. Still(lists, lists') /\ OwesLess(lists, lists')
    BY <2>6, <2>8, <2>9
  <2>11. ~ThenFrame(Top)
    BY <1>3 DEF ThenFrame, CallFrames, FireFrame
  <2>12. ThensOK(frames', follows) /\ Thens(frames') = Thens(frames)
    BY <1>3, <2>4, <2>11, PopHere
  <2> QED BY <1>7, <2>10, <2>12, StillKept
<1> QED BY <1>8, <1>9

-----------------------------------------------------------------------------
(* Steps that derive an outcome, or concern a request.                     *)

\* A list of the outcome of x fires, or none does, where entries about x at most are gone.
FiresFrom(x, k, ls, s) ==
    /\ Base(ls, s) /\ OwesLess(lists, ls) /\ ThensOK(s, follows)
    /\ FireWith(ls, <<x, k>>, s) \/ (lists' = ls /\ frames' = s)
    /\ \A q \in Settling :
          /\ ls[q].on = lists[q].on /\ ls[q].fired = lists[q].fired
          /\ \A t : t # x => (Owes(ls, q, t) <=> Owes(lists, q, t))
    /\ \A t : t # x => (t \in Thens(s) <=> t \in Thens(frames))

FiredTo(x, k, ls, s) ==
    /\ EntriesOK(lists', parts) /\ ThensOK(frames', follows)
    /\ \A t \in Deferreds \ {x} : /\ Unmoved(lists, lists', t)
                                  /\ t \in Thens(frames') <=> t \in Thens(frames)
    /\ Thens(frames') = Thens(s)
    /\ \A q \in Settling : /\ lists'[q].on = lists[q].on
                           /\ \A t : Owes(lists', q, t) <=> Owes(ls, q, t)
                           /\ lists[q].fired => lists'[q].fired
                           /\ q # <<x, k>> => lists'[q].fired = lists[q].fired
    /\ FireWith(ls, <<x, k>>, s)
          => (lists'[<<x, k>>].fired <=> lists[<<x, k>>].fired \/ lists[<<x, k>>].on)
    /\ lists' = ls => lists'[<<x, k>>].fired = lists[<<x, k>>].fired

LEMMA FiresOne ==
    ASSUME DerivedInv, TypeInv, NEW x \in Deferreds, NEW k \in {"done", "fail"},
           NEW ls, NEW s, FiresFrom(x, k, ls, s)
    PROVE  FiredTo(x, k, ls, s)
<1>0. /\ Base(ls, s) /\ OwesLess(lists, ls) /\ ThensOK(s, follows)
      /\ FireWith(ls, <<x, k>>, s) \/ (lists' = ls /\ frames' = s)
      /\ \A q \in Settling :
            /\ ls[q].on = lists[q].on /\ ls[q].fired = lists[q].fired
            /\ \A t : t # x => (Owes(ls, q, t) <=> Owes(lists, q, t))
      /\ \A t : t # x => (t \in Thens(s) <=> t \in Thens(frames))
  BY DEF FiresFrom
<1> USE <1>0
<1>1. PICK id : id = <<x, k>>
  OBVIOUS
<1>2. id \in Settling /\ id \in ListIds /\ id[1] = x
  BY <1>1, SettlingIds
<1>3. PICK lt, fo, pa : lt = lists' /\ fo = follows /\ pa = parts
  OBVIOUS
<1>4. FireWith(ls, id, s) \/ (lists' = ls /\ frames' = s)
  BY <1>1
<1>5. /\ \A q \in Settling :
            /\ lt[q].on = ls[q].on /\ Owed(lt[q]) = Owed(ls[q])
            /\ OwedOnce(ls[q]) => OwedOnce(lt[q])
            /\ q # id => lt[q].fired = ls[q].fired
            /\ FireWith(ls, id, s) /\ q = id => (lt[q].fired <=> ls[q].fired \/ ls[q].on)
            /\ lists' = ls => lt[q].fired = ls[q].fired
      /\ \A q \in ListIds : lt[q].fns = ls[q].fns
      /\ Thens(frames') = Thens(s)
      /\ ThensOK(s, fo) => ThensOK(frames', fo)
  BY <1>2, <1>3, <1>4, FireView
<1>6. OwesLess(lists, lt)
  BY <1>5 DEF OwesLess
<1>7. EntriesOK(lt, pa)
  <2>1. PICK l0 : l0 = lists
    OBVIOUS
  <2>2. EntriesOK(l0, pa) /\ OwesLess(l0, lt)
    BY <1>3, <1>6, <2>1 DEF DerivedInv, DerivedOK
  <2> QED BY <2>2, EntriesKept
<1>8. \A q \in Settling : \A t : Owes(lt, q, t) <=> Owes(ls, q, t)
  BY <1>5 DEF Owes
<1>9. \A q \in Settling : /\ lt[q].on = lists[q].on /\ (lists[q].fired => lt[q].fired)
                          /\ q # id => lt[q].fired = lists[q].fired
  BY <1>4, <1>5
<1>10. ASSUME NEW t \in Deferreds \ {x}
       PROVE  Unmoved(lists, lt, t) /\ (t \in Thens(frames') <=> t \in Thens(frames))
  BY <1>2, <1>5, <1>8, <1>9 DEF Unmoved
<1>11. ThensOK(frames', follows) /\ Thens(frames') = Thens(s)
  BY <1>3, <1>5
<1>12. /\ FireWith(ls, id, s) => (lt[id].fired <=> lists[id].fired \/ lists[id].on)
       /\ lists' = ls => lt[id].fired = lists[id].fired
  BY <1>2, <1>5
<1> QED BY <1>1, <1>3, <1>7, <1>8, <1>9, <1>10, <1>11, <1>12 DEF FiredTo

\* What the invariant says of one deferred.
LEMMA DerivedOf ==
    ASSUME DerivedInv, NEW t \in Deferreds
    PROVE  Derived(t, lists, frames, made, parts, follows, remaining, threw)
BY DEF DerivedInv, DerivedOK

LEMMA OwesSame ==
    ASSUME DerivedInv
    PROVE  OwesLess(lists, lists) /\ EntriesOK(lists, parts) /\ ThensOK(frames, follows)
BY DEF DerivedInv, DerivedOK, EntriesOK, OwesLess

\* No function given to then runs for a request.
LEMMA NotThens ==
    ASSUME TypeInv, OutcomeInv, NEW r \in Requests
    PROVE  r \notin Thens(frames)
<1> SUFFICES ASSUME NEW i \in DOMAIN frames, ThenFrame(frames[i]), frames[i].then = r
             PROVE  FALSE
  BY DEF Thens
<1>1. FrameGood(lists, phase, frames[i])
  BY DEF OutcomeInv, StackGood
<1> QED BY <1>1 DEF FrameGood, ThenFrame

\* A request's list of an outcome is fired.
LEMMA RequestFires ==
    ASSUME DerivedInv, TypeInv, OutcomeInv, NEW r \in Requests, r \in made,
           NEW k \in {"done", "fail"}, NEW s, Base(lists, s), FireWith(lists, <<r, k>>, s),
           ThensOK(s, follows), Thens(s) = Thens(frames),
           UNCHANGED <<made, parts, follows, remaining, threw>>
    PROVE  DerivedInv'
<1>1. r \in Deferreds
  BY OutcomeIds
<1>2. PICK ls : ls = lists
  OBVIOUS
<1>3. FiredTo(r, k, ls, s)
  <2>1. FiresFrom(r, k, ls, s)
    BY <1>2, OwesSame DEF FiresFrom
  <2> HIDE <1>2
  <2> QED BY <1>1, <2>1, FiresOne
<1>4. r \notin Thens(frames)
  BY NotThens
<1>5. Derived(r, lists, frames, made, parts, follows, remaining, threw)
  BY <1>1, DerivedOf
<1>6. follows[r] = r /\ parts[r] = {}
  BY <1>5 DEF Derived
<1>7. \A q \in Settling : Owes(lists, q, r) => q[1] = r
  BY <1>5, <1>6 DEF Derived, Follow
<1>8. Follow(r, r, lists', threw, FALSE)
  BY <1>2, <1>3, <1>7 DEF Follow, FiredTo
<1>9. Derived(r, lists', frames', made', parts', follows', remaining', threw')
  <2>1. (r \in Thens(frames')) = FALSE
    BY <1>3, <1>4 DEF FiredTo
  <2> QED BY <1>6, <1>8, <2>1 DEF Derived
<1>10. EntriesOK(lists', parts') /\ ThensOK(frames', follows')
  BY <1>3 DEF FiredTo
<1>11. Concerns(r)
  BY <1>3 DEF Concerns, FiredTo
<1> QED BY <1>1, <1>9, <1>10, <1>11, OneKept

\* What done puts on the stack.
LEMMA AfterFrame ==
    ASSUME NEW r \in Requests
    PROVE  \E f \in AjaxFrames : AfterSettling(r) = <<f>>
<1>1. PICK f : f = IF status[r] = 0 THEN SettledFrame(r) ELSE StatusFrame(r)
  OBVIOUS
<1>2. StatusFrame(r) \in AjaxFrames
  BY DEF StatusFrame, AjaxFrames, StatusFrames
<1>3. SettledFrame(r) \in AjaxFrames
  BY HookIs DEF Hooks, SettledFrame
<1> QED BY <1>1, <1>2, <1>3 DEF AfterSettling

\* done settles from frames that run what is running.
LEMMA AfterFires ==
    ASSUME DerivedInv, TypeInv, OutcomeInv, NEW r \in Requests, r \in made,
           NEW k \in {"done", "fail"}, NEW s, Base(lists, s),
           FireWith(lists, <<r, k>>, AfterSettling(r) \o s),
           ThensOK(s, follows), Thens(s) = Thens(frames),
           UNCHANGED <<made, parts, follows, remaining, threw>>
    PROVE  DerivedInv'
<1>1. PICK f \in AjaxFrames : AfterSettling(r) = <<f>>
  BY AfterFrame
<1>2. PICK ls, fo : ls = lists /\ fo = follows
  OBVIOUS
<1>3. PICK u : u = <<f>> \o s
  OBVIOUS
<1>4. s \in Seq(Frames)
  BY DEF Base
<1>5. Thens(<<f>> \o s) = Thens(s) /\ (ThensOK(s, fo) => ThensOK(<<f>> \o s, fo))
  BY <1>4, NoThenFrame
<1>6. Base(ls, <<f>> \o s)
  BY <1>2, BasePush
<1>7. ThensOK(u, follows) /\ Thens(u) = Thens(frames) /\ Base(lists, u)
  BY <1>2, <1>3, <1>5, <1>6
<1>8. FireWith(lists, <<r, k>>, u)
  BY <1>1, <1>3
<1> QED BY <1>7, <1>8, RequestFires

LEMMA DoneDerived ==
    ASSUME DerivedInv, TypeInv, OutcomeInv, NEW r \in Requests, r \in made, NEW ok,
           NEW s, Base(lists, s), Done(r, ok, s),
           ThensOK(s, follows), Thens(s) = Thens(frames),
           UNCHANGED <<made, parts, follows, remaining, threw>>
    PROVE  DerivedInv'
<1>1. CASE phase[r] = "done"
  BY <1>1, SameKept DEF Done
<1>2. CASE phase[r] # "done"
  <2>1. PICK k \in {"done", "fail"} : k = IF ok THEN "done" ELSE "fail"
    OBVIOUS
  <2>2. FireWith(lists, <<r, k>>, AfterSettling(r) \o s)
    BY <1>2, <2>1 DEF Done
  <2> QED BY <2>2, AfterFires
<1> QED BY <1>1, <1>2

\* The request is settled, or done again.
LEMMA SettledDerived ==
    ASSUME AjaxInv, CallsInv, OutcomeInv, DerivedInv, NEW r \in Requests,
           \/ NotSent(r) \/ SendThrows(r) \/ SendsNothing(r) \/ Abort(r) \/ Timeout(r)
           \/ \E ok \in Heard : Answered(r, ok)
    PROVE  DerivedInv'
<1>1. TypeInv /\ RequestInv /\ ThensOK(frames, follows)
  BY OwesSame DEF AjaxInv
<1>2. UNCHANGED <<made, parts, follows, remaining, threw>>
  BY DEF NotSent, SendThrows, SendsNothing, Abort, Timeout, Answered, quietVars, givenVars
<1>3. CASE NotSent(r) \/ SendThrows(r) \/ SendsNothing(r)
  <2>1. PICK at \in Hooks \cap Setup : AtHook(r, at)
    <3>1. "beforeSend" \in Hooks \cap Setup /\ "ajaxSend" \in Hooks \cap Setup
      BY DEF Hooks, Setup
    <3> QED BY <1>3, <3>1 DEF NotSent, SendThrows, SendsNothing
  <2>2. PICK g : g = Top
    OBVIOUS
  <2>3. g \in SetupFrames /\ g.request = r /\ FrameOK(g)
    BY <2>1, <2>2, AtHookTop
  <2>4. r \in made
    BY <1>1, <2>3 DEF FrameOK, RequestInv
  <2>5. On("hook")
    BY <2>1 DEF AtHook
  <2>6. PICK s \in Seq(Frames) : s = Below /\ ThensOK(s, follows) /\ Thens(s) = Thens(frames)
    BY <1>1, <2>5, AjaxPop
  <2>7. Base(lists, s)
    BY <1>1, <2>5, <2>6, AjaxBase
  <2>8. CASE NotSent(r) \/ SendThrows(r)
    <3>1. PICK ok : ok = FALSE
      OBVIOUS
    <3>2. Done(r, ok, s)
      BY <2>6, <2>8, <3>1 DEF NotSent, SendThrows
    <3> QED BY <1>1, <1>2, <2>4, <2>6, <2>7, <3>2, DoneDerived
  <2>9. CASE SendsNothing(r)
    <3>1. PICK k \in {"done", "fail"} : k = "fail"
      OBVIOUS
    <3>2. FireWith(lists, <<r, k>>, AfterSettling(r) \o s)
      BY <2>6, <2>9, <3>1 DEF SendsNothing
    <3> QED BY <1>1, <1>2, <2>4, <2>6, <2>7, <3>2, AfterFires
  <2> QED BY <1>3, <2>8, <2>9
<1>4. CASE Abort(r) \/ Timeout(r) \/ \E ok \in Heard : Answered(r, ok)
  <2>1. PICK ok : PageRuns /\ Done(r, ok, frames)
    <3>1. CASE Abort(r)
      BY <3>1 DEF Abort
    <3>2. CASE Timeout(r)
      BY <3>2 DEF Timeout, Idle, PageRuns
    <3>3. ASSUME NEW q \in Heard, Answered(r, q)
          PROVE  PageRuns /\ Done(r, q, frames)
      BY <3>3 DEF Answered, Idle, PageRuns
    <3> QED BY <1>4, <3>1, <3>2, <3>3
  <2>2. r \in made
    BY <1>1, <1>4 DEF RequestInv, Abort, Timeout, Answered
  <2>3. PICK s \in Seq(Frames) : s = frames
    BY <1>1 DEF TypeInv
  <2>4. Base(lists, s) /\ Done(r, ok, s) /\ ThensOK(s, follows)
    BY <1>1, <2>1, <2>3, QuietTop, BaseHere DEF PageRuns
  <2> QED BY <1>1, <1>2, <2>2, <2>3, <2>4, DoneDerived
<1> QED BY <1>3, <1>4

\* A function given to then returns, and resolves the deferred that then made.
LEMMA ReturnsDerived ==
    ASSUME DerivedInv, TypeInv, CallsInv, Returns
    PROVE  DerivedInv'
<1>1. /\ frames # <<>> /\ Top \in CallFrames /\ Top.then \in Deferreds \cup {NoDeferred}
      /\ On("callback")
  BY TopFrame DEF Returns, On
<1>2. UNCHANGED <<made, parts, follows, remaining, threw>>
  BY DEF Returns, givenVars
<1>3. CASE Top.then = NoDeferred
  BY <1>1, <1>2, <1>3, PopHere, SameKept DEF Returns, ThenFrame
<1>4. CASE Top.then # NoDeferred
  <2>1. PICK t \in Deferreds : t = Top.then
    BY <1>1, <1>4
  <2>2. PICK s : s = Below
    OBVIOUS
  <2>3. /\ ThensOK(s, follows) /\ t \in Thens(frames) /\ t \notin Thens(s)
        /\ \A x : x # t => (x \in Thens(s) <=> x \in Thens(frames))
        /\ Top.list = <<follows[t], "done">>
    <3>1. PICK u \in Seq(Frames) : u = frames /\ u # <<>>
      BY <1>1 DEF TypeInv
    <3>2. PICK fo : fo = follows
      OBVIOUS
    <3>3. ThensOK(u, fo)
      BY <3>1, <3>2, OwesSame
    <3>4. ThenFrame(Head(u)) /\ Head(u).then = t /\ Tail(u) = s /\ Head(u) = Top
      BY <1>1, <1>4, <2>1, <2>2, <3>1 DEF ThenFrame, Top, Below
    <3>5. /\ ThensOK(Tail(u), fo)
          /\ ThenFrame(Head(u)) => /\ Head(u).then \in Thens(u)
                                   /\ Head(u).then \notin Thens(Tail(u))
                                   /\ \A x \in Thens(u) : x # Head(u).then => x \in Thens(Tail(u))
                                   /\ Thens(Tail(u)) \subseteq Thens(u)
                                   /\ Head(u).list = <<fo[Head(u).then], "done">>
      BY <3>1, <3>3, ThensPop
    <3> QED BY <3>1, <3>2, <3>4, <3>5
  <2>4. Base(lists, s)
    BY <1>1, <2>2, QuietTop, BaseHere
  <2>5. PICK k \in {"done", "fail"} : k = "done"
    OBVIOUS
  <2>6. FireWith(lists, <<t, k>>, s)
    BY <1>4, <2>1, <2>2, <2>3, <2>5 DEF Returns
  <2>7. PICK ls : ls = lists
    OBVIOUS
  <2>8. FiredTo(t, k, ls, s)
    <3>1. FiresFrom(t, k, ls, s)
      BY <2>3, <2>4, <2>6, <2>7, OwesSame DEF FiresFrom
    <3> HIDE <2>7
    <3> QED BY <3>1, FiresOne
  <2>9. Derived(t, lists, frames, made, parts, follows, remaining, threw)
    BY DerivedOf
  <2>10. PICK d \in Deferreds : d = follows[t]
    BY DEF TypeInv, DeferredTypes
  <2>11. /\ t \in made /\ parts[t] = {}
         /\ t \in Requests => follows[t] = t
         /\ Follow(t, d, ls, threw, TRUE)
    BY <2>3, <2>7, <2>9, <2>10 DEF Derived
  <2>12. PICK td, tf, dd, df : /\ td = <<t, "done">> /\ tf = <<t, "fail">>
                               /\ dd = <<d, "done">> /\ df = <<d, "fail">>
    OBVIOUS
  <2>13. /\ td \in Settling /\ tf \in Settling /\ dd \in Settling /\ df \in Settling
         /\ tf # td
    BY <2>12, SettlingIds
  <2>14. /\ lists[dd].fired /\ ~lists[td].fired /\ ~lists[tf].fired
         /\ \A id \in Settling : ~Owes(ls, id, t)
    BY <2>7, <2>11, <2>12 DEF Follow
  <2>15. lists[td].on
    BY <2>12, <2>14, OutcomeFacts
  <2>16. ~lists[df].on
    BY <2>4, <2>12, <2>13, <2>14, OutcomeFacts DEF Base, NoneSettles
  <2>17. /\ lists'[td].fired /\ ~lists'[tf].fired /\ lists'[dd].fired /\ ~lists'[df].on
         /\ \A id \in Settling : ~Owes(lists', id, t)
    <3>1. lists'[td].fired
      BY <2>5, <2>6, <2>7, <2>8, <2>12, <2>15 DEF FiredTo
    <3>2. ~lists'[tf].fired
      BY <2>5, <2>8, <2>12, <2>13, <2>14 DEF FiredTo
    <3> QED BY <2>8, <2>13, <2>14, <2>16, <3>1, <3>2 DEF FiredTo
  <2>18. Follow(t, d, lists', threw, FALSE)
    BY <2>12, <2>13, <2>17 DEF Follow
  <2>19. Derived(t, lists', frames', made', parts', follows', remaining', threw')
    <3>1. (t \in Thens(frames')) = FALSE
      BY <2>3, <2>8 DEF FiredTo
    <3> QED BY <1>2, <2>10, <2>11, <2>18, <3>1 DEF Derived
  <2>20. EntriesOK(lists', parts') /\ ThensOK(frames', follows')
    BY <1>2, <2>8 DEF FiredTo
  <2>21. Concerns(t)
    BY <1>2, <2>8 DEF Concerns, FiredTo
  <2> QED BY <2>19, <2>20, <2>21, OneKept
<1> QED BY <1>3, <1>4

\* The loop passes on the outcome of d to x.
LEMMA PassesOn ==
    ASSUME DerivedInv, TypeInv, CallsInv, On("fire"), HasNext,
           NextEntry.kind \in {"count", "forward"}, NEW x, x = About(NextEntry)
    PROVE  /\ Base(Stepped, frames) /\ OwesLess(lists, Stepped) /\ ThensOK(frames, follows)
           /\ \A q \in Settling :
                 /\ Stepped[q].on = lists[q].on /\ Stepped[q].fired = lists[q].fired
                 /\ \A t : t # x => (Owes(Stepped, q, t) <=> Owes(lists, q, t))
                 /\ q # Firing => (Owes(Stepped, q, x) <=> Owes(lists, q, x))
           /\ Firing \in Settling /\ NextEntry \in Entry
           /\ EntryShape(Firing, NextEntry, parts)
           /\ Owes(lists, Firing, x) /\ ~Owes(Stepped, Firing, x)
           /\ lists[Firing].fired /\ lists[Firing].on
           /\ state[Firing[1]] = Outcome(Firing[2])
<1>1. Derives(NextEntry) /\ NextEntry.kind # "settle"
  BY DEF Derives
<1>2. /\ \A q \in Settling : Stepped[q].on = lists[q].on /\ Stepped[q].fired = lists[q].fired
      /\ \A q \in Settling : q # Firing => Owed(Stepped[q]) = Owed(lists[q])
      /\ OwesLess(lists, Stepped)
      /\ Derives(NextEntry) =>
            /\ Firing \in Settling /\ NextEntry \in Owed(lists[Firing])
            /\ EntryShape(Firing, NextEntry, parts)
            /\ \A t : Owes(Stepped, Firing, t)
                         <=> Owes(lists, Firing, t) /\ t # About(NextEntry)
      /\ Firing \in Settling =>
            /\ lists[Firing].fired /\ lists[Firing].on
            /\ NextEntry.kind # "settle" => state[Firing[1]] = Outcome(Firing[2])
  BY OwesSame, StepView
<1>3. Base(Stepped, frames) /\ NextEntry \in Entry
  BY PassesOver, StepsOver
<1>4. ThensOK(frames, follows)
  BY OwesSame
<1>5. PICK st, id : st = Stepped /\ id = Firing
  OBVIOUS
<1>6. ASSUME NEW q \in Settling
      PROVE  /\ \A t : t # x => (Owes(st, q, t) <=> Owes(lists, q, t))
             /\ q # id => (Owes(st, q, x) <=> Owes(lists, q, x))
  BY <1>1, <1>2, <1>5 DEF Owes
<1>7. Owes(lists, id, x)
  BY <1>1, <1>2, <1>5 DEF Owes
<1> QED BY <1>1, <1>2, <1>3, <1>4, <1>5, <1>6, <1>7

\* A part of a when has been resolved.
LEMMA CountsDerived ==
    ASSUME DerivedInv, TypeInv, CallsInv, Counts
    PROVE  DerivedInv'
<1>1. On("fire") /\ HasNext /\ NextEntry.kind = "count"
  BY DEF Counts
<1>2. PICK m, id, st : m = NextEntry.of /\ id = Firing /\ st = Stepped
  OBVIOUS
<1>3. m = About(NextEntry)
  BY <1>1, <1>2 DEF About
<1>4. /\ Base(st, frames) /\ OwesLess(lists, st) /\ ThensOK(frames, follows)
      /\ \A q \in Settling :
            /\ st[q].on = lists[q].on /\ st[q].fired = lists[q].fired
            /\ \A t : t # m => (Owes(st, q, t) <=> Owes(lists, q, t))
            /\ q # id => (Owes(st, q, m) <=> Owes(lists, q, m))
      /\ id \in Settling /\ NextEntry \in Entry /\ EntryShape(id, NextEntry, parts)
      /\ Owes(lists, id, m) /\ ~Owes(st, id, m)
      /\ lists[id].fired /\ lists[id].on /\ state[id[1]] = Outcome(id[2])
  BY <1>1, <1>2, <1>3, PassesOn
<1>5. m \in Deferreds
  BY <1>1, <1>2, <1>4 DEF Entry, SettleEntry
<1>6. PICK d \in Deferreds : d = id[1] /\ id = <<d, "done">> /\ parts[m] # {}
  BY <1>1, <1>2, <1>4 DEF EntryShape, Settling
<1>7. PICK s : s = frames
  OBVIOUS
<1>8. /\ UNCHANGED <<made, parts, follows, threw>>
      /\ remaining' = [remaining EXCEPT ![m] = @ - 1]
  BY <1>2 DEF Counts, givenVars
<1>9. PICK n \in Int : n = remaining[m] /\ remaining'[m] = n - 1
  BY <1>5, <1>8 DEF TypeInv, DeferredTypes
<1>10. /\ n = 1 => FireWith(st, <<m, "done">>, s)
       /\ n # 1 => lists' = st /\ frames' = s
  BY <1>2, <1>7, <1>9 DEF Counts
<1>11. PICK k \in {"done", "fail"} : k = "done"
  OBVIOUS
<1>12. FiredTo(m, k, st, s)
  BY <1>4, <1>5, <1>7, <1>10, <1>11, FiresOne DEF FiresFrom
<1>13. PICK ds \in SUBSET Deferreds : ds = parts[m]
  BY <1>5 DEF TypeInv, DeferredTypes
<1>14. Derived(m, lists, frames, made, parts, follows, remaining, threw)
  BY <1>5, DerivedOf
<1>15. /\ follows[m] = m /\ m \notin Thens(frames) /\ m \notin Requests /\ m \in made
       /\ Join(m, ds, lists, n)
  BY <1>6, <1>9, <1>13, <1>14 DEF Derived, Fresh
<1>16. PICK md, mf : md = <<m, "done">> /\ mf = <<m, "fail">>
  OBVIOUS
<1>17. md \in Settling /\ mf \in Settling /\ mf # md
  BY <1>5, <1>16, SettlingIds
<1>18. PICK uc : uc = Uncounted(lists, m, ds)
  OBVIOUS
<1>19. /\ \A q \in Settling : Owes(lists, q, m) => q[1] \in ds
       /\ lists[md].fired <=> n = 0
       /\ lists[mf].fired => \E c \in ds : lists[<<c, "fail">>].fired
       /\ IsFiniteSet(ds) /\ n = Cardinality(uc) /\ uc \subseteq ds
       /\ \A c \in ds :
             /\ c \in uc \/ lists[<<c, "done">>].fired
             /\ lists[<<c, "fail">>].on => Owes(lists, <<c, "fail">>, m) \/ lists[mf].fired
  BY <1>15, <1>16, <1>18 DEF Join, Uncounted
<1>20. d \in ds /\ d \in uc /\ IsFiniteSet(uc)
  BY <1>4, <1>6, <1>18, <1>19, FS_Subset DEF Uncounted
<1>21. IsFiniteSet(uc \ {d}) /\ Cardinality(uc \ {d}) = n - 1 /\ n # 0
  <2>1. IsFiniteSet(uc \ {d}) /\ Cardinality(uc \ {d}) = n - 1
    BY <1>19, <1>20, FS_RemoveElement
  <2>2. Cardinality(uc \ {d}) \in Nat
    BY <2>1, FS_CardinalityType
  <2> QED BY <2>1, <2>2
<1>22. ASSUME NEW c \in ds
       PROVE  c \in Uncounted(lists', m, ds) <=> c \in uc \ {d}
  <2>1. PICK q : q = <<c, "done">>
    OBVIOUS
  <2>2. q \in Settling /\ (q = id <=> c = d)
    BY <1>6, <2>1, SettlingIds
  <2>3. lists'[q].on = lists[q].on /\ (Owes(lists', q, m) <=> Owes(st, q, m))
    BY <1>12, <2>2 DEF FiredTo
  <2>4. c \in Uncounted(lists', m, ds) <=> ~lists'[q].on \/ Owes(lists', q, m)
    BY <2>1 DEF Uncounted
  <2>5. c \in uc <=> ~lists[q].on \/ Owes(lists, q, m)
    BY <1>18, <2>1 DEF Uncounted
  <2> QED BY <1>4, <2>2, <2>3, <2>4, <2>5
<1>23. Uncounted(lists', m, ds) = uc \ {d}
  BY <1>19, <1>22 DEF Uncounted
<1>24. lists'[md].fired <=> n - 1 = 0
  <2>1. ~lists[md].fired
    BY <1>19, <1>21
  <2>2. CASE n # 1
    BY <1>4, <1>9, <1>10, <1>17, <2>1, <2>2
  <2>3. CASE n = 1
    <3>1. lists[md].on
      <4> SUFFICES ASSUME ~lists[md].on PROVE FALSE
        OBVIOUS
      <4>1. lists[mf].fired
        BY <1>5, <1>16, OutcomeFacts
      <4>2. PICK c \in ds : lists[<<c, "fail">>].fired
        BY <1>19, <4>1
      <4>3. PICK q, cd : q = <<c, "fail">> /\ cd = <<c, "done">>
        OBVIOUS
      <4>4. q \in Settling /\ q[1] = c
        BY <4>3, SettlingIds
      <4>5. state[c] # "pending"
        BY <1>4, <4>2, <4>3, <4>4 DEF Base, NoneSettles
      <4>6. state[c] = Outcome("fail")
        BY <4>2, <4>5, OutcomeFacts
      <4>7. ~lists[cd].on
        BY <4>3, <4>6, OutcomeFacts
      <4>8. c \in uc
        BY <1>18, <4>3, <4>7 DEF Uncounted
      <4>9. c # d
        BY <1>4, <1>6, <4>3, <4>7
      <4>10. PICK y : uc = {y}
        BY <1>19, <1>20, <2>3, FS_Singleton
      <4> QED BY <1>20, <4>8, <4>9, <4>10
    <3>2. lists'[md].fired
      BY <1>10, <1>11, <1>12, <1>16, <2>3, <3>1 DEF FiredTo
    <3> QED BY <2>3, <3>2
  <2> QED BY <2>2, <2>3
<1>25. lists'[mf].fired = lists[mf].fired
  BY <1>11, <1>12, <1>16, <1>17 DEF FiredTo
<1>26. ASSUME NEW c \in ds
       PROVE  /\ c \in uc \ {d} \/ lists'[<<c, "done">>].fired
              /\ lists'[<<c, "fail">>].on => Owes(lists', <<c, "fail">>, m) \/ lists'[mf].fired
              /\ lists[<<c, "fail">>].fired => lists'[<<c, "fail">>].fired
  <2>1. PICK q, cd : q = <<c, "fail">> /\ cd = <<c, "done">>
    OBVIOUS
  <2>2. q \in Settling /\ cd \in Settling /\ q # id
    BY <1>6, <2>1, SettlingIds
  <2>3. /\ lists'[q].on = lists[q].on /\ (lists[q].fired => lists'[q].fired)
        /\ lists[cd].fired => lists'[cd].fired
        /\ Owes(lists', q, m) <=> Owes(lists, q, m)
    BY <1>4, <1>12, <2>2 DEF FiredTo
  <2>4. c \in uc \/ lists[cd].fired
    BY <1>19, <2>1
  <2>5. c = d => lists[cd].fired
    BY <1>4, <1>6, <2>1
  <2> QED BY <1>19, <1>25, <2>1, <2>3, <2>4, <2>5
<1>27. \A q \in Settling : Owes(lists', q, m) => q[1] \in ds
  BY <1>4, <1>12, <1>19 DEF FiredTo
<1>28. Join(m, ds, lists', n - 1)
  BY <1>16, <1>19, <1>21, <1>23, <1>24, <1>25, <1>26, <1>27 DEF Join
<1>29. Derived(m, lists', frames', made', parts', follows', remaining', threw')
  <2>1. m \notin Thens(frames')
    BY <1>7, <1>12, <1>15 DEF FiredTo
  <2> QED BY <1>6, <1>8, <1>9, <1>13, <1>15, <1>28, <2>1 DEF Derived
<1>30. EntriesOK(lists', parts') /\ ThensOK(frames', follows')
  BY <1>8, <1>12 DEF FiredTo
<1>31. Concerns(m)
  BY <1>8, <1>12 DEF TypeInv, DeferredTypes, Concerns, FiredTo
<1> QED BY <1>5, <1>29, <1>30, <1>31, OneKept

\* The outcome of d becomes that of another deferred.
LEMMA ForwardsDerived ==
    ASSUME DerivedInv, TypeInv, CallsInv, Forwards
    PROVE  DerivedInv'
<1>1. On("fire") /\ HasNext /\ NextEntry.kind = "forward"
  BY DEF Forwards
<1>2. PICK x, id, st : x = NextEntry.to[1] /\ id = Firing /\ st = Stepped
  OBVIOUS
<1>3. x = About(NextEntry)
  BY <1>1, <1>2 DEF About
<1>4. /\ Base(st, frames) /\ OwesLess(lists, st) /\ ThensOK(frames, follows)
      /\ \A q \in Settling :
            /\ st[q].on = lists[q].on /\ st[q].fired = lists[q].fired
            /\ \A t : t # x => (Owes(st, q, t) <=> Owes(lists, q, t))
            /\ q # id => (Owes(st, q, x) <=> Owes(lists, q, x))
      /\ id \in Settling /\ NextEntry \in Entry /\ EntryShape(id, NextEntry, parts)
      /\ Owes(lists, id, x) /\ ~Owes(st, id, x)
      /\ lists[id].fired /\ lists[id].on /\ state[id[1]] = Outcome(id[2])
  BY <1>1, <1>2, <1>3, PassesOn
<1>5. PICK d \in Deferreds, k \in {"done", "fail"} : id = <<d, k>>
  BY <1>4 DEF Settling
<1>6. x \in Deferreds /\ NextEntry.to = <<x, k>>
  BY <1>1, <1>2, <1>4, <1>5 DEF Entry, SettleEntry, EntryShape, ListIds
<1>7. k = "done" => parts[x] = {}
  BY <1>1, <1>2, <1>4, <1>5 DEF EntryShape
<1>8. UNCHANGED <<made, parts, follows, threw, remaining>>
  BY DEF Forwards, givenVars
<1>9. PICK s : s = frames
  OBVIOUS
<1>10. FireWith(st, <<x, k>>, s)
  BY <1>2, <1>6, <1>9 DEF Forwards
<1>11. FiredTo(x, k, st, s)
  BY <1>4, <1>6, <1>9, <1>10, FiresOne DEF FiresFrom
<1>12. Derived(x, lists, frames, made, parts, follows, remaining, threw)
  BY <1>6, DerivedOf
<1>13. PICK o \in {"done", "fail"} : o # k
  OBVIOUS
<1>14. PICK xk, xo, dk, do : /\ xk = <<x, k>> /\ xo = <<x, o>>
                             /\ dk = <<d, k>> /\ do = <<d, o>>
  OBVIOUS
<1>15. /\ xk \in Settling /\ xo \in Settling /\ dk \in Settling /\ do \in Settling
       /\ xk # xo /\ do # id /\ dk = id
  BY <1>5, <1>6, <1>13, <1>14, SettlingIds
<1>16. ~lists[do].fired /\ ~lists[do].on
  BY <1>4, <1>5, <1>13, <1>14, OutcomeFacts
<1>17. ~lists[xk].on => lists[xo].fired
  BY <1>6, <1>13, <1>14, OutcomeFacts
<1>18. /\ lists'[xk].fired <=> lists[xk].fired \/ lists[xk].on
       /\ lists'[xo].fired = lists[xo].fired
       /\ lists'[dk].fired /\ ~lists'[do].on
       /\ ~Owes(lists', id, x)
       /\ \A q \in Settling : Owes(lists', q, x) <=> q # id /\ Owes(lists, q, x)
  BY <1>4, <1>10, <1>11, <1>14, <1>15, <1>16 DEF FiredTo
<1>19. Derived(x, lists', frames', made', parts', follows', remaining', threw')
  <2>1. CASE parts[x] = {}
    <3>1. PICK runs : runs = (x \in Thens(frames))
      OBVIOUS
    <3>2. Follow(x, follows[x], lists, threw, runs)
      BY <1>12, <2>1, <3>1 DEF Derived
    <3>3. follows[x] = d /\ ~runs
      BY <1>4, <1>5, <3>2 DEF Follow
    <3>4. /\ lists[xo].fired => lists[do].fired
          /\ \A q \in Settling : Owes(lists, q, x) => q[1] = d
          /\ d # x /\ Owes(lists, do, x) => ~lists[xo].fired
      BY <1>14, <3>2, <3>3 DEF Follow
    <3>5. lists'[xk].fired
      BY <1>16, <1>17, <1>18, <3>4
    <3>6. ~lists'[xo].fired
      BY <1>16, <1>18, <3>4
    <3>7. ASSUME NEW q \in {"done", "fail"}
          PROVE  /\ lists'[<<x, q>>].fired => lists'[<<d, q>>].fired
                 /\ lists'[<<d, q>>].on => lists'[<<x, q>>].fired
                 /\ Owes(lists', <<d, q>>, x) => ~lists'[<<x, q>>].fired
      BY <1>13, <1>14, <1>15, <1>18, <3>5, <3>6
    <3>8. Follow(x, d, lists', threw, FALSE)
      BY <1>18, <3>4, <3>7 DEF Follow
    <3>9. (x \in Thens(frames')) = FALSE
      <4>1. Thens(frames') = Thens(s)
        BY <1>11 DEF FiredTo
      <4>2. x \notin Thens(frames)
        BY <3>1, <3>3
      <4>3. x \notin Thens(frames')
        BY <1>9, <4>1, <4>2
      <4> QED BY <4>3
    <3>10. x \in made
      BY <1>4, <1>12 DEF Derived, Fresh
    <3>11. x \in Requests => follows[x] = x
      BY <1>12 DEF Derived
    <3> QED BY <1>8, <2>1, <3>3, <3>8, <3>9, <3>10, <3>11 DEF Derived
  <2>2. CASE parts[x] # {}
    <3>1. k = "fail" /\ o = "done"
      BY <1>7, <1>13, <2>2
    <3>2. PICK ds \in SUBSET Deferreds : ds = parts[x]
      BY <1>6 DEF TypeInv, DeferredTypes
    <3>3. PICK n : n = remaining[x]
      OBVIOUS
    <3>4. /\ follows[x] = x /\ x \notin Thens(frames) /\ x \notin Requests /\ x \in made
          /\ Join(x, ds, lists, n)
      BY <1>12, <2>2, <3>2, <3>3 DEF Derived, Fresh
    <3>5. PICK uc : uc = Uncounted(lists, x, ds)
      OBVIOUS
    <3>6. /\ \A q \in Settling : Owes(lists, q, x) => q[1] \in ds
          /\ lists[xo].fired <=> n = 0
          /\ IsFiniteSet(ds) /\ n = Cardinality(uc) /\ uc \subseteq ds
          /\ \A c \in ds :
                /\ c \in uc \/ lists[<<c, "done">>].fired
                /\ lists[<<c, "fail">>].on => Owes(lists, <<c, "fail">>, x) \/ lists[xk].fired
      BY <1>14, <3>1, <3>4, <3>5 DEF Join, Uncounted
    <3>7. d \in ds /\ d \in uc
      BY <1>4, <1>5, <1>14, <1>16, <3>1, <3>5, <3>6 DEF Uncounted
    <3>8. n # 0
      BY <3>6, <3>7, FS_Subset, FS_EmptySet
    <3>9. lists'[xk].fired
      BY <1>17, <1>18, <3>6, <3>8
    <3>10. ASSUME NEW c \in ds
           PROVE  /\ c \in Uncounted(lists', x, ds) <=> c \in uc
                  /\ c \in uc \/ lists'[<<c, "done">>].fired
      <4>1. PICK q : q = <<c, "done">>
        OBVIOUS
      <4>2. q \in Settling /\ q # id
        BY <1>5, <3>1, <4>1, SettlingIds
      <4>3. lists'[q].on = lists[q].on /\ (lists[q].fired => lists'[q].fired)
        BY <1>11, <4>2 DEF FiredTo
      <4>4. c \in Uncounted(lists', x, ds) <=> ~lists'[q].on \/ Owes(lists', q, x)
        BY <4>1 DEF Uncounted
      <4>5. c \in uc <=> ~lists[q].on \/ Owes(lists, q, x)
        BY <3>5, <4>1 DEF Uncounted
      <4>6. c \in uc \/ lists[q].fired
        BY <3>6, <4>1
      <4> QED BY <1>18, <4>1, <4>2, <4>3, <4>4, <4>5, <4>6
    <3>11. Uncounted(lists', x, ds) = uc
      BY <3>6, <3>10 DEF Uncounted
    <3>12. d \in ds /\ lists'[<<d, "fail">>].fired
      BY <1>14, <1>18, <3>1, <3>7
    <3>13. \A q \in Settling : Owes(lists', q, x) => q[1] \in ds
      BY <1>18, <3>6
    <3>14. lists'[<<x, "done">>].fired <=> n = 0
      BY <1>14, <1>18, <3>1, <3>6
    <3>15. lists'[<<x, "fail">>].fired
      BY <1>14, <3>1, <3>9
    <3>16. Join(x, ds, lists', n)
      BY <3>6, <3>10, <3>11, <3>12, <3>13, <3>14, <3>15 DEF Join
    <3>17. x \notin Thens(frames')
      BY <1>9, <1>11, <3>4 DEF FiredTo
    <3> QED BY <1>8, <2>2, <3>2, <3>3, <3>4, <3>16, <3>17 DEF Derived
  <2> QED BY <2>1, <2>2
<1>20. EntriesOK(lists', parts') /\ ThensOK(frames', follows')
  BY <1>8, <1>11 DEF FiredTo
<1>21. Concerns(x)
  BY <1>8, <1>11 DEF Concerns, FiredTo
<1> QED BY <1>6, <1>19, <1>20, <1>21, OneKept

\* A deferred is left alone where no list starts and none owes it more or less.
LEMMA OthersUnmoved ==
    ASSUME NEW ls, NEW lt, NEW t,
           \A q \in Settling : /\ lt[q].on = ls[q].on /\ lt[q].fired = ls[q].fired
                               /\ Owes(lt, q, t) <=> Owes(ls, q, t)
    PROVE  Unmoved(ls, lt, t)
BY DEF Unmoved

\* The function given to then is called.
LEMMA CallsThenDerived ==
    ASSUME DerivedInv, TypeInv, CallsInv, Calls, NextEntry.kind = "then"
    PROVE  DerivedInv'
<1>1. On("fire") /\ HasNext /\ Derives(NextEntry)
  BY DEF Calls, Derives
<1>2. PICK t, id, st : t = NextEntry.to /\ id = Firing /\ st = Stepped
  OBVIOUS
<1>3. t = About(NextEntry)
  BY <1>2 DEF About
<1>4. /\ \A q \in Settling : st[q].on = lists[q].on /\ st[q].fired = lists[q].fired
      /\ \A q \in Settling : q # id => Owed(st[q]) = Owed(lists[q])
      /\ OwesLess(lists, st)
      /\ id \in Settling /\ NextEntry \in Owed(lists[id]) /\ EntryShape(id, NextEntry, parts)
      /\ \A u : Owes(st, id, u) <=> Owes(lists, id, u) /\ u # t
      /\ lists[id].fired /\ lists[id].on /\ state[id[1]] = Outcome(id[2])
  BY <1>1, <1>2, <1>3, OwesSame, StepView
<1>5. \A q \in Settling : \A u : Owes(st, q, u) <=> Owes(lists, q, u) /\ (q = id => u # t)
  BY <1>4 DEF Owes
<1>6. t \in Deferreds /\ t # NoDeferred
  BY <1>1, <1>2, StepsOver, DeferredAssumption DEF Entry, SettleEntry
<1>7. PICK d \in Deferreds : id = <<d, "done">> /\ parts[t] = {} /\ t # d
  BY <1>2, <1>4 DEF EntryShape, Settling
<1>8. Owes(lists, id, t)
  BY <1>3, <1>4 DEF Owes
<1>9. Derived(t, lists, frames, made, parts, follows, remaining, threw)
  BY <1>6, DerivedOf
<1>10. PICK runs : runs = (t \in Thens(frames))
  OBVIOUS
<1>11. Follow(t, follows[t], lists, threw, runs)
  BY <1>7, <1>9, <1>10 DEF Derived
<1>12. follows[t] = d /\ ~runs
  BY <1>4, <1>7, <1>8, <1>11 DEF Follow
<1>13. t \in made /\ (t \in Requests => follows[t] = t) /\ t \notin Thens(frames)
  BY <1>4, <1>8, <1>9, <1>10, <1>12 DEF Derived, Fresh
<1>14. PICK td, tf, df : td = <<t, "done">> /\ tf = <<t, "fail">> /\ df = <<d, "fail">>
  OBVIOUS
<1>15. td \in Settling /\ tf \in Settling /\ df \in Settling /\ df # id
  BY <1>6, <1>7, <1>14, SettlingIds
<1>16. ~lists[df].fired /\ ~lists[df].on
  BY <1>4, <1>7, <1>14, OutcomeFacts
<1>17. ~lists[td].fired /\ ~lists[tf].fired
  BY <1>7, <1>8, <1>11, <1>12, <1>14, <1>16 DEF Follow
<1>18. \A q \in Settling : ~Owes(st, q, t)
  <2>1. \A q \in Settling : Owes(lists, q, t) => q = id \/ q = df
    BY <1>7, <1>11, <1>12, <1>14 DEF Follow, Settling
  <2>2. ~Owes(lists, df, t)
    BY <1>16, OffOwes DEF Owes
  <2> QED BY <1>5, <2>1, <2>2
<1>19. Follow(t, d, st, threw, TRUE)
  BY <1>4, <1>7, <1>14, <1>15, <1>17, <1>18 DEF Follow
<1>20. PICK s \in Seq(Frames) : s = frames
  BY DEF TypeInv
<1>21. PICK c : c = CallFrame(id, t)
  OBVIOUS
<1>22. c \in Frames /\ ThenFrame(c) /\ c.then = t /\ c.list = <<d, "done">>
  BY <1>1, <1>2, <1>6, <1>7, <1>21, StepsOver DEF CallFrame, CallFrames, Frames,
     PlainFrames, ThenFrame
<1>23. lists' = st /\ frames' = <<c>> \o s
  BY <1>2, <1>20, <1>21 DEF Calls
<1>24. UNCHANGED <<made, parts, follows, remaining, threw>>
  BY DEF Calls, givenVars
<1>25. ThensOK(frames', follows') /\ Thens(frames') = Thens(frames) \cup {t}
  <2>1. PICK fo : fo = follows
    OBVIOUS
  <2>2. ThensOK(s, fo) /\ c.then \notin Thens(s) /\ c.list = <<fo[c.then], "done">>
    BY <1>12, <1>13, <1>20, <1>22, <2>1, OwesSame
  <2>3. ThensOK(<<c>> \o s, fo) /\ Thens(<<c>> \o s) = Thens(s) \cup {c.then}
    BY <1>22, <2>2, ThensPush
  <2> QED BY <1>20, <1>22, <1>23, <1>24, <2>1, <2>3
<1>26. EntriesOK(lists', parts')
  <2>1. PICK ls, pa : ls = lists /\ pa = parts
    OBVIOUS
  <2>2. EntriesOK(ls, pa) /\ OwesLess(ls, st)
    BY <1>4, <2>1, OwesSame
  <2>3. EntriesOK(st, pa)
    BY <2>2, EntriesKept
  <2> QED BY <1>23, <1>24, <2>1, <2>3
<1>27. Derived(t, lists', frames', made', parts', follows', remaining', threw')
  BY <1>7, <1>12, <1>13, <1>19, <1>23, <1>24, <1>25 DEF Derived
<1>28. Concerns(t)
  <2>1. PICK ls : ls = lists
    OBVIOUS
  <2>2. ASSUME NEW u \in Deferreds \ {t}
        PROVE  Unmoved(ls, st, u)
    BY <1>4, <1>5, <2>1, OthersUnmoved
  <2> QED BY <1>23, <1>24, <1>25, <2>1, <2>2 DEF Concerns
<1> QED BY <1>6, <1>25, <1>26, <1>27, <1>28, OneKept

LEMMA CallsDerived ==
    ASSUME DerivedInv, TypeInv, CallsInv, Calls
    PROVE  DerivedInv'
<1>1. CASE NextEntry.kind = "then"
  BY <1>1, CallsThenDerived
<1>2. CASE NextEntry.kind # "then"
  <2>1. On("fire") /\ HasNext /\ ~Derives(NextEntry)
    BY <1>2 DEF Calls, Derives
  <2>2. Still(lists, Stepped) /\ OwesLess(lists, Stepped)
    BY <2>1, OwesSame, StepView
  <2>3. PICK s \in Seq(Frames) : s = frames
    BY DEF TypeInv
  <2>4. PICK c : c = CallFrame(Firing, NoDeferred)
    OBVIOUS
  <2>5. c \in Frames /\ ~ThenFrame(c)
    BY <2>1, <2>4, StepsOver DEF CallFrame, CallFrames, Frames, PlainFrames, ThenFrame
  <2>6. lists' = Stepped /\ frames' = <<c>> \o s
    BY <1>2, <2>3, <2>4 DEF Calls
  <2>7. UNCHANGED <<made, parts, follows, remaining, threw>>
    BY DEF Calls, givenVars
  <2>8. PICK p \in Seq(Frames) : p = <<c>> /\ \A i \in DOMAIN p : ~ThenFrame(p[i])
    <3>1. PICK p : p = <<c>>
      OBVIOUS
    <3>2. p \in Seq(Frames) /\ \A i \in DOMAIN p : ~ThenFrame(p[i])
      BY <2>5, <3>1
    <3> QED BY <3>1, <3>2
  <2>9. PICK fo : fo = follows
    OBVIOUS
  <2>10. Thens(p \o s) = Thens(s) /\ (ThensOK(s, fo) => ThensOK(p \o s, fo))
    BY <2>8, ThensGrow
  <2>11. ThensOK(frames', follows) /\ Thens(frames') = Thens(frames)
    BY <2>3, <2>6, <2>8, <2>9, <2>10, OwesSame
  <2>12. Still(lists, lists') /\ OwesLess(lists, lists')
    BY <2>2, <2>6
  <2> QED BY <2>7, <2>11, <2>12, StillKept
<1> QED BY <1>1, <1>2

\* What a list owes is an entry.
LEMMA OwedEntries ==
    ASSUME NEW l \in List
    PROVE  Owed(l) \subseteq Entry
<1>1. PICK fns \in Seq(Entry) : fns = l.fns
  BY ListFields
<1>2. \A p \in DOMAIN fns : fns[p] \in Entry
  OBVIOUS
<1> QED BY <1>1, <1>2 DEF Owed, Coming

LEMMA ThensAre ==
    ASSUME NEW s
    PROVE  Thens(s) \subseteq Deferreds
BY DEF Thens, ThenFrame, CallFrames

\* Entries that settle x are added, where none was owed.
LEMMA AddsFor ==
    ASSUME DerivedInv, TypeInv, CallsInv, NEW x \in Deferreds, NEW rest \in Seq(Frames),
           NEW ids \in SUBSET Settling, IsFiniteSet(ids), NEW cbs \in [ids -> Entry],
           \A id \in ids : Derives(cbs[id]) /\ About(cbs[id]) = x,
           \A q \in Settling : ~Owes(lists, q, x),
           AddAll(cbs, rest),
           NEW pt, EntriesOK(lists, pt), \A id \in ids : EntryShape(id, cbs[id], pt),
           NEW fo, ThensOK(rest, fo)
    PROVE  /\ \A q \in Settling :
                 /\ lists'[q].on = lists[q].on /\ lists'[q].fired = lists[q].fired
                 /\ Owes(lists', q, x) => q \in ids
                 /\ q \in ids /\ lists[q].on => Owes(lists', q, x)
           /\ \A u \in Deferreds \ {x} : Unmoved(lists, lists', u)
           /\ EntriesOK(lists', pt) /\ ThensOK(frames', fo) /\ Thens(frames') = Thens(rest)
<1>1. EntriesOK(lists, parts)
  BY OwesSame
<1>2. ids \in SUBSET ListIds
  BY DEF Settling, ListIds, Kinds
<1>3. \A id \in ids : Derives(cbs[id]) =>
          id \in Settling /\ \A f \in Owed(lists[id]) : About(f) # About(cbs[id])
  BY DEF Owes
<1>4. /\ \A q \in Settling :
            /\ lists'[q].on = lists[q].on /\ lists'[q].fired = lists[q].fired
            /\ OwedOnce(lists'[q]) /\ Owed(lists[q]) \subseteq Owed(lists'[q])
            /\ q \notin ids \/ ~Derives(cbs[q]) => Owed(lists'[q]) = Owed(lists[q])
            /\ q \in ids => Owed(lists'[q]) \subseteq Owed(lists[q]) \cup {cbs[q]}
            /\ q \in ids /\ Derives(cbs[q]) /\ lists[q].on => cbs[q] \in Owed(lists'[q])
      /\ \A q \in ListIds \ Settling :
            \A p \in DOMAIN lists'[q].fns : ~Derives(lists'[q].fns[p])
      /\ Thens(frames') = Thens(rest)
      /\ ThensOK(rest, fo) => ThensOK(frames', fo)
  BY <1>1, <1>2, <1>3, AddView
<1>5. PICK ls, lt : ls = lists /\ lt = lists'
  OBVIOUS
<1>6. ASSUME NEW q \in Settling, NEW u
      PROVE  /\ u # x => (Owes(lt, q, u) <=> Owes(ls, q, u))
             /\ Owes(lt, q, x) => q \in ids
             /\ q \in ids /\ ls[q].on => Owes(lt, q, x)
  BY <1>4, <1>5 DEF Owes
<1>7. ASSUME NEW u \in Deferreds \ {x}
      PROVE  Unmoved(ls, lt, u)
  BY <1>4, <1>5, <1>6, OthersUnmoved
<1>8. EntriesOK(lt, pt)
  BY <1>4, <1>5 DEF EntriesOK
<1> QED BY <1>4, <1>5, <1>6, <1>7, <1>8

\* x takes over the outcome of d.
LEMMA FollowAdds ==
    ASSUME DerivedInv, TypeInv, CallsInv, NEW x \in Deferreds \ Requests, parts[x] = {},
           \A q \in Settling : ~Owes(lists, q, x),
           \A k \in {"done", "fail"} : ~lists[<<x, k>>].fired,
           NEW d \in Deferreds, NEW cbs \in [Outcomes(d) -> Entry],
           \A id \in Outcomes(d) : /\ Derives(cbs[id]) /\ About(cbs[id]) = x
                                   /\ EntryShape(id, cbs[id], parts),
           NEW rest \in Seq(Frames), ThensOK(rest, follows), x \notin Thens(rest),
           \A u : u # x => (u \in Thens(rest) <=> u \in Thens(frames)),
           AddAll(cbs, rest), follows' = [follows EXCEPT ![x] = d],
           x \in made', made \subseteq made', UNCHANGED <<parts, remaining, threw>>
    PROVE  DerivedInv'
<1>1. PICK ids \in SUBSET Settling : ids = Outcomes(d) /\ IsFiniteSet(ids)
  BY OutcomesOK
<1>2. PICK pt : pt = parts
  OBVIOUS
<1>3. PICK fo, ft : fo = follows /\ ft = follows'
  OBVIOUS
<1>4. ft[x] = d /\ \A u \in Deferreds : u # x => ft[u] = fo[u]
  BY <1>3 DEF TypeInv, DeferredTypes
<1>5. ThensOK(rest, ft)
  <2>1. \A u \in Thens(rest) : ft[u] = fo[u]
    BY <1>4, ThensAre
  <2>2. ThensOK(rest, fo)
    BY <1>3
  <2> QED BY <2>1, <2>2, ThensFollow
<1>6. /\ \A q \in Settling :
            /\ lists'[q].on = lists[q].on /\ lists'[q].fired = lists[q].fired
            /\ Owes(lists', q, x) => q \in ids
            /\ q \in ids /\ lists[q].on => Owes(lists', q, x)
      /\ \A u \in Deferreds \ {x} : Unmoved(lists, lists', u)
      /\ EntriesOK(lists', pt) /\ ThensOK(frames', ft) /\ Thens(frames') = Thens(rest)
  BY <1>1, <1>2, <1>5, OwesSame, AddsFor
<1>7. Follow(x, d, lists', threw, FALSE)
  <2>1. ASSUME NEW k \in {"done", "fail"}
        PROVE  ~lists'[<<x, k>>].fired /\ (lists'[<<d, k>>].on => Owes(lists', <<d, k>>, x))
    <3>1. PICK xk, dk : xk = <<x, k>> /\ dk = <<d, k>>
      OBVIOUS
    <3>2. xk \in Settling /\ dk \in Settling /\ dk \in ids /\ ~lists[xk].fired
      BY <1>1, <2>1, <3>1, SettlingIds DEF Outcomes
    <3>3. ~lists'[xk].fired /\ (lists'[dk].on => Owes(lists', dk, x))
      BY <1>6, <3>2
    <3> QED BY <3>1, <3>3
  <2>2. \A q \in Settling : Owes(lists', q, x) => q[1] = d
    BY <1>1, <1>6 DEF Outcomes
  <2> QED BY <2>1, <2>2 DEF Follow
<1>8. Derived(x, lists', frames', made', parts', follows', remaining', threw')
  <2>1. (x \in Thens(frames')) = FALSE
    BY <1>6
  <2> QED BY <1>3, <1>4, <1>7, <2>1 DEF Derived
<1>9. Concerns(x)
  BY <1>3, <1>4, <1>6 DEF Concerns
<1>10. EntriesOK(lists', parts') /\ ThensOK(frames', follows')
  BY <1>2, <1>3, <1>6
<1> QED BY <1>8, <1>9, <1>10, OneKept

\* then
LEMMA ThenCallDerived ==
    ASSUME DerivedInv, TypeInv, CallsInv, NEW d \in Deferreds, NEW t \in Deferreds \ Requests,
           ThenCall(d, t)
    PROVE  DerivedInv'
<1>1. d \in made /\ t \notin made /\ d # t
  BY DEF ThenCall
<1>2. Derived(t, lists, frames, made, parts, follows, remaining, threw)
  BY DerivedOf
<1>3. /\ parts[t] = {} /\ t \notin Thens(frames)
      /\ \A q \in Settling : ~Owes(lists, q, t)
      /\ \A k \in {"done", "fail"} : ~lists[<<t, k>>].fired
  BY <1>1, <1>2 DEF Derived, Fresh
<1>4. PICK f \in Fns : f = NewFn
  BY MadeFn DEF ThenCall
<1>5. PICK a, b \in Entry : a = ThenEntry(f, t) /\ b = Forward(<<t, "fail">>)
  BY EntriesAside DEF Kinds
<1>6. PICK cbs : cbs = [id \in Outcomes(d) |-> IF id[2] = "done" THEN a ELSE b]
  OBVIOUS
<1>7. Derives(a) /\ About(a) = t /\ Derives(b) /\ About(b) = t
  BY <1>5 DEF ThenEntry, Forward, Derives, About
<1>8. cbs \in [Outcomes(d) -> Entry]
  BY <1>5, <1>6
<1>9. ASSUME NEW id \in Outcomes(d)
      PROVE  /\ Derives(cbs[id]) /\ About(cbs[id]) = t
             /\ EntryShape(id, cbs[id], parts)
  <2>1. id[1] = d /\ (id[2] = "done" \/ id[2] = "fail")
    BY DEF Outcomes
  <2>2. CASE id[2] = "done"
    BY <1>1, <1>3, <1>5, <1>6, <1>7, <2>1, <2>2 DEF EntryShape, ThenEntry
  <2>3. CASE id[2] = "fail"
    BY <1>1, <1>3, <1>5, <1>6, <1>7, <2>1, <2>3 DEF EntryShape, Forward
  <2> QED BY <2>1, <2>2, <2>3
<1>10. PICK s \in Seq(Frames) : s = frames
  BY DEF TypeInv
<1>11. AddAll(cbs, s)
  BY <1>4, <1>5, <1>6, <1>10 DEF ThenCall
<1>12. /\ follows' = [follows EXCEPT ![t] = d] /\ t \in made' /\ made \subseteq made'
       /\ UNCHANGED <<parts, remaining, threw>>
  BY DEF ThenCall
<1>13. /\ ThensOK(s, follows) /\ t \notin Thens(s)
       /\ \A u : u # t => (u \in Thens(s) <=> u \in Thens(frames))
  BY <1>3, <1>10, OwesSame
<1> QED BY <1>3, <1>8, <1>9, <1>11, <1>12, <1>13, FollowAdds

\* The function given to then returns a promise.
LEMMA ReturnsPromiseDerived ==
    ASSUME DerivedInv, TypeInv, CallsInv, OutcomeInv, NEW p \in Deferreds, ReturnsPromise(p)
    PROVE  DerivedInv'
<1>1. /\ frames # <<>> /\ Top \in CallFrames /\ Top.then \in Deferreds
      /\ Top.then # NoDeferred
  BY TopFrame DEF ReturnsPromise, On
<1>2. PICK t \in Deferreds : t = Top.then
  BY <1>1
<1>3. t \notin Requests
  BY <1>1, <1>2, GoodBelow DEF FrameGood
<1>4. PICK s \in Seq(Frames) : s = Below
  BY <1>1, TopFrame
<1>5. /\ ThensOK(s, follows) /\ t \in Thens(frames) /\ t \notin Thens(s)
      /\ \A x : x # t => (x \in Thens(s) <=> x \in Thens(frames))
  <2>1. PICK u \in Seq(Frames) : u = frames /\ u # <<>>
    BY <1>1 DEF TypeInv
  <2>2. PICK fo : fo = follows
    OBVIOUS
  <2>3. ThensOK(u, fo)
    BY <2>1, <2>2, OwesSame
  <2>4. ThenFrame(Head(u)) /\ Head(u).then = t /\ Tail(u) = s /\ Head(u) = Top
    BY <1>1, <1>2, <1>4, <2>1 DEF ThenFrame, Top, Below
  <2>5. /\ ThensOK(Tail(u), fo)
        /\ ThenFrame(Head(u)) => /\ Head(u).then \in Thens(u)
                                 /\ Head(u).then \notin Thens(Tail(u))
                                 /\ \A x \in Thens(u) : x # Head(u).then => x \in Thens(Tail(u))
                                 /\ Thens(Tail(u)) \subseteq Thens(u)
    BY <2>1, <2>3, ThensPop
  <2> QED BY <2>1, <2>2, <2>4, <2>5
<1>6. Derived(t, lists, frames, made, parts, follows, remaining, threw)
  BY DerivedOf
<1>7. /\ t \in made /\ parts[t] = {}
      /\ \A q \in Settling : ~Owes(lists, q, t)
      /\ \A k \in {"done", "fail"} : ~lists[<<t, k>>].fired
  <2>1. PICK d : d = follows[t]
    OBVIOUS
  <2>2. t \in made /\ parts[t] = {} /\ Follow(t, d, lists, threw, TRUE)
    BY <1>5, <1>6, <2>1 DEF Derived
  <2> QED BY <2>2 DEF Follow
<1>8. PICK cbs : cbs = [id \in Outcomes(p) |-> Forward(<<t, id[2]>>)]
  OBVIOUS
<1>9. ASSUME NEW id \in Outcomes(p)
      PROVE  /\ cbs[id] \in Entry /\ Derives(cbs[id]) /\ About(cbs[id]) = t
             /\ EntryShape(id, cbs[id], parts)
  <2>1. PICK k \in {"done", "fail"} : id[2] = k
    BY DEF Outcomes
  <2>2. PICK e : e = Forward(<<t, k>>)
    OBVIOUS
  <2>3. e \in Entry
    BY <1>3, <2>2, EntriesAside DEF Kinds
  <2>4. e.kind = "forward" /\ e.to[1] = t /\ e.to[2] = k
    BY <2>2 DEF Forward
  <2>5. Derives(e) /\ About(e) = t /\ EntryShape(id, e, parts)
    BY <1>7, <2>1, <2>4 DEF Derives, About, EntryShape
  <2>6. cbs[id] = e
    BY <1>8, <2>1, <2>2
  <2> QED BY <2>3, <2>5, <2>6
<1>10. cbs \in [Outcomes(p) -> Entry]
  BY <1>8, <1>9
<1>11. AddAll(cbs, s)
  BY <1>2, <1>4, <1>8 DEF ReturnsPromise
<1>12. /\ follows' = [follows EXCEPT ![t] = p]
       /\ UNCHANGED <<parts, remaining, threw, made>>
  BY <1>2 DEF ReturnsPromise, givenVars
<1>13. t \in made' /\ made \subseteq made'
  BY <1>7, <1>12
<1> QED BY <1>3, <1>5, <1>7, <1>9, <1>10, <1>11, <1>12, <1>13, FollowAdds

\* when
LEMMA WhenDerived ==
    ASSUME DerivedInv, TypeInv, CallsInv, NEW m \in Deferreds \ Requests,
           NEW ds \in SUBSET Deferreds, When(m, ds)
    PROVE  DerivedInv'
<1>1. m \notin made /\ ds \subseteq made /\ Cardinality(ds) = 2
  BY DEF When
<1>2. Derived(m, lists, frames, made, parts, follows, remaining, threw)
  BY DerivedOf
<1>3. /\ parts[m] = {} /\ follows[m] = m /\ m \notin Thens(frames)
      /\ \A q \in Settling : ~Owes(lists, q, m)
      /\ \A k \in {"done", "fail"} : ~lists[<<m, k>>].fired
  BY <1>1, <1>2 DEF Derived, Fresh
<1>4. IsFiniteSet(ds) /\ ds # {}
  BY <1>1, FS_Subset, FS_EmptySet DEF TypeInv, DeferredTypes
<1>5. PICK ids : ids = UNION {Outcomes(d) : d \in ds}
  OBVIOUS
<1>6. ids \subseteq Settling /\ IsFiniteSet(ids)
  BY <1>1, <1>5, OutcomesOK, TwoFinite
<1>7. PICK a, b \in Entry : a = Count(m) /\ b = Forward(<<m, "fail">>)
  BY EntriesAside DEF Kinds
<1>8. PICK cbs : cbs = [id \in ids |-> IF id[2] = "done" THEN a ELSE b]
  OBVIOUS
<1>9. Derives(a) /\ About(a) = m /\ Derives(b) /\ About(b) = m
  BY <1>7 DEF Count, Forward, Derives, About
<1>10. PICK pt : pt = parts'
  OBVIOUS
<1>11. pt[m] = ds /\ \A u \in Deferreds : u # m => pt[u] = parts[u]
  BY <1>10 DEF When, TypeInv, DeferredTypes
<1>12. \A id \in ids : id[1] \in ds /\ (id[2] = "done" \/ id[2] = "fail")
  BY <1>5 DEF Outcomes
<1>13. ASSUME NEW id \in ids
       PROVE  /\ Derives(cbs[id]) /\ About(cbs[id]) = m
              /\ EntryShape(id, cbs[id], pt)
  BY <1>4, <1>7, <1>8, <1>9, <1>11, <1>12 DEF EntryShape, Count, Forward
<1>14. EntriesOK(lists, pt)
  <2>1. EntriesOK(lists, parts)
    BY OwesSame
  <2>2. ASSUME NEW q \in Settling, NEW f \in Owed(lists[q])
        PROVE  EntryShape(q, f, pt)
    <3>1. EntryShape(q, f, parts) /\ About(f) # m
      BY <1>3, <2>1 DEF EntriesOK, Owes
    <3>2. PICK l \in List : l = lists[q]
      BY DEF TypeInv, ListsOK, Settling, ListIds, Kinds
    <3>3. f \in Entry
      BY <3>2, OwedEntries
    <3>4. /\ f.kind = "then" => f.to \in Deferreds /\ f.to # m
          /\ f.kind = "count" => f.of \in Deferreds /\ f.of # m
          /\ f.kind = "forward" => f.to[1] \in Deferreds /\ f.to[1] # m
      BY <3>1, <3>3 DEF Entry, SettleEntry, ListIds, About
    <3> QED BY <1>11, <3>1, <3>4 DEF EntryShape
  <2> QED BY <2>1, <2>2 DEF EntriesOK
<1>15. PICK s \in Seq(Frames) : s = frames
  BY DEF TypeInv
<1>16. AddAll(cbs, s)
  BY <1>5, <1>7, <1>8, <1>15 DEF When
<1>17. PICK fo : fo = follows
  OBVIOUS
<1>18. /\ \A q \in Settling :
             /\ lists'[q].on = lists[q].on /\ lists'[q].fired = lists[q].fired
             /\ Owes(lists', q, m) => q \in ids
             /\ q \in ids /\ lists[q].on => Owes(lists', q, m)
       /\ \A u \in Deferreds \ {m} : Unmoved(lists, lists', u)
       /\ EntriesOK(lists', pt) /\ ThensOK(frames', fo) /\ Thens(frames') = Thens(s)
  <2>1. cbs \in [ids -> Entry] /\ ThensOK(s, fo)
    BY <1>7, <1>8, <1>15, <1>17, OwesSame
  <2> QED BY <1>3, <1>6, <1>13, <1>14, <1>16, <2>1, AddsFor
<1>19. /\ UNCHANGED <<follows, threw>> /\ made' = made \cup {m}
       /\ remaining' = [remaining EXCEPT ![m] = Cardinality(ds)]
  BY DEF When
<1>20. remaining'[m] = 2 /\ \A u \in Deferreds : u # m => remaining'[u] = remaining[u]
  BY <1>1, <1>19 DEF TypeInv, DeferredTypes
<1>21. ASSUME NEW d \in ds
       PROVE  d \in Uncounted(lists', m, ds)
              /\ (lists'[<<d, "fail">>].on => Owes(lists', <<d, "fail">>, m))
  <2>1. PICK dd, df : dd = <<d, "done">> /\ df = <<d, "fail">>
    OBVIOUS
  <2>2. dd \in ids /\ df \in ids /\ dd \in Settling /\ df \in Settling
    BY <1>5, <1>6, <2>1 DEF Outcomes
  <2>3. /\ lists'[dd].on => Owes(lists', dd, m)
        /\ lists'[df].on => Owes(lists', df, m)
    BY <1>18, <2>2
  <2> QED BY <2>1, <2>3 DEF Uncounted
<1>22. Join(m, ds, lists', 2)
  <2>1. Uncounted(lists', m, ds) = ds
    BY <1>21 DEF Uncounted
  <2>2. ~lists'[<<m, "done">>].fired /\ ~lists'[<<m, "fail">>].fired
    <3>1. PICK md, mf : md = <<m, "done">> /\ mf = <<m, "fail">>
      OBVIOUS
    <3>2. md \in Settling /\ mf \in Settling /\ ~lists[md].fired /\ ~lists[mf].fired
      BY <1>3, <3>1, SettlingIds
    <3> QED BY <1>18, <3>1, <3>2
  <2>3. \A q \in Settling : Owes(lists', q, m) => q[1] \in ds
    BY <1>12, <1>18
  <2> QED BY <1>1, <1>4, <1>21, <2>1, <2>2, <2>3 DEF Join
<1>23. Derived(m, lists', frames', made', parts', follows', remaining', threw')
  <2>1. m \notin Thens(frames')
    BY <1>3, <1>15, <1>18
  <2> QED BY <1>3, <1>4, <1>10, <1>11, <1>19, <1>20, <1>22, <2>1 DEF Derived
<1>24. Concerns(m)
  BY <1>10, <1>11, <1>15, <1>18, <1>19, <1>20 DEF Concerns
<1>25. EntriesOK(lists', parts') /\ ThensOK(frames', follows')
  BY <1>10, <1>17, <1>18, <1>19
<1> QED BY <1>23, <1>24, <1>25, OneKept

-----------------------------------------------------------------------------
(* What then and when derive.                                              *)

LEMMA DerivedInvInit == Init => DerivedInv
<1> SUFFICES ASSUME Init PROVE DerivedInv
  OBVIOUS
<1>1. /\ frames = <<>> /\ lists = [id \in ListIds |-> NewList(id[2])]
      /\ parts = [d \in Deferreds |-> {}] /\ follows = [d \in Deferreds |-> d]
  BY DEF Init, DeferredInit
<1>2. ASSUME NEW id \in ListIds
      PROVE  /\ ~lists[id].fired
             /\ \A p \in DOMAIN lists[id].fns : ~Derives(lists[id].fns[p])
  <2>1. PICK l : l = NewList(id[2])
    OBVIOUS
  <2>2. l.fired = FALSE /\ (l.fns = <<>> \/ l.fns = <<SettleEntry>>) /\ lists[id] = l
    BY <1>1, <2>1 DEF NewList
  <2>3. ~Derives(SettleEntry)
    BY DEF SettleEntry, Derives
  <2> QED BY <2>2, <2>3
<1>3. Settling \subseteq ListIds
  BY DEF Settling, ListIds, Kinds
<1>4. ASSUME NEW id \in Settling
      PROVE  Coming(lists[id]) = {} /\ Owed(lists[id]) = {} /\ OwedOnce(lists[id])
  BY <1>2, <1>3 DEF Coming, Owed, OwedOnce
<1>5. EntriesOK(lists, parts)
  BY <1>2, <1>4 DEF EntriesOK
<1>6. Thens(frames) = {} /\ ThensOK(frames, follows)
  BY <1>1 DEF Thens, ThensOK
<1>7. ASSUME NEW t \in Deferreds
      PROVE  Derived(t, lists, frames, made, parts, follows, remaining, threw)
  BY <1>1, <1>2, <1>4, <1>6, SettlingIds DEF Owes, Fresh, Follow, Derived
<1> QED BY <1>5, <1>6, <1>7 DEF DerivedInv, DerivedOK

LEMMA DerivedInvStep ==
    AjaxInv /\ CallsInv /\ OutcomeInv /\ DerivedInv /\ [Next]_vars => DerivedInv'
<1> SUFFICES ASSUME AjaxInv, CallsInv, OutcomeInv, DerivedInv, [Next]_vars
             PROVE  DerivedInv'
  OBVIOUS
<1>1. TypeInv
  BY DEF AjaxInv
<1>2. ASSUME DeferredStep
      PROVE  DerivedInv'
  BY <1>1, <1>2, SettlesDerived, CallsDerived, CountsDerived, ForwardsDerived,
     PassEndsDerived, ReturnsDerived DEF DeferredStep
<1>3. ASSUME PageStep
      PROVE  DerivedInv'
  <2>1. "done" \in Kinds /\ "fail" \in Kinds /\ "complete" \in Kinds
        /\ Requests \subseteq Deferreds
    BY AjaxAssumption DEF Kinds
  <2>2. ASSUME NEW d \in Deferreds, Always(d) \/ \E k \in Kinds : Add(d, k)
        PROVE  DerivedInv'
    BY <1>1, <2>2, AddDerived
  <2>3. ASSUME NEW d \in Deferreds, NEW t \in Deferreds \ Requests, ThenCall(d, t)
        PROVE  DerivedInv'
    BY <1>1, <2>3, ThenCallDerived
  <2>4. ASSUME NEW m \in Deferreds \ Requests, NEW ds \in SUBSET Deferreds, When(m, ds)
        PROVE  DerivedInv'
    BY <1>1, <2>4, WhenDerived
  <2>5. ASSUME NEW p \in Deferreds, ReturnsPromise(p)
        PROVE  DerivedInv'
    BY <1>1, <2>5, ReturnsPromiseDerived
  <2>6. CASE Throw
    BY <1>1, <2>6, ThrowDerived
  <2> QED BY <1>3, <2>1, <2>2, <2>3, <2>4, <2>5, <2>6 DEF PageStep
<1>4. ASSUME NEW r \in Requests,
             \/ SettledHandled(r) \/ Uncounts(r) \/ StopHandled(r) \/ Prefiltered(r)
             \/ StartHandled(r) \/ ReadyToSend(r) \/ Sent(r) \/ AjaxCall(r) \/ StatusCode(r)
      PROVE  DerivedInv'
  BY <1>1, <1>4, AjaxQuietDerived
<1>5. ASSUME NEW r \in Requests,
             \/ NotSent(r) \/ SendThrows(r) \/ SendsNothing(r) \/ Abort(r) \/ Timeout(r)
             \/ \E ok \in Heard : Answered(r, ok)
      PROVE  DerivedInv'
  BY <1>5, SettledDerived
<1>6. ASSUME NEW r \in Requests, CallsStatus(r) \/ Completes(r)
      PROVE  DerivedInv'
  BY <1>1, <1>6, CallsStatusDerived, CompletesDerived
<1>7. ASSUME NEW r \in Requests, AnswerThrows(r)
      PROVE  DerivedInv'
  BY <1>1, <1>7, ThrowDerived
<1>8. CASE UNCHANGED vars
  BY <1>8 DEF vars, deferredVars, givenVars, DerivedInv
<1> QED BY <1>2, <1>3, <1>4, <1>5, <1>6, <1>7, <1>8 DEF Next, AjaxStep

\* When JavaScript is idle a list of an outcome has fired just where the deferred has
\* that outcome, and owes nothing any more.
LEMMA IdleView ==
    ASSUME TypeInv, CallsInv, Idle, ~threw, NEW d \in Deferreds, NEW k \in {"done", "fail"}
    PROVE  /\ state[d] = Outcome(k) <=> lists[<<d, k>>].fired
           /\ lists[<<d, k>>].fired =>
                 lists[<<d, k>>].on /\ \A t : ~Owes(lists, <<d, k>>, t)
<1>1. PICK o \in {"done", "fail"} : o # k
  OBVIOUS
<1>2. PICK id : id = <<d, k>>
  OBVIOUS
<1>3. id \in Settling /\ id \in Calling /\ id \in ListIds /\ id[1] = d
  BY <1>2, SettlingIds
<1>4. state[d] = "pending" => ~lists[id].fired
  BY <1>3, QuietTop, BaseHere DEF Base, NoneSettles
<1>5. /\ lists[id].fired => lists[id].on
      /\ state[d] = Outcome(k) => lists[id].fired
      /\ lists[id].fired /\ state[d] # "pending" => state[d] = Outcome(k)
  BY <1>1, <1>2, OutcomeFacts
<1>6. lists[id].fired => lists[id].fns = <<>>
  BY <1>3 DEF Idle, CallsInv, CallsOK, LoopOK, GoodList, ListInv
<1>7. lists[id].fired => \A t : ~Owes(lists, id, t)
  BY <1>6, OffOwes DEF Owes
<1> QED BY <1>2, <1>4, <1>5, <1>7

LEMMA IdleAgrees ==
    ASSUME TypeInv, CallsInv, DerivedInv
    PROVE  DerivedAgree
<1> SUFFICES ASSUME Idle, ~threw
             PROVE  /\ \A m \in made : parts[m] # {} =>
                          /\ state[m] = "resolved" <=> \A d \in parts[m] : state[d] = "resolved"
                          /\ state[m] = "rejected" <=> \E d \in parts[m] : state[d] = "rejected"
                    /\ \A t \in made : state[t] = state[follows[t]]
  BY DEF DerivedAgree
<1>1. made \subseteq Deferreds
  BY DEF TypeInv, DeferredTypes
<1>2. ASSUME NEW d \in Deferreds
      PROVE  /\ state[d] = "resolved" <=> lists[<<d, "done">>].fired
             /\ state[d] = "rejected" <=> lists[<<d, "fail">>].fired
             /\ state[d] \in {"pending", "resolved", "rejected"}
  BY IdleView DEF TypeInv, DeferredTypes, Outcome
<1>3. ASSUME NEW m \in made, parts[m] # {}
      PROVE  /\ state[m] = "resolved" <=> \A d \in parts[m] : state[d] = "resolved"
             /\ state[m] = "rejected" <=> \E d \in parts[m] : state[d] = "rejected"
             /\ follows[m] = m
  <2>1. PICK ds \in SUBSET Deferreds : ds = parts[m] /\ m \in Deferreds
    BY <1>1 DEF TypeInv, DeferredTypes
  <2>2. PICK n : n = remaining[m]
    OBVIOUS
  <2>3. Join(m, ds, lists, n) /\ follows[m] = m
    BY <1>3, <2>1, <2>2, DerivedOf DEF Derived
  <2>4. PICK uc : uc = Uncounted(lists, m, ds)
    OBVIOUS
  <2>5. /\ lists[<<m, "done">>].fired <=> n = 0
        /\ lists[<<m, "fail">>].fired => \E d \in ds : lists[<<d, "fail">>].fired
        /\ IsFiniteSet(ds) /\ n = Cardinality(uc) /\ uc \subseteq ds
    BY <2>3, <2>4 DEF Join, Uncounted
  <2>6. ASSUME NEW d \in ds
        PROVE  /\ d \notin uc <=> lists[<<d, "done">>].fired
               /\ lists[<<d, "fail">>].fired => lists[<<m, "fail">>].fired
    BY <2>3, <2>4, IdleView DEF Join, Uncounted
  <2>7. n = 0 <=> uc = {}
    BY <2>5, FS_Subset, FS_EmptySet
  <2>8. state[m] = "resolved" <=> \A d \in ds : state[d] = "resolved"
    BY <1>2, <2>1, <2>5, <2>6, <2>7
  <2>9. state[m] = "rejected" <=> \E d \in ds : state[d] = "rejected"
    BY <1>2, <2>1, <2>5, <2>6
  <2> QED BY <2>1, <2>3, <2>8, <2>9
<1>4. ASSUME NEW t \in made, parts[t] = {}
      PROVE  state[t] = state[follows[t]]
  <2>1. PICK d \in Deferreds : d = follows[t] /\ t \in Deferreds
    BY <1>1 DEF TypeInv, DeferredTypes
  <2>2. PICK runs : runs = (t \in Thens(frames))
    OBVIOUS
  <2>3. Follow(t, d, lists, threw, runs)
    BY <1>4, <2>1, <2>2, DerivedOf DEF Derived
  <2>4. ~runs
    <3>1. Thens(frames) = {}
      BY DEF Idle, Thens
    <3> QED BY <2>2, <3>1
  <2>5. ASSUME NEW k \in {"done", "fail"}
        PROVE  lists[<<t, k>>].fired <=> lists[<<d, k>>].fired
    BY <2>3, <2>4, IdleView DEF Follow
  <2>6. state[t] = state[d]
    BY <1>2, <2>1, <2>5
  <2> QED BY <2>1, <2>6
<1> QED BY <1>3, <1>4

\* The promise of then and of when ends as it should: whatever order callbacks settle,
\* add, return promises and abort in, when nothing runs and no function threw, a when has
\* been resolved just where all its parts are, and rejected where one is (updateFunc,
\* :3327-3337), and the promise of then has the outcome of the deferred it follows, the
\* one it was made from or the one its function returned (then, :3244-3264).
THEOREM DerivedFollow == Spec => []DerivedAgree
<1>1. Init => AjaxInv /\ CallsInv /\ OutcomeInv /\ DerivedInv
  BY AjaxInvInit, CallsInvInit, OutcomeInvInit, DerivedInvInit
<1>2. ASSUME AjaxInv, CallsInv, OutcomeInv, DerivedInv, [Next]_vars
      PROVE  AjaxInv' /\ CallsInv' /\ OutcomeInv' /\ DerivedInv'
  BY <1>2, AjaxInvStep, CallsInvStep, OutcomeInvStep, DerivedInvStep
<1>3. AjaxInv /\ CallsInv /\ DerivedInv => DerivedAgree
  BY IdleAgrees DEF AjaxInv
<1> QED BY <1>1, <1>2, <1>3, PTL DEF Spec
=============================================================================

------------------------ MODULE BundleSequentialProofs ------------------------
(***************************************************************************)
(* Theorems about BundleLifecycle when management calls come one at a time *)
(* (Exclusive): bundles follow the state chart, are started after and      *)
(* stopped before what they depend on, and none is left running, for any   *)
(* bundles, manifests, run levels and faults.                              *)
(***************************************************************************)
EXTENDS BundleLifecycleProofs, NaturalsInduction, WellFoundedInduction

-----------------------------------------------------------------------------
(* The inductive invariant *)

\* The frames of t that wait for a call they have made.
Lower(t) == 1 .. (Len(stack[t]) - 1)

\* One thread at most is in a call: the main thread while it resolves, starts or
\* stops the bundles, an administrator's while the system runs.
ActiveThreads ==
    \A t \in Threads: ~Idle(t) =>
        IF t = Main THEN phase \in {"resolving", "starting", "stopping"}
                    ELSE phase = "running" /\ \A u \in Threads: ~Idle(u) => u = t

\* A call that nests is of the operation of its caller.
OneOp ==
    \A t \in Threads: \A j, k \in 1 .. Len(stack[t]): stack[t][j].op = stack[t][k].op

\* The three places where the frame f calls g.
Calls(f, g) ==
    \/ f.op = "resolve" /\ f.pc = "deps"
    \/ f.op = "resolve" /\ f.pc = "extend" /\ g.b = manifest.extends[f.b]
    \/ /\ f.op = "start" /\ f.pc = "deps"
       /\ f.i - 1 \in 1 .. Len(resolvedDeps[f.b])
       /\ g.b = resolvedDeps[f.b][f.i - 1]
ChainInv == \A t \in Threads: \A k \in Lower(t): Calls(stack[t][k], stack[t][k + 1])

\* What each program point of an operation knows of its bundle.
ResolveFrame(f) ==
    /\ f.pc \in {"check", "begin", "enter", "deps", "libraries", "extend", "commit"}
    /\ f.pc # "check" => state[f.b] = "INSTALLED"
    /\ f.pc = "deps" => f.b \in resolving
    /\ f.pc = "commit" =>
         manifest.extends[f.b] \notin loaded \/ isResolved(manifest.extends[f.b])
StartFrame(f) ==
    /\ f.pc \in {"check", "begin", "enter", "deps", "invoke", "commit", "failed", "finish"}
    /\ f.pc \in {"check", "begin", "enter"} => f.i = 1
    /\ f.pc = "begin" => state[f.b] = "RESOLVED"
    /\ f.pc \in {"enter", "deps", "invoke", "commit", "failed"} =>
         state[f.b] = "STARTING" /\ f.old = "RESOLVED"
    /\ f.pc \in {"enter", "deps", "invoke", "failed"} => f.b \notin running
    /\ f.pc = "finish" => state[f.b] = "ACTIVE" /\ f.old = "ACTIVE"
StopFrame(f) ==
    /\ f.pc \in {"check", "begin", "enter", "commit", "finish"}
    /\ f.pc = "begin" => state[f.b] = "ACTIVE"
    /\ f.pc \in {"enter", "commit"} => state[f.b] = "STOPPING" /\ f.old = "ACTIVE"
    /\ f.pc = "finish" => state[f.b] = "RESOLVED" /\ f.old = "RESOLVED"
    /\ f.pc \in {"commit", "finish"} => f.b \notin running
UninstallFrame(f) ==
    /\ f.pc \in {"check", "begin", "commit"}
    /\ f.pc # "check" => state[f.b] \in {"INSTALLED", "RESOLVED"}
    /\ f.pc = "commit" => f.b \notin loaded
FrameOK(f) ==
    /\ f.op = "resolve" => ResolveFrame(f)
    /\ f.op = "start" => StartFrame(f)
    /\ f.op = "stop" => StopFrame(f)
    /\ f.op = "uninstall" => UninstallFrame(f)
FrameInv == \A t \in Threads: \A k \in 1 .. Len(stack[t]): FrameOK(stack[t][k])

\* A call g of a bundle that f, further out, is a call of too has not got past
\* its state check, or is about to find the bundle marked as being resolved.
\* (A bundle that extends itself, or what requires it, is resolved from within.)
MayRepeat(f, g) ==
    \/ g.pc = "check"
    \/ f.op = "resolve" /\ (f.pc = "deps" => g.pc \in {"begin", "enter"})
RepeatInv ==
    \A t \in Threads: \A j \in 1 .. Len(stack[t]): \A i \in 1 .. (j - 1):
        stack[t][i].b = stack[t][j].b => MayRepeat(stack[t][i], stack[t][j])

StackInv == OneOp /\ ChainInv /\ FrameInv /\ RepeatInv

\* Where an exception may come from.
FailInv ==
    \A t \in failing:
      /\ Top(t).op = "resolve" => Top(t).pc \in {"check", "enter", "deps", "libraries", "extend"}
      /\ Top(t).op = "start" => Top(t).pc \in {"check", "enter", "deps", "invoke", "failed"}
      /\ Top(t).op = "stop" => Top(t).pc \in {"check", "enter"}
      /\ Top(t).op = "uninstall" => Top(t).pc \in {"check", "begin"}

\* Some thread is at this point of a call for x.
OnTop(op, pc, x) ==
    \E t \in Threads: ~Idle(t) /\ Top(t).op = op /\ Top(t).pc = pc /\ Top(t).b = x

LoadedInv ==
    \A x \in Bundles:
      /\ x \in loaded => state[x] \notin {"NONE", "UNINSTALLED"}
      /\ x \notin loaded =>
           state[x] \in {"NONE", "UNINSTALLED"} \/ OnTop("uninstall", "commit", x)

RunInv ==
    \A x \in running:
      /\ x \in loaded /\ code[x] = "loaded"
      /\ state[x] \in {"STARTING", "ACTIVE", "STOPPING"}
      /\ state[x] = "STARTING" => OnTop("start", "commit", x)
      /\ state[x] = "STOPPING" => OnTop("stop", "enter", x)

\* startDependencies() has started the dependencies of f before the n-th.
Started(f, n) ==
    \A j \in 1 .. Len(resolvedDeps[f.b]): j < n => state[resolvedDeps[f.b][j]] = "ACTIVE"
StartedFrame(f, n) ==
    f.op = "start" =>
      /\ f.pc = "deps" => Started(f, n)
      /\ f.pc \in {"invoke", "commit"} => \A d \in Deps(f.b): state[d] = "ACTIVE"
StartedInv ==
    \A t \in Threads \ failing: \A k \in 1 .. Len(stack[t]):
        StartedFrame(stack[t][k], IF k = Len(stack[t]) THEN stack[t][k].i ELSE stack[t][k].i - 1)

\* What a bundle has been resolved against had been resolved before it: there
\* are no circles, in any set of resolved bundles one depends on none of them.
ResolvedInv == \A x \in Bundles: \A d \in Deps(x): state[d] \notin {"NONE", "INSTALLED"}
Founded ==
    \A T \in SUBSET Bundles:
      T # {} /\ (\A x \in T: isResolved(x)) => \E x \in T: Deps(x) \cap T = {}

\* x need not be stopped after y.
Ahead(x, y) == isResolved(y) => x \notin Deps(y)
OrderInv ==
    phase = "stopping" =>
      /\ \A j \in 1 .. Len(order): \A i \in 1 .. (j - 1): Ahead(order[i], order[j])
      /\ ~Idle(Main) =>
           Top(Main).op = "stop" /\ \A j \in 1 .. Len(order): Ahead(Top(Main).b, order[j])
      /\ \A x \in running:
           (\E j \in 1 .. Len(order): order[j] = x) \/ (~Idle(Main) /\ Top(Main).b = x)
HaltInv == phase = "halted" => running = {}

SeqInv ==
    /\ ActiveThreads
    /\ StackInv
    /\ FailInv
    /\ LoadedInv
    /\ RunInv
    /\ StartedInv
    /\ ResolvedInv /\ Founded
    /\ OrderInv /\ HaltInv

-----------------------------------------------------------------------------
(* What the steps of a thread do to its stack *)

Alone(t) == ~Idle(t) /\ \A u \in Threads \ {t}: Idle(u)

\* The n outermost calls of t, and those of all other threads, stay as they are.
Keeps(t, n) ==
    /\ \A u \in Threads \ {t}: stack'[u] = stack[u]
    /\ \A k \in 1 .. n: stack'[t][k] = stack[t][k]
Reframed(t) ==
    /\ Keeps(t, Len(stack[t]) - 1)
    /\ Len(stack'[t]) = Len(stack[t])
    /\ Top(t)' \in Frame /\ Top(t)'.op = Top(t).op /\ Top(t)'.b = Top(t).b
Popped(t) ==
    /\ Keeps(t, Len(stack[t]) - 1)
    /\ Len(stack'[t]) = Len(stack[t]) - 1
Pushed(t, op, x) ==
    /\ Keeps(t, Len(stack[t]))
    /\ Len(stack'[t]) = Len(stack[t]) + 1
    /\ Top(t)' = NewFrame(op, x)

LEMMA StackLength ==
    ASSUME StackOK, NEW t \in Threads
    PROVE  /\ Len(stack[t]) \in Nat
           /\ Idle(t) <=> Len(stack[t]) = 0
           /\ \A k \in 1 .. Len(stack[t]): stack[t][k] \in Frame
BY DEF StackOK, Idle

LEMMA ReframedBy ==
    ASSUME StackOK, NEW t \in Threads, ~Idle(t), NEW g \in Frame, stack' = WithTop(t, g),
           g.op = Top(t).op, g.b = Top(t).b
    PROVE  Reframed(t) /\ Top(t)' = g
<1> DEFINE s == stack[t]
           n == Len(stack[t])
           r == [s EXCEPT ![n] = g]
<1>1. s \in Seq(Frame) /\ n \in Nat \ {0}
  BY StackLength DEF StackOK
<1>2. Len(r) = n /\ r[n] = g /\ \A k \in 1 .. (n - 1): r[k] = s[k]
  BY <1>1
<1>3. stack'[t] = r /\ \A u \in Threads \ {t}: stack'[u] = stack[u]
  BY DEF WithTop, StackOK
<1> HIDE DEF r
<1>4. Top(t)' = g
  BY <1>2, <1>3 DEF Top
<1> QED
  BY <1>2, <1>3, <1>4 DEF Reframed, Keeps

LEMMA GotoReframes ==
    ASSUME StackOK, NEW t \in Threads, ~Idle(t), NEW pc \in Pcs, Goto(t, pc)
    PROVE  /\ Reframed(t)
           /\ Top(t)'.pc = pc /\ Top(t)'.i = Top(t).i /\ Top(t)'.old = Top(t).old
<1> DEFINE g == [Top(t) EXCEPT !.pc = pc]
<1>1. g \in Frame /\ g.op = Top(t).op /\ g.b = Top(t).b /\ g.pc = pc /\ g.i = Top(t).i
      /\ g.old = Top(t).old
  BY TopIsFrame DEF Frame
<1>2. stack' = WithTop(t, g)
  BY DEF Goto
<1> HIDE DEF g
<1> QED
  BY <1>1, <1>2, ReframedBy

LEMMA ReturnPops ==
    ASSUME StackOK, NEW t \in Threads, ~Idle(t), Return(t)
    PROVE  Popped(t)
<1>1. stack[t] \in Seq(Frame) /\ Len(stack[t]) \in Nat \ {0}
  BY StackLength DEF StackOK
<1>2. /\ stack'[t] = SubSeq(stack[t], 1, Len(stack[t]) - 1)
      /\ \A u \in Threads \ {t}: stack'[u] = stack[u]
  BY DEF Return, StackOK
<1> QED
  BY <1>1, <1>2 DEF Popped, Keeps

LEMMA CallPushes ==
    ASSUME StackOK, NEW t \in Threads, NEW op \in Ops, NEW x \in Bundles, Call(t, op, x)
    PROVE  Pushed(t, op, x)
<1>1. stack[t] \in Seq(Frame) /\ Len(stack[t]) \in Nat
  BY StackLength DEF StackOK
<1>2. /\ stack'[t] = Append(stack[t], NewFrame(op, x))
      /\ \A u \in Threads \ {t}: stack'[u] = stack[u]
  BY DEF Call, StackOK
<1>3. NewFrame(op, x) \in Frame
  BY NewFrameType
<1>4. Top(t)' = NewFrame(op, x)
  BY <1>1, <1>2, <1>3 DEF Top
<1> QED
  BY <1>1, <1>2, <1>3, <1>4 DEF Pushed, Keeps

-----------------------------------------------------------------------------
(* The invariants of the stack *)

LEMMA ActiveIsAlone ==
    ASSUME StackOK, ActiveThreads, NEW t \in Threads, ~Idle(t)
    PROVE  Alone(t)
BY DEF ActiveThreads, Alone, Threads

\* A frame that waits is where a call is made from, and knows what it knew there.
LEMMA Waiting ==
    ASSUME StackOK, StackInv, NEW t \in Threads, ~Idle(t), NEW k \in Lower(t)
    PROVE  /\ stack[t][k] \in Frame
           /\ stack[t][k].op = Top(t).op
           /\ \/ stack[t][k].op = "resolve" /\ stack[t][k].pc \in {"deps", "extend"}
              \/ stack[t][k].op = "start" /\ stack[t][k].pc = "deps"
           /\ FrameOK(stack[t][k])
           /\ stack[t][k].b = Top(t).b => MayRepeat(stack[t][k], Top(t))
<1>1. /\ Len(stack[t]) \in Nat \ {0}
      /\ k \in 1 .. Len(stack[t]) /\ Len(stack[t]) \in 1 .. Len(stack[t])
  BY StackLength DEF Lower
<1>2. stack[t][k] \in Frame /\ stack[t][k].op = Top(t).op /\ FrameOK(stack[t][k])
  BY <1>1, StackLength DEF StackInv, OneOp, FrameInv, Top
<1>3. Calls(stack[t][k], stack[t][k + 1])
  BY DEF StackInv, ChainInv
<1>4. stack[t][k].b = Top(t).b => MayRepeat(stack[t][k], Top(t))
  BY <1>1 DEF StackInv, RepeatInv, Top, Lower
<1> QED
  BY <1>2, <1>3, <1>4 DEF Calls

\* What a step leaves alone for the frames that wait.
LowerSame(t) ==
    /\ manifest' = manifest
    /\ \A k \in Lower(t):
          /\ state'[stack[t][k].b] = state[stack[t][k].b]
          /\ stack[t][k].b \in running' <=> stack[t][k].b \in running
          /\ stack[t][k].op = "resolve" /\ stack[t][k].pc = "deps" /\ stack[t][k].b \in resolving
               => stack[t][k].b \in resolving'
          /\ stack[t][k].op = "start" => resolvedDeps'[stack[t][k].b] = resolvedDeps[stack[t][k].b]

LEMMA LowerStays ==
    ASSUME StackOK, StackInv, NEW t \in Threads, ~Idle(t), LowerSame(t),
           NEW k \in Lower(t), stack'[t][k] = stack[t][k]
    PROVE  FrameOK(stack[t][k])'
<1>1. PICK f: f = stack[t][k]
  OBVIOUS
<1>2. /\ \/ f.op = "resolve" /\ f.pc \in {"deps", "extend"}
         \/ f.op = "start" /\ f.pc = "deps"
      /\ FrameOK(f)
  BY <1>1, Waiting
<1>3. FrameOK(f)'
  BY <1>1, <1>2 DEF FrameOK, ResolveFrame, StartFrame, LowerSame
<1> QED
  BY <1>1, <1>3

LEMMA ReframeInv ==
    ASSUME StackOK, StackOK', StackInv, NEW t \in Threads, Alone(t), Reframed(t), LowerSame(t),
           FrameOK(Top(t))',
           \A k \in Lower(t): stack[t][k].b = Top(t).b => MayRepeat(stack[t][k], Top(t)')
    PROVE  StackInv'
<1> DEFINE n == Len(stack[t])
<1>1. n \in Nat \ {0} /\ Len(stack'[t]) = n /\ ~Idle(t)
  BY StackLength DEF Alone, Reframed
<1>2. \A u \in Threads \ {t}: Len(stack'[u]) = 0
  BY DEF Alone, Idle, Reframed, Keeps
<1>3. /\ \A k \in 1 .. (n - 1): stack'[t][k] = stack[t][k]
      /\ stack'[t][n] = Top(t)' /\ stack[t][n] = Top(t)
      /\ stack'[t][n].op = stack[t][n].op /\ stack'[t][n].b = stack[t][n].b
  BY <1>1 DEF Reframed, Keeps, Top
<1>4. OneOp'
  BY <1>1, <1>2, <1>3 DEF StackInv, OneOp
<1>5. ChainInv'
  <2> SUFFICES ASSUME NEW k \in 1 .. (n - 1) PROVE Calls(stack[t][k], stack[t][k + 1])'
    BY <1>1, <1>2 DEF ChainInv, Lower
  <2>1. Calls(stack[t][k], stack[t][k + 1])
    BY DEF StackInv, ChainInv, Lower
  <2>2. stack'[t][k] = stack[t][k] /\ stack'[t][k + 1].b = stack[t][k + 1].b
    BY <1>1, <1>3
  <2> QED
    BY <2>1, <2>2 DEF Calls, LowerSame, Lower
<1>6. FrameInv'
  <2> SUFFICES ASSUME NEW k \in 1 .. n PROVE FrameOK(stack[t][k])'
    BY <1>1, <1>2 DEF FrameInv
  <2>1. CASE k = n
    BY <2>1, <1>1 DEF Top
  <2>2. CASE k # n
    BY <2>2, <1>1, <1>3, LowerStays DEF Lower
  <2> QED
    BY <2>1, <2>2
<1>7. RepeatInv'
  <2> SUFFICES ASSUME NEW j \in 1 .. n, NEW i \in 1 .. (j - 1), stack'[t][i].b = stack'[t][j].b
               PROVE  MayRepeat(stack'[t][i], stack'[t][j])
    BY <1>1, <1>2 DEF RepeatInv, MayRepeat
  <2>1. CASE j = n
    BY <2>1, <1>1, <1>3 DEF Lower
  <2>2. CASE j # n
    BY <2>2, <1>1, <1>3 DEF StackInv, RepeatInv
  <2> QED
    BY <2>1, <2>2
<1> QED
  BY <1>4, <1>5, <1>6, <1>7 DEF StackInv

LEMMA PopInv ==
    ASSUME StackOK, StackOK', StackInv, NEW t \in Threads, Alone(t), Popped(t), LowerSame(t)
    PROVE  StackInv'
<1>0. PICK n: n = Len(stack[t])
  OBVIOUS
<1>1. n \in Nat \ {0} /\ Len(stack'[t]) = n - 1 /\ ~Idle(t)
  BY <1>0, StackLength DEF Alone, Popped
<1>2. \A u \in Threads \ {t}: Len(stack'[u]) = 0
  BY DEF Alone, Idle, Popped, Keeps
<1>3. \A k \in 1 .. (n - 1): stack'[t][k] = stack[t][k]
  BY <1>0 DEF Popped, Keeps
<1>4. OneOp'
  <2> SUFFICES ASSUME NEW j \in 1 .. (n - 1), NEW k \in 1 .. (n - 1)
               PROVE  stack'[t][j].op = stack'[t][k].op
    BY <1>1, <1>2 DEF OneOp
  <2>1. j \in 1 .. n /\ k \in 1 .. n
    BY <1>1
  <2>2. stack[t][j].op = stack[t][k].op
    BY <1>0, <2>1 DEF StackInv, OneOp
  <2> QED
    BY <1>3, <2>2
<1>5. ChainInv'
  <2> SUFFICES ASSUME NEW k \in 1 .. (n - 2) PROVE Calls(stack[t][k], stack[t][k + 1])'
    BY <1>1, <1>2 DEF ChainInv, Lower
  <2>1. Calls(stack[t][k], stack[t][k + 1])
    BY <1>0, <1>1 DEF StackInv, ChainInv, Lower
  <2>2. stack'[t][k] = stack[t][k] /\ stack'[t][k + 1] = stack[t][k + 1]
    BY <1>1, <1>3
  <2> QED
    BY <1>0, <1>1, <2>1, <2>2 DEF Calls, LowerSame, Lower
<1>6. FrameInv'
  BY <1>0, <1>1, <1>2, <1>3, LowerStays DEF FrameInv, Lower
<1>7. RepeatInv'
  <2> SUFFICES ASSUME NEW j \in 1 .. (n - 1), NEW i \in 1 .. (j - 1), stack'[t][i].b = stack'[t][j].b
               PROVE  MayRepeat(stack'[t][i], stack'[t][j])
    BY <1>1, <1>2 DEF RepeatInv, MayRepeat
  <2>1. i \in 1 .. (n - 1) /\ j \in 1 .. n
    BY <1>1
  <2>2. stack[t][i].b = stack[t][j].b => MayRepeat(stack[t][i], stack[t][j])
    BY <1>0, <2>1 DEF StackInv, RepeatInv
  <2> QED
    BY <1>3, <2>1, <2>2
<1> QED
  BY <1>4, <1>5, <1>6, <1>7 DEF StackInv

\* The frame below the innermost one.
Caller(t) == stack[t][Len(stack[t]) - 1]

\* A call pushed by a frame that waits at the right place for it.  The frame may
\* have counted its dependency in the same step.
LEMMA PushInv ==
    ASSUME StackOK, StackOK', StackInv, NEW t \in Threads, Alone(t), LowerSame(t),
           Keeps(t, Len(stack[t]) - 1),
           Len(stack'[t]) = Len(stack[t]) + 1,
           Top(t)'.pc = "check" /\ Top(t)'.op = Top(t).op,
           /\ Caller(t)'.b = Top(t).b /\ Caller(t)'.op = Top(t).op
           /\ Caller(t)'.pc = Top(t).pc,
           FrameOK(Caller(t))',
           Calls(Caller(t), Top(t))',
           FrameOK(Top(t))'
    PROVE  StackInv'
<1>0. PICK n: n = Len(stack[t])
  OBVIOUS
<1>1. n \in Nat \ {0} /\ Len(stack'[t]) = n + 1 /\ ~Idle(t)
  BY <1>0, StackLength DEF Alone
<1>2. \A u \in Threads \ {t}: Len(stack'[u]) = 0
  BY DEF Alone, Idle, Keeps
<1>3. /\ \A k \in 1 .. (n - 1): stack'[t][k] = stack[t][k]
      /\ stack'[t][n + 1] = Top(t)' /\ stack[t][n] = Top(t)
      /\ stack'[t][n].op = stack[t][n].op /\ stack'[t][n].b = stack[t][n].b
      /\ stack'[t][n].pc = stack[t][n].pc
      /\ stack'[t][n + 1].pc = "check" /\ stack'[t][n + 1].op = stack[t][n].op
  BY <1>0, <1>1 DEF Keeps, Top, Caller
<1>4. OneOp'
  <2>1. \A k \in 1 .. n: stack[t][k].op = stack[t][n].op
    BY <1>0, <1>1 DEF StackInv, OneOp
  <2>2. \A k \in 1 .. (n + 1): stack'[t][k].op = stack[t][n].op
    <3> SUFFICES ASSUME NEW k \in 1 .. (n + 1) PROVE stack'[t][k].op = stack[t][n].op
      OBVIOUS
    <3>1. CASE k \in 1 .. (n - 1)
      <4>1. k \in 1 .. n
        BY <1>1, <3>1
      <4> QED
        BY <1>3, <2>1, <3>1, <4>1
    <3>2. CASE k = n \/ k = n + 1
      BY <1>3, <3>2
    <3> QED
      BY <1>1, <3>1, <3>2
  <2> QED
    BY <1>1, <1>2, <2>2 DEF OneOp
<1>5. ChainInv'
  <2> SUFFICES ASSUME NEW k \in 1 .. n PROVE Calls(stack[t][k], stack[t][k + 1])'
    BY <1>1, <1>2 DEF ChainInv, Lower
  <2>1. CASE k = n
    BY <1>1, <2>1 DEF Top, Caller
  <2>2. CASE k # n
    <3>1. k \in 1 .. (n - 1) /\ k + 1 \in 1 .. n
      BY <1>1, <2>2
    <3>2. Calls(stack[t][k], stack[t][k + 1])
      BY <1>0, <3>1 DEF StackInv, ChainInv, Lower
    <3>3. stack'[t][k] = stack[t][k] /\ stack'[t][k + 1].b = stack[t][k + 1].b
      <4>1. k + 1 \in 1 .. (n - 1) \/ k + 1 = n
        BY <1>1, <3>1
      <4> QED
        BY <1>3, <3>1, <4>1
    <3> QED
      BY <1>0, <3>1, <3>2, <3>3 DEF Calls, LowerSame, Lower
  <2> QED
    BY <2>1, <2>2
<1>6. FrameInv'
  <2> SUFFICES ASSUME NEW k \in 1 .. (n + 1) PROVE FrameOK(stack[t][k])'
    BY <1>1, <1>2 DEF FrameInv
  <2>1. CASE k = n + 1
    BY <2>1, <1>1 DEF Top
  <2>2. CASE k = n
    BY <2>2, <1>1 DEF Caller
  <2>3. CASE k \in 1 .. (n - 1)
    BY <2>3, <1>0, <1>1, <1>3, LowerStays DEF Lower
  <2> QED
    BY <1>1, <2>1, <2>2, <2>3
<1>7. RepeatInv'
  <2> SUFFICES ASSUME NEW j \in 1 .. (n + 1), NEW i \in 1 .. (j - 1), stack'[t][i].b = stack'[t][j].b
               PROVE  MayRepeat(stack'[t][i], stack'[t][j])
    BY <1>1, <1>2 DEF RepeatInv, MayRepeat
  <2>1. CASE j = n + 1
    BY <2>1, <1>1, <1>3 DEF MayRepeat
  <2>2. CASE j # n + 1
    <3>1. j \in 1 .. n /\ i \in 1 .. (n - 1)
      BY <1>1, <2>2
    <3>2. stack[t][i].b = stack[t][j].b => MayRepeat(stack[t][i], stack[t][j])
      BY <1>0, <3>1 DEF StackInv, RepeatInv
    <3>3. j \in 1 .. (n - 1) \/ j = n
      BY <1>1, <3>1
    <3> QED
      BY <1>3, <3>1, <3>2, <3>3 DEF MayRepeat
  <2> QED
    BY <2>1, <2>2
<1> QED
  BY <1>4, <1>5, <1>6, <1>7 DEF StackInv

\* Nothing but the flag of an exception changes.
LEMMA ThrowInv ==
    ASSUME StackInv, UNCHANGED <<stack, manifest, state, loaded, resolvedDeps, resolving, running>>
    PROVE  StackInv'
<1>1. OneOp' /\ ChainInv' /\ RepeatInv'
  BY DEF StackInv, OneOp, ChainInv, RepeatInv, Lower, Calls, MayRepeat
<1>2. FrameInv'
  BY DEF StackInv, FrameInv, FrameOK, ResolveFrame, StartFrame, StopFrame, UninstallFrame,
         isResolved
<1> QED
  BY <1>1, <1>2 DEF StackInv

-----------------------------------------------------------------------------
(* What leaves the other invariants alone *)

LEMMA ActiveStays ==
    ASSUME StackOK, ActiveThreads, NEW t \in Threads, ~Idle(t),
           \A u \in Threads \ {t}: stack'[u] = stack[u],
           phase' = phase \/ stack'[t] = <<>>
    PROVE  ActiveThreads'
<1>1. Alone(t)
  BY ActiveIsAlone
<1>2. \A u \in Threads \ {t}: stack'[u] = <<>>
  BY <1>1 DEF Alone, Idle
<1> QED
  BY <1>2 DEF ActiveThreads, Idle

LEMMA NoneFailing ==
    ASSUME ThrowersInCalls, failing \subseteq Threads, NEW t \in Threads, Alone(t), t \notin failing
    PROVE  failing = {}
BY DEF ThrowersInCalls, Alone

LEMMA OnTopIsTop ==
    ASSUME NEW t \in Threads, Alone(t), NEW op, NEW pc, NEW x
    PROVE  OnTop(op, pc, x) <=> Top(t).op = op /\ Top(t).pc = pc /\ Top(t).b = x
BY DEF OnTop, Alone

\* Not one of the points where a bundle is in a state it is about to leave.
Settled(t) ==
    /\ ~(Top(t).op = "start" /\ Top(t).pc = "commit")
    /\ ~(Top(t).op = "stop" /\ Top(t).pc = "enter")
    /\ ~(Top(t).op = "uninstall" /\ Top(t).pc = "commit")

LEMMA BundlesStay ==
    ASSUME LoadedInv, RunInv, NEW t \in Threads, Alone(t), Settled(t),
           UNCHANGED <<state, loaded, running>>,
           \A x \in running: code'[x] = code[x]
    PROVE  LoadedInv' /\ RunInv'
<1>1. \A x: ~OnTop("start", "commit", x) /\ ~OnTop("stop", "enter", x)
            /\ ~OnTop("uninstall", "commit", x)
  BY OnTopIsTop DEF Settled
<1> QED
  BY <1>1 DEF LoadedInv, RunInv

LEMMA ResolutionStays ==
    ASSUME TypeOK, ResolvedInv, Founded,
           \A x \in Bundles: state'[x] \in {"NONE", "INSTALLED"} => state[x] \in {"NONE", "INSTALLED"},
           \A x \in Bundles: state'[x] \in ResolvedStates =>
              state[x] \in ResolvedStates /\ resolvedDeps'[x] = resolvedDeps[x],
           \A x \in Bundles: \A d \in Deps(x)': d \in Deps(x) \/ (d \in Bundles /\ isResolved(d))
    PROVE  ResolvedInv' /\ Founded'
<1>1. \A x \in Bundles: Deps(x) \subseteq Bundles
  BY DEF Deps, TypeOK
<1>2. ResolvedInv'
  <2> SUFFICES ASSUME NEW x \in Bundles, NEW d \in Deps(x)'
               PROVE  state'[d] \notin {"NONE", "INSTALLED"}
    BY DEF ResolvedInv
  <2>1. CASE d \in Deps(x)
    BY <1>1, <2>1 DEF ResolvedInv
  <2>2. CASE d \in Bundles /\ isResolved(d)
    BY <2>2 DEF isResolved, ResolvedStates
  <2> QED
    BY <2>1, <2>2
<1>3. \A x \in Bundles: state'[x] \in ResolvedStates => Deps(x)' = Deps(x)
  BY DEF Deps
<1>4. Founded'
  BY <1>3 DEF Founded, isResolved
<1> QED
  BY <1>2, <1>4

\* stopAllBundles() makes no other calls than stop().
LEMMA OrderStays ==
    ASSUME ActiveThreads, OrderInv, HaltInv, NEW t \in Threads, ~Idle(t), Top(t).op # "stop",
           phase' \in {phase, "aborted"}
    PROVE  OrderInv' /\ HaltInv'
<1>1. phase \notin {"stopping", "halted"}
  BY DEF ActiveThreads, OrderInv, Threads
<1> QED
  BY <1>1 DEF OrderInv, HaltInv

LEMMA StartedFailing ==
    ASSUME NEW t \in Threads, Alone(t), \A u \in Threads \ {t}: stack'[u] = stack[u],
           t \in failing'
    PROVE  StartedInv'
<1>1. \A u \in Threads \ {t}: Len(stack'[u]) = 0
  BY DEF Alone, Idle
<1> QED
  BY <1>1 DEF StartedInv

LEMMA StartedOtherOp ==
    ASSUME StackOK', OneOp', NEW t \in Threads, Alone(t),
           \A u \in Threads \ {t}: stack'[u] = stack[u],
           Len(stack'[t]) > 0 => Top(t)'.op # "start"
    PROVE  StartedInv'
<1>1. \A u \in Threads \ {t}: Len(stack'[u]) = 0
  BY DEF Alone, Idle
<1>2. ASSUME NEW k \in 1 .. Len(stack'[t]) PROVE stack'[t][k].op # "start"
  <2>1. Len(stack'[t]) \in Nat
    BY DEF StackOK
  <2>2. Len(stack'[t]) > 0 /\ Len(stack'[t]) \in 1 .. Len(stack'[t])
    BY <2>1
  <2>3. stack'[t][k].op = Top(t)'.op
    BY <2>2 DEF OneOp, Top
  <2> QED
    BY <2>2, <2>3
<1> QED
  BY <1>1, <1>2 DEF StartedInv, StartedFrame

\* Frames that wait for the dependency they have started, and the innermost one.
LEMMA StartedStep ==
    ASSUME StackOK, StackOK', TypeOK, StartedInv, NEW t \in Threads, Alone(t), t \notin failing,
           UNCHANGED resolvedDeps,
           \A x \in Bundles: state[x] = "ACTIVE" => state'[x] = "ACTIVE",
           Keeps(t, Len(stack[t]) - 1),
           Len(stack'[t]) >= Len(stack[t]) - 1,
           \A k \in 1 .. Len(stack'[t]): k >= Len(stack[t]) \/ k = Len(stack'[t]) =>
              StartedFrame(stack[t][k], IF k = Len(stack[t]) THEN stack[t][k].i
                                                             ELSE stack[t][k].i - 1)'
    PROVE  StartedInv'
<1>0. PICK n: n = Len(stack[t])
  OBVIOUS
<1>1. \A u \in Threads \ {t}: Len(stack'[u]) = 0
  BY DEF Alone, Idle, Keeps
<1>2. n \in Nat \ {0} /\ Len(stack'[t]) \in Nat
  BY <1>0, StackLength DEF Alone, StackOK
<1> SUFFICES ASSUME NEW k \in 1 .. Len(stack'[t])
             PROVE StartedFrame(stack[t][k], IF k = Len(stack[t]) THEN stack[t][k].i
                                                                  ELSE stack[t][k].i - 1)'
  BY <1>1 DEF StartedInv
<1>3. CASE k >= n \/ k = Len(stack'[t])
  BY <1>0, <1>3
<1>4. CASE k \in 1 .. (n - 1) /\ k # Len(stack'[t])
  <2>1. k \in 1 .. Len(stack[t]) /\ k # Len(stack[t])
    BY <1>0, <1>2, <1>4
  <2>2. StartedFrame(stack[t][k], stack[t][k].i - 1)
    BY <2>1 DEF StartedInv
  <2>3. stack'[t][k] = stack[t][k] /\ stack[t][k] \in Frame
    BY <1>0, <1>4, <2>1, StackLength DEF Keeps
  <2>4. stack[t][k].b \in Bundles
    BY <2>3 DEF Frame
  <2>5. \A j \in 1 .. Len(resolvedDeps[stack[t][k].b]): resolvedDeps[stack[t][k].b][j] \in Bundles
    BY <2>4 DEF TypeOK
  <2>6. Deps(stack[t][k].b) \subseteq Bundles
    BY <2>4 DEF TypeOK, Deps
  <2>7. StartedFrame(stack[t][k], stack[t][k].i - 1)'
    BY <2>2, <2>3, <2>5, <2>6 DEF StartedFrame, Started, Deps
  <2> QED
    BY <1>4, <2>7
<1> QED
  BY <1>2, <1>3, <1>4

LEMMA StartedMove ==
    ASSUME StackOK, StackOK', TypeOK, StartedInv, NEW t \in Threads, Alone(t), t \notin failing,
           UNCHANGED resolvedDeps,
           \A x \in Bundles: state[x] = "ACTIVE" => state'[x] = "ACTIVE",
           Reframed(t), StartedFrame(Top(t), Top(t).i)'
    PROVE  StartedInv'
<1>1. /\ Keeps(t, Len(stack[t]) - 1) /\ Len(stack'[t]) = Len(stack[t]) /\ Len(stack[t]) \in Nat
  BY StackLength DEF Reframed
<1>2. \A k \in 1 .. Len(stack'[t]): k >= Len(stack[t]) \/ k = Len(stack'[t]) =>
         StartedFrame(stack[t][k], IF k = Len(stack[t]) THEN stack[t][k].i
                                                        ELSE stack[t][k].i - 1)'
  <2> SUFFICES ASSUME NEW k \in 1 .. Len(stack'[t]), k = Len(stack'[t])
               PROVE  StartedFrame(stack[t][k], stack[t][k].i)'
    BY <1>1
  <2> QED
    BY DEF Top
<1> QED
  BY <1>1, <1>2, StartedStep

-----------------------------------------------------------------------------
(* The steps that change no bundle's state *)

\* What a step of t starts from.
LEMMA AtWork ==
    ASSUME TypeInv, SeqInv, NEW t \in Threads, NEW op, NEW pc, At(t, op, pc)
    PROVE  /\ StackOK /\ ~Idle(t) /\ Alone(t) /\ failing = {}
           /\ Top(t) \in Frame /\ Top(t).b \in Bundles /\ Top(t).op = op /\ Top(t).pc = pc
           /\ FrameOK(Top(t))
<1>1. StackOK /\ failing \subseteq Threads /\ ThrowersInCalls
  BY DEF TypeInv, TypeOK, StackOK
<1>2. ~Idle(t) /\ Top(t) \in Frame /\ Top(t).b \in Bundles /\ Top(t).op = op /\ Top(t).pc = pc
      /\ t \notin failing
  BY <1>1, AtFrame
<1>3. Alone(t)
  BY <1>1, <1>2, ActiveIsAlone DEF SeqInv
<1>4. Len(stack[t]) \in 1 .. Len(stack[t])
  BY <1>1, <1>2, StackLength
<1>5. FrameOK(Top(t))
  BY <1>4 DEF SeqInv, StackInv, FrameInv, Top
<1> QED
  BY <1>1, <1>2, <1>3, <1>5, NoneFailing

\* The dependencies of the innermost frame's bundle, which is not resolved yet,
\* may have changed: what they have gained is resolved.
DepsGrow(t) ==
    \/ UNCHANGED resolvedDeps
    \/ /\ Top(t).op = "resolve" /\ Top(t).pc # "check"
       /\ \A x \in Bundles \ {Top(t).b}: resolvedDeps'[x] = resolvedDeps[x]
       /\ \A x \in Bundles: \A d \in Deps(x)': d \in Deps(x) \/ (d \in Bundles /\ isResolved(d))

LEMMA GrowingResolution ==
    ASSUME TypeInv, SeqInv, NEW t \in Threads, ~Idle(t), Top(t).b \in Bundles, FrameOK(Top(t)),
           DepsGrow(t), UNCHANGED state
    PROVE  ResolvedInv' /\ Founded'
<1>1. CASE UNCHANGED resolvedDeps
  BY <1>1, ResolutionStays DEF TypeInv, SeqInv, Deps
<1>2. CASE Top(t).op = "resolve" /\ ~UNCHANGED resolvedDeps
  <2>1. state[Top(t).b] = "INSTALLED"
    BY <1>2 DEF DepsGrow, FrameOK, ResolveFrame
  <2>2. \A x \in Bundles: state'[x] \in ResolvedStates => resolvedDeps'[x] = resolvedDeps[x]
    BY <1>2, <2>1 DEF DepsGrow, ResolvedStates
  <2>3. \A x \in Bundles: \A d \in Deps(x)': d \in Deps(x) \/ (d \in Bundles /\ isResolved(d))
    BY <1>2 DEF DepsGrow
  <2> QED
    BY <2>2, <2>3, ResolutionStays DEF TypeInv, SeqInv
<1> QED
  BY <1>1, <1>2 DEF DepsGrow

ThrowPoint(t) ==
    /\ Top(t).op = "resolve" => Top(t).pc \in {"check", "enter", "deps", "libraries", "extend"}
    /\ Top(t).op = "start" => Top(t).pc \in {"check", "enter", "deps", "invoke", "failed"}
    /\ Top(t).op = "stop" => Top(t).pc \in {"check", "enter"}
    /\ Top(t).op = "uninstall" => Top(t).pc \in {"check", "begin"}

\* A call that throws where it may throw.
LEMMA QuietThrow ==
    ASSUME TypeInv, SeqInv, NEW t \in Threads, Alone(t), failing = {}, Throw(t), ThrowPoint(t),
           UNCHANGED <<manifest, state, loaded, resolvedDeps, resolving, running, phase, order>>,
           \A x \in running: code'[x] = code[x]
    PROVE  SeqInv'
<1> USE DEF SeqInv, TypeInv
<1>1. UNCHANGED stack /\ failing' = {t}
  BY DEF Throw
<1>2. StackInv' /\ ActiveThreads'
  BY <1>1, ThrowInv DEF ActiveThreads, Idle
<1>3. FailInv'
  BY <1>1 DEF FailInv, ThrowPoint, Top
<1>4. LoadedInv' /\ RunInv'
  BY <1>1 DEF LoadedInv, RunInv, OnTop, Idle, Top
<1>5. StartedInv'
  BY <1>1, StartedFailing
<1>6. ResolvedInv' /\ Founded'
  BY ResolutionStays DEF Deps
<1>7. OrderInv' /\ HaltInv'
  BY <1>1 DEF OrderInv, HaltInv, Ahead, isResolved, Deps, Idle, Top
<1> QED
  BY <1>2, <1>3, <1>4, <1>5, <1>6, <1>7

\* A call that goes on to its next program point.
LEMMA QuietMove ==
    ASSUME TypeInv, TypeInv', SeqInv, NEW t \in Threads, Alone(t), failing = {}, UNCHANGED failing,
           Top(t) \in Frame, Top(t).b \in Bundles, FrameOK(Top(t)), Settled(t),
           Reframed(t), FrameOK(Top(t))', LowerSame(t), DepsGrow(t),
           \A k \in Lower(t): stack[t][k].b = Top(t).b => MayRepeat(stack[t][k], Top(t)'),
           StartedFrame(Top(t), Top(t).i)',
           UNCHANGED <<state, loaded, running, phase, order>>,
           \A x \in running: code'[x] = code[x]
    PROVE  SeqInv'
<1> USE DEF SeqInv, TypeInv
<1>0. StackOK /\ StackOK' /\ ~Idle(t)
  BY DEF TypeOK, StackOK, Alone
<1>1. StackInv'
  BY <1>0, ReframeInv
<1>2. /\ \A u \in Threads \ {t}: stack'[u] = stack[u]
      /\ Len(stack'[t]) = Len(stack[t])
      /\ Len(stack[t]) \in Nat \ {0}
      /\ Top(t)'.op = Top(t).op /\ Top(t)'.b = Top(t).b
      /\ ~Idle(t)'
  BY <1>0, StackLength DEF Reframed, Keeps, Idle
<1>3. ActiveThreads' /\ FailInv'
  BY <1>0, <1>2, ActiveStays DEF FailInv
<1>4. LoadedInv' /\ RunInv'
  BY BundlesStay
<1>5. StartedInv'
  <2>1. CASE Top(t).op # "start"
    BY <2>1, <1>0, <1>1, <1>2, StartedOtherOp DEF StackInv
  <2>2. CASE Top(t).op = "start"
    <3>1. UNCHANGED resolvedDeps
      BY <2>2 DEF DepsGrow
    <3> QED
      BY <3>1, <1>0, StartedMove
  <2> QED
    BY <2>1, <2>2
<1>6. ResolvedInv' /\ Founded'
  BY <1>0, GrowingResolution
<1>7. OrderInv' /\ HaltInv'
  <2>1. CASE Top(t).op # "stop"
    BY <2>1, <1>0, OrderStays
  <2>2. CASE Top(t).op = "stop"
    <3>1. UNCHANGED resolvedDeps
      BY <2>2 DEF DepsGrow
    <3>2. \A x, y: Ahead(x, y) => Ahead(x, y)'
      BY <3>1 DEF Ahead, isResolved, Deps
    <3>3. ~Idle(Main)' => ~Idle(Main) /\ Top(Main)'.op = Top(Main).op /\ Top(Main)'.b = Top(Main).b
      BY <1>0, <1>2 DEF Idle, Top, Threads
    <3>4. ~Idle(Main) => ~Idle(Main)' /\ Top(Main)'.b = Top(Main).b
      BY <1>0, <1>2 DEF Idle, Top, Threads
    <3> QED
      BY <3>2, <3>3, <3>4 DEF OrderInv, HaltInv
  <2> QED
    BY <2>1, <2>2
<1> QED
  BY <1>1, <1>3, <1>4, <1>5, <1>6, <1>7

\* A call that calls another.
LEMMA QuietPush ==
    ASSUME TypeInv, TypeInv', SeqInv, NEW t \in Threads, Alone(t), failing = {}, UNCHANGED failing,
           Top(t) \in Frame, Top(t).b \in Bundles, FrameOK(Top(t)),
           Top(t).op \in {"resolve", "start"}, Top(t).pc \in {"deps", "extend"},
           Keeps(t, Len(stack[t]) - 1), Len(stack'[t]) = Len(stack[t]) + 1,
           Top(t)'.pc = "check", Top(t)'.i = 1, Top(t)'.op = Top(t).op,
           Caller(t)'.b = Top(t).b, Caller(t)'.op = Top(t).op, Caller(t)'.pc = Top(t).pc,
           Caller(t)'.old = Top(t).old,
           Calls(Caller(t), Top(t))',
           StartedFrame(Caller(t), Caller(t).i - 1)',
           UNCHANGED <<manifest, state, loaded, resolvedDeps, resolving, running, code, phase, order>>
    PROVE  SeqInv'
<1> USE DEF SeqInv, TypeInv
<1>0. StackOK /\ StackOK' /\ ~Idle(t)
  BY DEF TypeOK, StackOK, Alone
<1>1. StackInv'
  <2>1. FrameOK(Caller(t))'
    BY DEF FrameOK, ResolveFrame, StartFrame
  <2>2. FrameOK(Top(t))'
    BY DEF FrameOK, ResolveFrame, StartFrame
  <2> QED
    BY <2>1, <2>2, <1>0, PushInv DEF LowerSame
<1>2. /\ \A u \in Threads \ {t}: stack'[u] = stack[u]
      /\ Len(stack[t]) \in Nat \ {0}
      /\ ~Idle(t)'
  BY <1>0, StackLength DEF Keeps, Idle
<1>3. ActiveThreads' /\ FailInv'
  BY <1>0, <1>2, ActiveStays DEF FailInv
<1>4. LoadedInv' /\ RunInv'
  BY BundlesStay DEF Settled
<1>5. StartedInv'
  <2>1. CASE Top(t).op # "start"
    BY <2>1, <1>0, <1>1, <1>2, StartedOtherOp DEF StackInv
  <2>2. CASE Top(t).op = "start"
    <3>1. \A k \in 1 .. Len(stack'[t]): k >= Len(stack[t]) \/ k = Len(stack'[t]) =>
             StartedFrame(stack[t][k], IF k = Len(stack[t]) THEN stack[t][k].i
                                                            ELSE stack[t][k].i - 1)'
      <4> SUFFICES ASSUME NEW k \in 1 .. Len(stack'[t]),
                          k = Len(stack'[t]) \/ k = Len(stack'[t]) - 1
                   PROVE  StartedFrame(stack[t][k], IF k = Len(stack[t]) THEN stack[t][k].i
                                                                ELSE stack[t][k].i - 1)'
        BY <1>2
      <4>1. CASE k = Len(stack'[t])
        BY <4>1 DEF Top, StartedFrame
      <4>2. CASE k = Len(stack'[t]) - 1
        BY <1>2, <4>2 DEF Caller
      <4> QED
        BY <4>1, <4>2
    <3> QED
      BY <3>1, <1>0, <1>2, StartedStep
  <2> QED
    BY <2>1, <2>2
<1>6. ResolvedInv' /\ Founded'
  BY <1>0, GrowingResolution DEF DepsGrow
<1>7. OrderInv' /\ HaltInv'
  BY <1>0, OrderStays
<1> QED
  BY <1>1, <1>3, <1>4, <1>5, <1>6, <1>7

-----------------------------------------------------------------------------
(* The steps of resolve() *)

LEMMA SeqCheckState ==
    ASSUME TypeInv, TypeInv', SeqInv, NEW t \in Threads, CheckState(t)
    PROVE  SeqInv'
<1>1. PICK op \in Ops: At(t, op, "check")
  BY DEF CheckState
<1>2. /\ StackOK /\ ~Idle(t) /\ Alone(t) /\ failing = {}
      /\ Top(t) \in Frame /\ Top(t).b \in Bundles /\ Top(t).op = op /\ Top(t).pc = "check"
      /\ FrameOK(Top(t))
  BY <1>1, AtWork
<1>3. UNCHANGED <<manifest, state, loaded, resolvedDeps, resolving, running, code, phase, order>>
  BY DEF CheckState, bundleVars, codeVars, mainVars
<1>4. CASE Throw(t)
  BY <1>2, <1>3, <1>4, QuietThrow DEF ThrowPoint
<1>5. CASE MayBegin(Top(t).op, Top(t).b) /\ Goto(t, "begin") /\ UNCHANGED failing
  <2>1. Reframed(t) /\ Top(t)'.pc = "begin" /\ Top(t)'.i = Top(t).i /\ Top(t)'.old = Top(t).old
    BY <1>2, <1>5, GotoReframes DEF Pcs
  <2>2. Top(t)'.op = Top(t).op /\ Top(t)'.b = Top(t).b
    BY <2>1 DEF Reframed
  <2>3. FrameOK(Top(t))'
    BY <1>2, <1>3, <1>5, <2>1, <2>2
       DEF FrameOK, ResolveFrame, StartFrame, StopFrame, UninstallFrame, MayBegin, Ops
  <2>4. \A k \in Lower(t): stack[t][k].b = Top(t).b => MayRepeat(stack[t][k], Top(t)')
    <3> SUFFICES ASSUME NEW k \in Lower(t), stack[t][k].b = Top(t).b
                 PROVE  MayRepeat(stack[t][k], Top(t)')
      OBVIOUS
    <3>1. stack[t][k].op = "start" => state[stack[t][k].b] = "STARTING"
      BY <1>2, Waiting DEF FrameOK, StartFrame, SeqInv
    <3>2. stack[t][k].op = Top(t).op /\ stack[t][k].op \in {"resolve", "start"}
      BY <1>2, Waiting DEF SeqInv
    <3> QED
      BY <1>5, <2>1, <3>1, <3>2 DEF MayRepeat, MayBegin
  <2>5. StartedFrame(Top(t), Top(t).i)'
    BY <2>1 DEF StartedFrame
  <2> QED
    BY <1>2, <1>3, <1>5, <2>1, <2>3, <2>4, <2>5, QuietMove DEF Settled, LowerSame, DepsGrow
<1> QED
  BY <1>4, <1>5 DEF CheckState

\* A call of resolve() that goes on without a change to the dependencies of any
\* bundle that waits, nor to a mark of one.
LEMMA ResolveGoto ==
    ASSUME TypeInv, TypeInv', SeqInv, NEW t \in Threads, NEW pc, At(t, "resolve", pc), pc # "check",
           UNCHANGED failing,
           Reframed(t), Top(t)'.pc \in {"enter", "deps", "libraries", "extend", "commit"},
           Top(t)'.pc = "deps" => Top(t).b \in resolving',
           Top(t)'.pc = "commit" => \/ manifest.extends[Top(t).b] \notin loaded
                                    \/ isResolved(manifest.extends[Top(t).b]),
           DepsGrow(t),
           pc = "begin" => Top(t)'.pc = "enter" /\ UNCHANGED resolving,
           pc = "enter" => Top(t).b \notin resolving,
           \A x \in resolving: x = Top(t).b \/ x \in resolving',
           UNCHANGED <<manifest, state, loaded, running, code, phase, order>>
    PROVE  SeqInv'
<1>1. /\ StackOK /\ ~Idle(t) /\ Alone(t) /\ failing = {}
      /\ Top(t) \in Frame /\ Top(t).b \in Bundles /\ Top(t).op = "resolve" /\ Top(t).pc = pc
      /\ FrameOK(Top(t))
  BY AtWork
<1>2. Top(t)'.op = "resolve" /\ Top(t)'.b = Top(t).b
  BY <1>1 DEF Reframed
<1>3. FrameOK(Top(t))'
  BY <1>1, <1>2 DEF FrameOK, ResolveFrame, isResolved
<1>4. \A k \in Lower(t):
        /\ stack[t][k].op = "resolve" /\ stack[t][k].pc \in {"deps", "extend"}
        /\ stack[t][k].pc = "deps" => stack[t][k].b \in resolving
        /\ stack[t][k].b = Top(t).b => MayRepeat(stack[t][k], Top(t))
  BY <1>1, Waiting DEF SeqInv, FrameOK, ResolveFrame
<1>5. \A k \in Lower(t): stack[t][k].pc = "deps" =>
         \/ stack[t][k].b # Top(t).b
         \/ pc = "begin"
  BY <1>1, <1>4 DEF MayRepeat
<1>6. LowerSame(t)
  BY <1>4, <1>5 DEF LowerSame
<1>7. \A k \in Lower(t): stack[t][k].b = Top(t).b => MayRepeat(stack[t][k], Top(t)')
  BY <1>4, <1>5 DEF MayRepeat
<1>8. StartedFrame(Top(t), Top(t).i)'
  BY <1>2 DEF StartedFrame
<1> QED
  BY <1>1, <1>3, <1>6, <1>7, <1>8, QuietMove DEF Settled

LEMMA ResolveCalls ==
    ASSUME TypeInv, TypeInv', SeqInv, NEW t \in Threads, Alone(t), failing = {}, UNCHANGED failing,
           Top(t) \in Frame, Top(t).b \in Bundles, FrameOK(Top(t)), Top(t).op = "resolve",
           NEW d \in Bundles, Call(t, "resolve", d),
           \/ Top(t).pc = "deps"
           \/ Top(t).pc = "extend" /\ d = manifest.extends[Top(t).b],
           UNCHANGED <<manifest, state, loaded, resolvedDeps, resolving, running, code, phase, order>>
    PROVE  SeqInv'
<1>1. StackOK /\ ~Idle(t)
  BY DEF TypeInv, TypeOK, StackOK, Alone
<1>2. Pushed(t, "resolve", d)
  BY <1>1, CallPushes DEF Ops
<1>3. /\ Top(t)'.pc = "check" /\ Top(t)'.i = 1 /\ Top(t)'.op = "resolve" /\ Top(t)'.b = d
      /\ Len(stack'[t]) = Len(stack[t]) + 1 /\ Keeps(t, Len(stack[t]))
  BY <1>2 DEF Pushed, NewFrame
<1>4. Len(stack[t]) \in Nat \ {0}
  BY <1>1, StackLength
<1>5. Caller(t)' = Top(t) /\ Keeps(t, Len(stack[t]) - 1)
  BY <1>3, <1>4 DEF Keeps, Caller, Top
<1>6. Calls(Caller(t), Top(t))' /\ StartedFrame(Caller(t), Caller(t).i - 1)'
  BY <1>3, <1>5 DEF Calls, StartedFrame
<1> QED
  BY <1>3, <1>5, <1>6, QuietPush

\* The extension the resolved bundle was made of is loaded no more or resolved, so
\* no bundle is waiting here that the bundle resolves, itself, included.
LEMMA CommitResolveDistinct ==
    ASSUME TypeInv, SeqInv, NEW t \in Threads, At(t, "resolve", "commit"), NEW k \in Lower(t)
    PROVE  stack[t][k].b # Top(t).b
<1>1. /\ StackOK /\ ~Idle(t) /\ Alone(t) /\ failing = {}
      /\ Top(t) \in Frame /\ Top(t).b \in Bundles /\ Top(t).op = "resolve" /\ Top(t).pc = "commit"
      /\ FrameOK(Top(t))
  BY AtWork
<1> SUFFICES ASSUME stack[t][k].b = Top(t).b PROVE FALSE
  OBVIOUS
<1>2. stack[t][k].op = "resolve" /\ stack[t][k].pc = "extend"
  BY <1>1, Waiting DEF SeqInv, MayRepeat
<1>3. PICK n: n = Len(stack[t])
  OBVIOUS
<1>4. n \in Nat /\ k \in 1 .. (n - 1)
  BY <1>1, <1>3, StackLength DEF Lower
<1>5. stack[t][k + 1].b = manifest.extends[Top(t).b]
  BY <1>2 DEF SeqInv, StackInv, ChainInv, Calls
<1>6. /\ stack[t][k + 1].op = "resolve" /\ stack[t][k + 1].pc # "check"
      /\ stack[t][k + 1] \in Frame /\ FrameOK(stack[t][k + 1])
  <2>1. CASE k + 1 = n
    BY <2>1, <1>1, <1>3 DEF Top
  <2>2. CASE k + 1 # n
    <3>1. k + 1 \in Lower(t)
      BY <1>3, <1>4, <2>2 DEF Lower
    <3> QED
      BY <1>1, <3>1, Waiting DEF SeqInv
  <2> QED
    BY <2>1, <2>2
<1>7. state[stack[t][k + 1].b] = "INSTALLED" /\ stack[t][k + 1].b \in Bundles
  BY <1>6 DEF FrameOK, ResolveFrame, Frame
<1>8. stack[t][k + 1].b \in loaded
  BY <1>1, <1>7, OnTopIsTop DEF SeqInv, LoadedInv
<1> QED
  BY <1>1, <1>5, <1>7, <1>8 DEF FrameOK, ResolveFrame, isResolved, ResolvedStates

-----------------------------------------------------------------------------
(* The steps that change a bundle's state *)

\* What is innermost after a return is a frame that has waited.
LEMMA PoppedTop ==
    ASSUME StackOK, StackInv, NEW t \in Threads, ~Idle(t), Popped(t), ~Idle(t)'
    PROVE  /\ Len(stack[t]) - 1 \in Lower(t) /\ Len(stack'[t]) = Len(stack[t]) - 1
           /\ Top(t)' = stack[t][Len(stack[t]) - 1]
           /\ Top(t)' \in Frame /\ Top(t)'.op = Top(t).op
           /\ \/ Top(t)'.op = "resolve" /\ Top(t)'.pc \in {"deps", "extend"}
              \/ Top(t)'.op = "start" /\ Top(t)'.pc = "deps"
<1>1. Len(stack[t]) \in Nat \ {0} /\ Len(stack'[t]) = Len(stack[t]) - 1
  BY StackLength DEF Popped
<1>2. Len(stack'[t]) # 0
  <2>1. CASE Len(stack'[t]) = 0
    BY <2>1, <1>1, StackLength DEF Popped, Keeps, Idle
  <2> QED
    BY <2>1
<1>3. Len(stack[t]) - 1 \in Lower(t)
  BY <1>1, <1>2 DEF Lower
<1>4. Top(t)' = stack[t][Len(stack[t]) - 1]
  BY <1>1, <1>3 DEF Top, Popped, Keeps, Lower
<1> QED
  BY <1>1, <1>3, <1>4, Waiting

LEMMA PopStack ==
    ASSUME TypeInv, TypeInv', SeqInv, NEW t \in Threads, Alone(t), Popped(t), LowerSame(t),
           failing' \subseteq {t}, phase' = phase \/ stack'[t] = <<>>
    PROVE  StackInv' /\ ActiveThreads' /\ FailInv'
<1> USE DEF SeqInv, TypeInv
<1>0. StackOK /\ StackOK' /\ ~Idle(t)
  BY DEF TypeOK, StackOK, Alone
<1>1. StackInv'
  BY <1>0, PopInv
<1>2. ActiveThreads'
  BY <1>0, ActiveStays DEF Popped, Keeps
<1>3. FailInv'
  <2> SUFFICES ASSUME t \in failing' PROVE FailInv'
    BY DEF FailInv
  <2>1. ~Idle(t)'
    BY DEF ThrowersInCalls
  <2> QED
    BY <1>0, <2>1, PoppedTop DEF FailInv
<1> QED
  BY <1>1, <1>2, <1>3

LEMMA StartedPop ==
    ASSUME StackOK, StackOK', OneOp', StackInv, NEW t \in Threads, Alone(t), Popped(t),
           Top(t).op # "start"
    PROVE  StartedInv'
<1>1. ~Idle(t) /\ \A u \in Threads \ {t}: stack'[u] = stack[u]
  BY DEF Alone, Popped, Keeps
<1>2. Len(stack'[t]) > 0 => ~Idle(t)'
  BY DEF Idle
<1>3. ~Idle(t)' => Top(t)'.op # "start"
  BY <1>1, PoppedTop
<1> QED
  BY <1>1, <1>2, <1>3, StartedOtherOp

LEMMA SeqCommitResolve ==
    ASSUME TypeInv, TypeInv', SeqInv, NEW t \in Threads, CommitResolve(t)
    PROVE  SeqInv'
<1> USE DEF SeqInv, TypeInv
<1>1. At(t, "resolve", "commit") /\ Return(t)
  BY DEF CommitResolve
<1>2. /\ StackOK /\ StackOK' /\ ~Idle(t) /\ Alone(t) /\ failing = {}
      /\ Top(t) \in Frame /\ Top(t).b \in Bundles /\ Top(t).op = "resolve" /\ Top(t).pc = "commit"
      /\ FrameOK(Top(t))
  BY <1>1, AtWork DEF TypeOK, StackOK
<1>3. PICK b \in Bundles: b = Top(t).b
  BY <1>2
<1>4. /\ state[b] = "INSTALLED"
      /\ state'[b] = "RESOLVED" /\ \A x \in Bundles \ {b}: state'[x] = state[x]
      /\ UNCHANGED <<manifest, loaded, resolvedDeps, resolving, running, code, failing, phase, order>>
  BY <1>2, <1>3 DEF FrameOK, ResolveFrame, CommitResolve, TypeOK, bundleVars, codeVars, mainVars
<1>5. Popped(t)
  BY <1>1, <1>2, ReturnPops
<1>6. \A k \in Lower(t): stack[t][k].b # b /\ stack[t][k].b \in Bundles
  BY <1>1, <1>2, <1>3, CommitResolveDistinct, Waiting DEF Frame
<1>7. StackInv' /\ ActiveThreads' /\ FailInv'
  BY <1>2, <1>4, <1>5, <1>6, PopStack DEF LowerSame
<1>8. \A op, pc, x: OnTop(op, pc, x) => op = "resolve"
  BY <1>2, OnTopIsTop
<1>9. LoadedInv' /\ RunInv'
  <2>1. \A x: ~OnTop("uninstall", "commit", x) /\ ~OnTop("start", "commit", x)
              /\ ~OnTop("stop", "enter", x)
    BY <1>8
  <2>2. LoadedInv'
    BY <1>4, <2>1 DEF LoadedInv
  <2>3. running \subseteq Bundles
    BY DEF TypeOK
  <2>4. RunInv'
    BY <1>4, <2>1, <2>3 DEF RunInv
  <2> QED
    BY <2>2, <2>4
<1>10. StartedInv'
  BY <1>2, <1>5, <1>7, StartedPop DEF StackInv
<1>11. \A x \in Bundles: Deps(x)' = Deps(x) /\ Deps(x) \subseteq Bundles
  BY <1>4 DEF Deps, TypeOK
<1>12. ResolvedInv'
  BY <1>4, <1>11 DEF ResolvedInv
<1>13. Founded'
  <2> SUFFICES ASSUME NEW T \in SUBSET Bundles, T # {}, \A x \in T: state'[x] \in ResolvedStates
               PROVE  \E x \in T: Deps(x) \cap T = {}
    BY <1>11 DEF Founded, isResolved
  <2>1. \A x \in Bundles: b \notin Deps(x)
    BY <1>4 DEF ResolvedInv
  <2>2. CASE T \ {b} = {}
    BY <2>1, <2>2
  <2>3. CASE T \ {b} # {}
    <3>1. \A x \in T \ {b}: isResolved(x)
      BY <1>4 DEF isResolved
    <3>2. PICK x \in T \ {b}: Deps(x) \cap (T \ {b}) = {}
      BY <2>3, <3>1 DEF Founded
    <3> QED
      BY <2>1, <3>2
  <2> QED
    BY <2>2, <2>3
<1>14. OrderInv' /\ HaltInv'
  BY <1>2, <1>4, OrderStays
<1> QED
  BY <1>7, <1>9, <1>10, <1>12, <1>13, <1>14

LEMMA SeqResolve ==
    ASSUME TypeInv, TypeInv', SeqInv, NEW t \in Threads, ResolveStep(t)
    PROVE  SeqInv'
<1> USE DEF Pcs
<1>1. CASE ClearDependencies(t)
  <2>1. At(t, "resolve", "begin") /\ Goto(t, "enter") /\ UNCHANGED <<failing, resolving>>
    BY <1>1 DEF ClearDependencies
  <2>2. StackOK /\ ~Idle(t) /\ Top(t).op = "resolve" /\ Top(t).pc = "begin" /\ Top(t).b \in Bundles
    BY <2>1, AtWork
  <2>3. Reframed(t) /\ Top(t)'.pc = "enter"
    BY <2>1, <2>2, GotoReframes
  <2>4. DepsGrow(t)
    <3>1. \A x \in Bundles \ {Top(t).b}: resolvedDeps'[x] = resolvedDeps[x]
      BY <1>1 DEF ClearDependencies, TypeInv, TypeOK
    <3>2. resolvedDeps'[Top(t).b] = <<>>
      BY <1>1, <2>2 DEF ClearDependencies, TypeInv, TypeOK
    <3> QED
      BY <2>2, <3>1, <3>2 DEF DepsGrow, Deps
  <2> QED
    BY <1>1, <2>1, <2>3, <2>4, ResolveGoto DEF ClearDependencies, codeVars, mainVars
<1>2. CASE EnterResolve(t)
  <2>1. At(t, "resolve", "enter")
    BY <1>2 DEF EnterResolve
  <2>2. /\ StackOK /\ ~Idle(t) /\ Alone(t) /\ failing = {}
        /\ Top(t).op = "resolve" /\ Top(t).pc = "enter"
    BY <2>1, AtWork
  <2>3. CASE Throw(t) /\ UNCHANGED resolving
    BY <1>2, <2>2, <2>3, QuietThrow DEF EnterResolve, ThrowPoint, codeVars, mainVars
  <2>4. CASE /\ Top(t).b \notin resolving /\ resolving' = resolving \cup {Top(t).b}
             /\ Goto(t, "deps") /\ UNCHANGED failing
    <3>1. Reframed(t) /\ Top(t)'.pc = "deps"
      BY <2>2, <2>4, GotoReframes
    <3> QED
      BY <1>2, <2>1, <2>4, <3>1, ResolveGoto DEF EnterResolve, codeVars, mainVars, DepsGrow
  <2> QED
    BY <1>2, <2>3, <2>4 DEF EnterResolve
<1>3. CASE ResolveDependency(t)
  <2> DEFINE f == Top(t)
             d == Required(t)[f.i]
  <2>1. At(t, "resolve", "deps")
    BY <1>3 DEF ResolveDependency
  <2>2. /\ StackOK /\ ~Idle(t) /\ Alone(t) /\ failing = {} /\ f \in Frame /\ f.b \in Bundles
        /\ f.op = "resolve" /\ f.pc = "deps" /\ FrameOK(f)
    BY <2>1, AtWork
  <2>3. UNCHANGED <<manifest, state, loaded, resolving, code, running, phase, order>>
    BY <1>3 DEF ResolveDependency, codeVars, mainVars
  <2>4. CASE /\ Usable(d)
             /\ resolvedDeps' = [resolvedDeps EXCEPT ![f.b] =
                                   IF \E k \in DOMAIN @: @[k] = d THEN @ ELSE Append(@, d)]
             /\ stack' = WithTop(t, [f EXCEPT !.i = @ + 1])
             /\ UNCHANGED failing
    <3>1. PICK g: g = [f EXCEPT !.i = @ + 1]
      OBVIOUS
    <3>2. g \in Frame /\ g.op = f.op /\ g.b = f.b /\ g.pc = f.pc
      BY <2>2, <3>1 DEF Frame
    <3>3. Reframed(t) /\ Top(t)'.pc = "deps"
      BY <2>2, <2>4, <3>1, <3>2, ReframedBy
    <3>4. DepsGrow(t)
      <4>1. d \in Bundles /\ isResolved(d)
        BY <2>4 DEF Usable, TypeInv, TypeOK
      <4>2. \A x \in Bundles \ {f.b}: resolvedDeps'[x] = resolvedDeps[x]
        BY <2>4 DEF TypeInv, TypeOK
      <4>3. resolvedDeps'[f.b] \in {resolvedDeps[f.b], Append(resolvedDeps[f.b], d)}
        BY <2>2, <2>4 DEF TypeInv, TypeOK
      <4>4. resolvedDeps[f.b] \in Seq(Bundles)
        BY <2>2 DEF TypeInv, TypeOK
      <4>5. \A e \in {resolvedDeps'[f.b][k]: k \in DOMAIN resolvedDeps'[f.b]}:
               e \in Deps(f.b) \/ e = d
        BY <4>1, <4>3, <4>4 DEF Deps
      <4>6. \A x \in Bundles: \A e \in Deps(x)': e \in Deps(x) \/ e = d
        BY <4>2, <4>5 DEF Deps
      <4> QED
        BY <2>2, <4>1, <4>2, <4>6 DEF DepsGrow
    <3>5. f.b \in resolving
      BY <2>2 DEF FrameOK, ResolveFrame
    <3> QED
      BY <2>1, <2>3, <2>4, <3>3, <3>4, <3>5, ResolveGoto
  <2>5. CASE d \in loaded /\ Call(t, "resolve", d) /\ UNCHANGED <<resolvedDeps, failing>>
    <3>1. d \in Bundles
      BY <2>5 DEF TypeInv, TypeOK
    <3> QED
      BY <2>2, <2>3, <2>5, <3>1, ResolveCalls DEF Calls
  <2>6. CASE Throw(t) /\ UNCHANGED resolvedDeps
    BY <2>2, <2>3, <2>6, QuietThrow DEF ThrowPoint
  <2> QED
    BY <1>3, <2>4, <2>5, <2>6 DEF ResolveDependency
<1>4. CASE EndDependencies(t)
  <2>1. At(t, "resolve", "deps") /\ Goto(t, "libraries") /\ UNCHANGED failing
    BY <1>4 DEF EndDependencies
  <2>2. StackOK /\ ~Idle(t)
    BY <2>1, AtWork
  <2>3. Reframed(t) /\ Top(t)'.pc = "libraries"
    BY <2>1, <2>2, GotoReframes
  <2> QED
    BY <1>4, <2>1, <2>3, ResolveGoto DEF EndDependencies, codeVars, mainVars, DepsGrow
<1>5. CASE InstallLibraries(t)
  <2>1. At(t, "resolve", "libraries")
    BY <1>5 DEF InstallLibraries
  <2>2. /\ StackOK /\ ~Idle(t) /\ Alone(t) /\ failing = {}
        /\ Top(t).op = "resolve" /\ Top(t).pc = "libraries"
    BY <2>1, AtWork
  <2>3. CASE Throw(t)
    BY <1>5, <2>2, <2>3, QuietThrow DEF InstallLibraries, ThrowPoint, bundleVars, mainVars
  <2>4. CASE Goto(t, "extend") /\ UNCHANGED failing
    <3>1. Reframed(t) /\ Top(t)'.pc = "extend"
      BY <2>2, <2>4, GotoReframes
    <3> QED
      BY <1>5, <2>1, <2>4, <3>1, ResolveGoto
         DEF InstallLibraries, bundleVars, mainVars, DepsGrow
  <2> QED
    BY <1>5, <2>3, <2>4 DEF InstallLibraries
<1>6. CASE ExtendBundle(t)
  <2> DEFINE x == manifest.extends[Top(t).b]
  <2>1. At(t, "resolve", "extend")
    BY <1>6 DEF ExtendBundle
  <2>2. /\ StackOK /\ ~Idle(t) /\ Alone(t) /\ failing = {} /\ Top(t) \in Frame /\ Top(t).b \in Bundles
        /\ Top(t).op = "resolve" /\ Top(t).pc = "extend" /\ FrameOK(Top(t))
    BY <2>1, AtWork
  <2>3. UNCHANGED <<manifest, state, loaded, resolvedDeps, resolving, code, running, phase, order>>
    BY <1>6 DEF ExtendBundle, codeVars, mainVars
  <2>4. CASE (x \notin loaded \/ isResolved(x)) /\ Goto(t, "commit") /\ UNCHANGED failing
    <3>1. Reframed(t) /\ Top(t)'.pc = "commit"
      BY <2>2, <2>4, GotoReframes
    <3> QED
      BY <2>1, <2>3, <2>4, <3>1, ResolveGoto DEF DepsGrow
  <2>5. CASE x \in loaded /\ Call(t, "resolve", x) /\ UNCHANGED failing
    <3>1. x \in Bundles
      BY <2>5 DEF TypeInv, TypeOK
    <3> QED
      BY <2>2, <2>3, <2>5, <3>1, ResolveCalls DEF Calls
  <2>6. CASE Throw(t)
    BY <2>2, <2>3, <2>6, QuietThrow DEF ThrowPoint
  <2> QED
    BY <1>6, <2>4, <2>5, <2>6 DEF ExtendBundle
<1>7. CASE CommitResolve(t)
  BY <1>7, SeqCommitResolve
<1> QED
  BY <1>1, <1>2, <1>3, <1>4, <1>5, <1>6, <1>7 DEF ResolveStep

-----------------------------------------------------------------------------
(* The steps of start() *)

\* A bundle is started once: it is another that the frames below wait for.
LEMMA StartDistinct ==
    ASSUME StackOK, StackInv, NEW t \in Threads, ~Idle(t), Top(t).op # "resolve", Top(t).pc # "check",
           NEW k \in Lower(t)
    PROVE  /\ stack[t][k].b # Top(t).b /\ stack[t][k].b \in Bundles
           /\ Top(t).op = "start"
BY Waiting DEF MayRepeat, Frame

\* A call of start() that goes on.
LEMMA StartGoto ==
    ASSUME TypeInv, TypeInv', SeqInv, NEW t \in Threads, NEW pc, At(t, "start", pc),
           pc \in {"enter", "deps", "invoke"},
           UNCHANGED failing,
           Reframed(t), Top(t)'.old = Top(t).old,
           Top(t)'.pc \in {"deps", "invoke", "commit"},
           StartedFrame(Top(t), Top(t).i)',
           UNCHANGED <<manifest, state, loaded, resolvedDeps, resolving, running, phase, order>>,
           \A x \in running: code'[x] = code[x]
    PROVE  SeqInv'
<1>1. /\ StackOK /\ ~Idle(t) /\ Alone(t) /\ failing = {}
      /\ Top(t) \in Frame /\ Top(t).b \in Bundles /\ Top(t).op = "start" /\ Top(t).pc = pc
      /\ FrameOK(Top(t))
  BY AtWork
<1>2. Top(t)'.op = "start" /\ Top(t)'.b = Top(t).b
  BY <1>1 DEF Reframed
<1>3. FrameOK(Top(t))'
  BY <1>1, <1>2 DEF FrameOK, StartFrame
<1>4. \A k \in Lower(t): stack[t][k].b # Top(t).b
  BY <1>1, StartDistinct DEF SeqInv
<1>5. LowerSame(t) /\ DepsGrow(t) /\ Settled(t)
  BY <1>1 DEF LowerSame, DepsGrow, Settled
<1> QED
  BY <1>1, <1>3, <1>4, <1>5, QuietMove

LEMMA SeqSetStarting ==
    ASSUME TypeInv, TypeInv', SeqInv, NEW t \in Threads, SetStarting(t)
    PROVE  SeqInv'
<1> USE DEF SeqInv, TypeInv
<1>1. At(t, "start", "begin")
  BY DEF SetStarting, SetState
<1>2. /\ StackOK /\ StackOK' /\ ~Idle(t) /\ Alone(t) /\ failing = {}
      /\ Top(t) \in Frame /\ Top(t).b \in Bundles /\ Top(t).op = "start" /\ Top(t).pc = "begin"
      /\ FrameOK(Top(t))
  BY <1>1, AtWork DEF TypeOK, StackOK
<1>3. PICK b \in Bundles: b = Top(t).b
  BY <1>2
<1>4. /\ state[b] = "RESOLVED"
      /\ state'[b] = "STARTING" /\ \A x \in Bundles \ {b}: state'[x] = state[x]
      /\ UNCHANGED <<manifest, loaded, resolvedDeps, resolving, running, code, failing, phase, order>>
  BY <1>2, <1>3
     DEF FrameOK, StartFrame, SetStarting, SetState, TypeOK, bundleVars, codeVars, mainVars
<1>5. PICK g: g = [Top(t) EXCEPT !.pc = "enter", !.old = state[Top(t).b]]
  OBVIOUS
<1>6. g \in Frame /\ g.op = "start" /\ g.b = Top(t).b /\ g.pc = "enter" /\ g.old = "RESOLVED"
      /\ g.i = 1
  BY <1>2, <1>3, <1>4, <1>5 DEF Frame, Pcs, States, FrameOK, StartFrame
<1>7. Reframed(t) /\ Top(t)' = g
  BY <1>2, <1>5, <1>6, ReframedBy DEF SetStarting, SetState
<1>8. b \notin running
  BY <1>4 DEF RunInv
<1>9. \A k \in Lower(t): stack[t][k].b # b /\ stack[t][k].b \in Bundles
  BY <1>2, <1>3, StartDistinct
<1>10. StackInv'
  <2>1. FrameOK(Top(t))'
    BY <1>3, <1>4, <1>6, <1>7, <1>8 DEF FrameOK, StartFrame
  <2> QED
    BY <1>2, <1>3, <1>4, <1>7, <1>9, <2>1, ReframeInv DEF LowerSame
<1>11. ActiveThreads' /\ FailInv'
  BY <1>2, <1>4, <1>7, ActiveStays DEF Reframed, Keeps, FailInv
<1>12. LoadedInv' /\ RunInv'
  <2>1. \A x: ~OnTop("uninstall", "commit", x) /\ ~OnTop("start", "commit", x)
              /\ ~OnTop("stop", "enter", x)
    BY <1>2, OnTopIsTop
  <2>2. LoadedInv'
    BY <1>4, <2>1 DEF LoadedInv
  <2>3. running \subseteq Bundles
    BY DEF TypeOK
  <2>4. RunInv'
    BY <1>4, <1>8, <2>1, <2>3 DEF RunInv
  <2> QED
    BY <2>2, <2>4
<1>13. StartedInv'
  <2>1. StartedFrame(Top(t), Top(t).i)'
    BY <1>6, <1>7 DEF StartedFrame
  <2> QED
    BY <1>2, <1>4, <1>7, <2>1, StartedMove
<1>14. ResolvedInv' /\ Founded'
  BY <1>4, ResolutionStays DEF Deps, ResolvedStates
<1>15. OrderInv' /\ HaltInv'
  BY <1>2, <1>4, OrderStays
<1> QED
  BY <1>10, <1>11, <1>12, <1>13, <1>14, <1>15

LEMMA SeqCommitStart ==
    ASSUME TypeInv, TypeInv', SeqInv, NEW t \in Threads, CommitStart(t)
    PROVE  SeqInv'
<1> USE DEF SeqInv, TypeInv
<1>1. At(t, "start", "commit")
  BY DEF CommitStart, CommitState
<1>2. /\ StackOK /\ StackOK' /\ ~Idle(t) /\ Alone(t) /\ failing = {}
      /\ Top(t) \in Frame /\ Top(t).b \in Bundles /\ Top(t).op = "start" /\ Top(t).pc = "commit"
      /\ FrameOK(Top(t))
  BY <1>1, AtWork DEF TypeOK, StackOK
<1>3. PICK b \in Bundles: b = Top(t).b
  BY <1>2
<1>4. /\ state[b] = "STARTING"
      /\ state'[b] = "ACTIVE" /\ \A x \in Bundles \ {b}: state'[x] = state[x]
      /\ UNCHANGED <<manifest, loaded, resolvedDeps, resolving, running, code, failing, phase, order>>
  BY <1>2, <1>3
     DEF FrameOK, StartFrame, CommitStart, CommitState, TypeOK, bundleVars, codeVars, mainVars
<1>5. PICK g: g = [Top(t) EXCEPT !.pc = "finish", !.old = "ACTIVE"]
  OBVIOUS
<1>6. g \in Frame /\ g.op = "start" /\ g.b = Top(t).b /\ g.pc = "finish" /\ g.old = "ACTIVE"
  BY <1>2, <1>5 DEF Frame, Pcs, States
<1>7. Reframed(t) /\ Top(t)' = g
  BY <1>2, <1>5, <1>6, ReframedBy DEF CommitStart, CommitState
<1>8. \A k \in Lower(t): stack[t][k].b # b /\ stack[t][k].b \in Bundles
  BY <1>2, <1>3, StartDistinct
<1>9. StackInv'
  <2>1. FrameOK(Top(t))'
    BY <1>3, <1>4, <1>6, <1>7 DEF FrameOK, StartFrame
  <2> QED
    BY <1>2, <1>3, <1>4, <1>7, <1>8, <2>1, ReframeInv DEF LowerSame
<1>10. ActiveThreads' /\ FailInv'
  BY <1>2, <1>4, <1>7, ActiveStays DEF Reframed, Keeps, FailInv
<1>11. LoadedInv' /\ RunInv'
  <2>1. \A x: /\ ~OnTop("uninstall", "commit", x) /\ ~OnTop("stop", "enter", x)
              /\ OnTop("start", "commit", x) => x = b
    BY <1>2, <1>3, OnTopIsTop
  <2>2. LoadedInv'
    BY <1>4, <2>1 DEF LoadedInv
  <2>3. running \subseteq Bundles
    BY DEF TypeOK
  <2>4. RunInv'
    BY <1>4, <2>1, <2>3 DEF RunInv
  <2> QED
    BY <2>2, <2>4
<1>12. StartedInv'
  <2>1. StartedFrame(Top(t), Top(t).i)'
    BY <1>6, <1>7 DEF StartedFrame
  <2> QED
    BY <1>2, <1>4, <1>7, <2>1, StartedMove
<1>13. ResolvedInv' /\ Founded'
  BY <1>4, ResolutionStays DEF Deps, ResolvedStates
<1>14. OrderInv' /\ HaltInv'
  BY <1>2, <1>4, OrderStays
<1> QED
  BY <1>9, <1>10, <1>11, <1>12, <1>13, <1>14

\* What a call of start() knows of the dependencies it has started.
LEMMA StartedTop ==
    ASSUME StackOK, StartedInv, NEW t \in Threads, ~Idle(t), t \notin failing
    PROVE  StartedFrame(Top(t), Top(t).i)
<1>1. Len(stack[t]) \in 1 .. Len(stack[t])
  BY StackLength
<1> QED
  BY <1>1 DEF StartedInv, Top

LEMMA SeqInvokeStart ==
    ASSUME TypeInv, TypeInv', SeqInv, NEW t \in Threads, InvokeStart(t)
    PROVE  SeqInv'
<1> USE DEF SeqInv, TypeInv
<1>1. At(t, "start", "invoke")
  BY DEF InvokeStart
<1>2. /\ StackOK /\ StackOK' /\ ~Idle(t) /\ Alone(t) /\ failing = {}
      /\ Top(t) \in Frame /\ Top(t).b \in Bundles /\ Top(t).op = "start" /\ Top(t).pc = "invoke"
      /\ FrameOK(Top(t))
  BY <1>1, AtWork DEF TypeOK, StackOK
<1>3. PICK b \in Bundles: b = Top(t).b
  BY <1>2
<1>4. /\ state[b] = "STARTING" /\ b \notin running /\ b \in loaded
      /\ UNCHANGED <<manifest, state, loaded, resolvedDeps, resolving, code, phase, order>>
  <2>1. state[b] = "STARTING" /\ b \notin running
    BY <1>2, <1>3 DEF FrameOK, StartFrame
  <2>2. b \in loaded
    BY <1>2, <2>1, OnTopIsTop DEF LoadedInv
  <2> QED
    BY <2>1, <2>2 DEF InvokeStart, bundleVars, codeVars, mainVars
<1>5. \A d \in Deps(b): state[d] = "ACTIVE"
  BY <1>2, <1>3, StartedTop DEF StartedFrame
<1>6. CASE Throw(t) /\ UNCHANGED running
  BY <1>2, <1>4, <1>6, QuietThrow DEF ThrowPoint
<1>7. ASSUME Goto(t, "commit"), UNCHANGED failing
      PROVE  /\ Reframed(t) /\ Top(t)'.pc = "commit" /\ Top(t)'.old = Top(t).old
             /\ Top(t)'.op = "start" /\ Top(t)'.b = b
             /\ StartedFrame(Top(t), Top(t).i)'
  <2>1. Reframed(t) /\ Top(t)'.pc = "commit" /\ Top(t)'.old = Top(t).old
    BY <1>2, <1>7, GotoReframes DEF Pcs
  <2>2. Top(t)'.op = "start" /\ Top(t)'.b = b
    BY <1>2, <1>3, <2>1 DEF Reframed
  <2>3. Deps(b)' = Deps(b)
    BY <1>4 DEF Deps
  <2> QED
    BY <1>4, <1>5, <2>1, <2>2, <2>3 DEF StartedFrame
<1>8. CASE Goto(t, "commit") /\ UNCHANGED <<running, failing>>
  BY <1>1, <1>4, <1>7, <1>8, StartGoto
<1>9. CASE code[b] = "loaded" /\ running' = running \cup {b} /\ Goto(t, "commit") /\ UNCHANGED failing
  <2>1. \A k \in Lower(t): stack[t][k].b # b /\ stack[t][k].b \in Bundles
    BY <1>2, <1>3, StartDistinct
  <2>2. StackInv'
    <3>1. FrameOK(Top(t))'
      BY <1>2, <1>3, <1>4, <1>7, <1>9 DEF FrameOK, StartFrame
    <3> QED
      BY <1>2, <1>3, <1>4, <1>7, <1>9, <2>1, <3>1, ReframeInv DEF LowerSame
  <2>3. ActiveThreads' /\ FailInv'
    BY <1>2, <1>4, <1>7, <1>9, ActiveStays DEF Reframed, Keeps, FailInv
  <2>4. LoadedInv' /\ RunInv'
    <3>1. \A x: /\ ~OnTop("uninstall", "commit", x) /\ ~OnTop("stop", "enter", x)
                /\ ~OnTop("start", "commit", x)
      BY <1>2, OnTopIsTop
    <3>2. LoadedInv'
      BY <1>4, <3>1 DEF LoadedInv
    <3>3. OnTop("start", "commit", b)'
      <4>1. ~Idle(t)'
        BY <1>2, <1>7, <1>9, StackLength DEF Reframed, Idle
      <4> QED
        BY <1>7, <1>9, <4>1 DEF OnTop
    <3>4. RunInv'
      BY <1>4, <1>9, <3>1, <3>3 DEF RunInv
    <3> QED
      BY <3>2, <3>4
  <2>5. StartedInv'
    BY <1>2, <1>4, <1>7, <1>9, StartedMove
  <2>6. ResolvedInv' /\ Founded'
    BY <1>4, ResolutionStays DEF Deps
  <2>7. OrderInv' /\ HaltInv'
    BY <1>2, <1>4, OrderStays
  <2> QED
    BY <2>2, <2>3, <2>4, <2>5, <2>6, <2>7
<1> QED
  BY <1>3, <1>6, <1>8, <1>9 DEF InvokeStart

LEMMA SeqStartDependency ==
    ASSUME TypeInv, TypeInv', SeqInv, NEW t \in Threads, StartDependency(t)
    PROVE  SeqInv'
<1> DEFINE f == Top(t)
           d == resolvedDeps[f.b][f.i]
           next == WithTop(t, [f EXCEPT !.i = @ + 1])
<1>1. At(t, "start", "deps")
  BY DEF StartDependency
<1>2. /\ StackOK /\ StackOK' /\ ~Idle(t) /\ Alone(t) /\ failing = {} /\ f \in Frame /\ f.b \in Bundles
      /\ f.op = "start" /\ f.pc = "deps" /\ FrameOK(f)
  BY <1>1, AtWork DEF TypeInv, TypeOK, StackOK
<1>3. UNCHANGED <<manifest, state, loaded, resolvedDeps, resolving, code, running, phase, order>>
  BY DEF StartDependency, bundleVars, codeVars, mainVars
<1>4. /\ f.i \in 1 .. Len(resolvedDeps[f.b]) /\ resolvedDeps[f.b] \in Seq(Bundles)
      /\ d \in Bundles
  <2>1. resolvedDeps[f.b] \in Seq(Bundles) /\ f.i \in Nat \ {0} /\ f.i <= Len(resolvedDeps[f.b])
    BY <1>2 DEF StartDependency, MoreDependencies, TypeInv, TypeOK, Frame
  <2> QED
    BY <2>1
<1>5. PICK g: g = [f EXCEPT !.i = @ + 1]
  OBVIOUS
<1>6. g \in Frame /\ g.op = f.op /\ g.b = f.b /\ g.pc = f.pc /\ g.old = f.old /\ g.i = f.i + 1
  BY <1>2, <1>5 DEF Frame
<1>7. Started(f, f.i)
  BY <1>2, StartedTop DEF StartedFrame, SeqInv
<1>8. CASE ~NeedsStart(d) /\ stack' = next /\ UNCHANGED failing
  <2>1. Reframed(t) /\ Top(t)' = g
    BY <1>2, <1>5, <1>6, <1>8, ReframedBy
  <2>2. Started(f, f.i + 1)
    BY <1>2, <1>4, <1>7, <1>8 DEF Started, NeedsStart, Frame
  <2>3. StartedFrame(Top(t), Top(t).i)'
    BY <1>2, <1>3, <1>6, <2>1, <2>2 DEF StartedFrame, Started
  <2> QED
    BY <1>1, <1>2, <1>3, <1>6, <1>8, <2>1, <2>3, StartGoto
<1>9. CASE stack' = [next EXCEPT ![t] = Append(@, NewFrame("start", d))] /\ UNCHANGED failing
  <2>1. PICK n \in Nat \ {0}: n = Len(stack[t])
    BY <1>2, StackLength
  <2>2. PICK s \in Seq(Frame): s = [stack[t] EXCEPT ![n] = g]
    <3>1. stack[t] \in Seq(Frame) /\ n \in 1 .. Len(stack[t])
      BY <1>2, <2>1 DEF StackOK
    <3>2. [stack[t] EXCEPT ![n] = g] \in Seq(Frame)
      BY <1>6, <3>1
    <3> QED
      BY <3>2
  <2>3. Len(s) = n /\ s[n] = g /\ \A k \in 1 .. (n - 1): s[k] = stack[t][k]
    BY <1>2, <2>1, <2>2 DEF StackOK
  <2>4. NewFrame("start", d) \in Frame
    BY <1>4, NewFrameType DEF Ops
  <2>5. next[t] = s /\ \A u \in Threads \ {t}: next[u] = stack[u]
    BY <1>2, <1>5, <2>1, <2>2 DEF WithTop, StackOK
  <2>6. next \in [Threads -> Seq(Frame)]
    BY <1>2, <1>5, <1>6, WithTopType
  <2> HIDE DEF next
  <2>7. stack'[t] = Append(s, NewFrame("start", d)) /\ \A u \in Threads \ {t}: stack'[u] = stack[u]
    BY <1>9, <2>5, <2>6
  <2>8. /\ Len(stack'[t]) = n + 1 /\ stack'[t][n + 1] = NewFrame("start", d) /\ stack'[t][n] = g
        /\ \A k \in 1 .. (n - 1): stack'[t][k] = stack[t][k]
    BY <2>3, <2>4, <2>7
  <2>9. /\ Keeps(t, Len(stack[t]) - 1) /\ Len(stack'[t]) = Len(stack[t]) + 1
        /\ Top(t)' = NewFrame("start", d) /\ Caller(t)' = g
    <3>1. Len(stack[t]) = n /\ n + 1 - 1 = n
      BY <2>1
    <3>2. Top(t)' = NewFrame("start", d) /\ Caller(t)' = g
      BY <2>8, <3>1 DEF Top, Caller
    <3> QED
      BY <2>7, <2>8, <3>1, <3>2 DEF Keeps
  <2>10. Top(t)'.pc = "check" /\ Top(t)'.i = 1 /\ Top(t)'.op = "start" /\ Top(t)'.b = d
    BY <2>9 DEF NewFrame
  <2>11. g.i - 1 = f.i
    BY <1>2, <1>6 DEF Frame
  <2>12. Calls(Caller(t), Top(t))'
    BY <1>2, <1>3, <1>4, <1>6, <2>9, <2>10, <2>11 DEF Calls
  <2>13. StartedFrame(Caller(t), Caller(t).i - 1)'
    BY <1>2, <1>3, <1>6, <1>7, <2>9, <2>11 DEF StartedFrame, Started
  <2> QED
    BY <1>2, <1>3, <1>6, <1>9, <2>9, <2>10, <2>12, <2>13, QuietPush
<1>10. CASE Throw(t)
  BY <1>2, <1>3, <1>10, QuietThrow DEF ThrowPoint
<1> QED
  BY <1>8, <1>9, <1>10 DEF StartDependency

LEMMA SeqStart ==
    ASSUME TypeInv, TypeInv', SeqInv, NEW t \in Threads, StartStep(t)
    PROVE  SeqInv'
<1>1. CASE SetStarting(t)
  BY <1>1, SeqSetStarting
<1>2. CASE EnterStart(t)
  <2>1. At(t, "start", "enter")
    BY <1>2 DEF EnterStart
  <2>2. /\ StackOK /\ ~Idle(t) /\ Alone(t) /\ failing = {} /\ Top(t) \in Frame
        /\ Top(t).op = "start" /\ Top(t).pc = "enter" /\ FrameOK(Top(t))
    BY <2>1, AtWork
  <2>3. CASE Throw(t)
    BY <1>2, <2>2, <2>3, QuietThrow DEF EnterStart, ThrowPoint, bundleVars, codeVars, mainVars
  <2>4. CASE Goto(t, "deps") /\ UNCHANGED failing
    <3>1. Reframed(t) /\ Top(t)'.pc = "deps" /\ Top(t)'.i = Top(t).i /\ Top(t)'.old = Top(t).old
      BY <2>2, <2>4, GotoReframes DEF Pcs
    <3>2. Top(t)'.i = 1
      BY <2>2, <3>1 DEF FrameOK, StartFrame
    <3>3. StartedFrame(Top(t), Top(t).i)'
      BY <3>1, <3>2 DEF StartedFrame, Started
    <3> QED
      BY <1>2, <2>1, <2>4, <3>1, <3>3, StartGoto DEF EnterStart, bundleVars, codeVars, mainVars
  <2> QED
    BY <1>2, <2>3, <2>4 DEF EnterStart
<1>3. CASE StartDependency(t)
  BY <1>3, SeqStartDependency
<1>4. CASE LoadActivator(t)
  <2>1. At(t, "start", "deps")
    BY <1>4 DEF LoadActivator
  <2>2. /\ StackOK /\ ~Idle(t) /\ Alone(t) /\ failing = {} /\ Top(t) \in Frame /\ Top(t).b \in Bundles
        /\ Top(t).op = "start" /\ Top(t).pc = "deps" /\ FrameOK(Top(t))
    BY <2>1, AtWork
  <2>3. /\ UNCHANGED <<manifest, state, loaded, resolvedDeps, resolving, running, phase, order>>
        /\ Top(t).b \notin running
        /\ \A x \in running: code'[x] = code[x]
    <3>1. Top(t).b \notin running
      BY <2>2 DEF FrameOK, StartFrame
    <3>2. UNCHANGED code \/ \E c: code' = [code EXCEPT ![Top(t).b] = c]
      BY <1>4 DEF LoadActivator
    <3>3. \A x \in Bundles \ {Top(t).b}: code'[x] = code[x]
      BY <3>2 DEF TypeInv, TypeOK
    <3> QED
      BY <1>4, <3>1, <3>3 DEF LoadActivator, bundleVars, mainVars, TypeInv, TypeOK
  <2>4. CASE Throw(t)
    BY <2>2, <2>3, <2>4, QuietThrow DEF ThrowPoint
  <2>5. ASSUME NEW pc \in {"invoke", "commit"}, Goto(t, pc), UNCHANGED failing
        PROVE  SeqInv'
    <3>1. Reframed(t) /\ Top(t)'.pc = pc /\ Top(t)'.old = Top(t).old
      BY <2>2, <2>5, GotoReframes DEF Pcs
    <3>2. Top(t)'.b = Top(t).b
      BY <3>1 DEF Reframed
    <3>3. \A d \in Deps(Top(t).b): state[d] = "ACTIVE"
      <4>1. Started(Top(t), Top(t).i) 
        BY <2>2, StartedTop DEF StartedFrame, SeqInv
      <4>2. resolvedDeps[Top(t).b] \in Seq(Bundles) /\ Top(t).i > Len(resolvedDeps[Top(t).b])
            /\ Top(t).i \in Nat
        BY <1>4, <2>2 DEF LoadActivator, MoreDependencies, TypeInv, TypeOK, Frame
      <4>3. \A j \in 1 .. Len(resolvedDeps[Top(t).b]): j < Top(t).i
        BY <4>2
      <4> QED
        BY <4>1, <4>2, <4>3 DEF Started, Deps
    <3>4. StartedFrame(Top(t), Top(t).i)'
      <4>1. Deps(Top(t).b)' = Deps(Top(t).b)
        BY <2>3, <3>2 DEF Deps
      <4> QED
        BY <2>3, <3>1, <3>2, <3>3, <4>1 DEF StartedFrame
    <3> QED
      BY <2>1, <2>3, <2>5, <3>1, <3>4, StartGoto
  <2> QED
    BY <1>4, <2>4, <2>5 DEF LoadActivator
<1>5. CASE InvokeStart(t)
  BY <1>5, SeqInvokeStart
<1>6. CASE CommitStart(t)
  BY <1>6, SeqCommitStart
<1> QED
  BY <1>1, <1>2, <1>3, <1>4, <1>5, <1>6 DEF StartStep

-----------------------------------------------------------------------------
(* The steps of stop() and of uninstall(), which call nothing, and returns *)

LEMMA Outermost ==
    ASSUME StackOK, StackInv, NEW t \in Threads, ~Idle(t), Top(t).op \in {"stop", "uninstall"}
    PROVE  Lower(t) = {} /\ Len(stack[t]) = 1
<1>1. PICK n \in Nat \ {0}: n = Len(stack[t])
  BY StackLength
<1>2. Lower(t) = {}
  BY Waiting
<1>3. n > 1 => 1 \in 1 .. (n - 1)
  OBVIOUS
<1>4. n > 1 \/ n = 1
  OBVIOUS
<1> QED
  BY <1>1, <1>2, <1>3, <1>4 DEF Lower

\* A step of stop() in stopAllBundles() or elsewhere: the order of what is still to
\* be stopped does not depend on it.
LEMMA OrderMove ==
    ASSUME TypeOK, OrderInv, HaltInv, NEW t \in Threads, ~Idle(t),
           \A u \in Threads \ {t}: stack'[u] = stack[u],
           \/ ~Idle(t)' /\ Top(t)'.op = Top(t).op /\ Top(t)'.b = Top(t).b
           \/ Idle(t)' /\ Top(t).b \notin running,
           running' \subseteq running, UNCHANGED <<resolvedDeps, phase, order>>,
           \A x \in Bundles: state'[x] \in ResolvedStates => state[x] \in ResolvedStates
    PROVE  OrderInv' /\ HaltInv'
<1>1. ASSUME NEW x, NEW j \in 1 .. Len(order), Ahead(x, order[j])
      PROVE  Ahead(x, order[j])'
  <2>1. order[j] \in Bundles
    BY DEF TypeOK
  <2> QED
    BY <1>1, <2>1 DEF Ahead, isResolved, Deps
<1>2. Main \in Threads
  BY DEF Threads
<1>3. OrderInv'
  <2> SUFFICES ASSUME phase = "stopping"
               PROVE  /\ \A j \in 1 .. Len(order): \A i \in 1 .. (j - 1): Ahead(order[i], order[j])'
                      /\ ~Idle(Main)' => /\ Top(Main)'.op = "stop"
                                        /\ \A j \in 1 .. Len(order): Ahead(Top(Main).b, order[j])'
                      /\ \A x \in running': \/ \E j \in 1 .. Len(order): order[j] = x
                                            \/ ~Idle(Main)' /\ Top(Main)'.b = x
    BY DEF OrderInv
  <2>1. \A j \in 1 .. Len(order): \A i \in 1 .. (j - 1): Ahead(order[i], order[j])'
    <3> SUFFICES ASSUME NEW j \in 1 .. Len(order), NEW i \in 1 .. (j - 1)
                 PROVE  Ahead(order[i], order[j])'
      OBVIOUS
    <3>1. PICK x: x = order[i]
      OBVIOUS
    <3>2. Ahead(x, order[j])
      BY <3>1 DEF OrderInv
    <3>3. Ahead(x, order[j])'
      BY <1>1, <3>2
    <3> QED
      BY <3>1, <3>3
  <2>2. ASSUME ~Idle(Main)'
        PROVE  /\ ~Idle(Main) /\ Top(Main)'.op = Top(Main).op /\ Top(Main)'.b = Top(Main).b
    BY <1>2, <2>2 DEF Idle, Top
  <2>3. ASSUME ~Idle(Main)', NEW j \in 1 .. Len(order)
        PROVE  Ahead(Top(Main).b, order[j])'
    <3>1. PICK x: x = Top(Main).b
      OBVIOUS
    <3>2. Ahead(x, order[j])
      BY <2>2, <2>3, <3>1 DEF OrderInv
    <3>3. Ahead(x, order[j])'
      BY <1>1, <3>2
    <3> QED
      BY <2>2, <2>3, <3>1, <3>3
  <2>4. ASSUME NEW x \in running' PROVE \/ \E j \in 1 .. Len(order): order[j] = x
                                        \/ ~Idle(Main)' /\ Top(Main)'.b = x
    <3>1. CASE ~Idle(Main) /\ Top(Main).b = x
      BY <1>2, <3>1 DEF Idle, Top
    <3> QED
      BY <3>1 DEF OrderInv
  <2> QED
    BY <2>1, <2>2, <2>3, <2>4 DEF OrderInv
<1>4. HaltInv'
  BY DEF HaltInv
<1> QED
  BY <1>3, <1>4

LEMMA SeqSetStopping ==
    ASSUME TypeInv, TypeInv', SeqInv, NEW t \in Threads, SetStopping(t)
    PROVE  SeqInv'
<1> USE DEF SeqInv, TypeInv
<1>1. At(t, "stop", "begin")
  BY DEF SetStopping, SetState
<1>2. /\ StackOK /\ StackOK' /\ ~Idle(t) /\ Alone(t) /\ failing = {}
      /\ Top(t) \in Frame /\ Top(t).b \in Bundles /\ Top(t).op = "stop" /\ Top(t).pc = "begin"
      /\ FrameOK(Top(t)) /\ Lower(t) = {}
  BY <1>1, AtWork, Outermost DEF TypeOK, StackOK
<1>3. PICK b \in Bundles: b = Top(t).b
  BY <1>2
<1>4. /\ state[b] = "ACTIVE"
      /\ state'[b] = "STOPPING" /\ \A x \in Bundles \ {b}: state'[x] = state[x]
      /\ UNCHANGED <<manifest, loaded, resolvedDeps, resolving, running, code, failing, phase, order>>
  BY <1>2, <1>3
     DEF FrameOK, StopFrame, SetStopping, SetState, TypeOK, bundleVars, codeVars, mainVars
<1>5. PICK g: g = [Top(t) EXCEPT !.pc = "enter", !.old = state[Top(t).b]]
  OBVIOUS
<1>6. g \in Frame /\ g.op = "stop" /\ g.b = Top(t).b /\ g.pc = "enter" /\ g.old = "ACTIVE"
  BY <1>2, <1>3, <1>4, <1>5 DEF Frame, Pcs, States
<1>7. Reframed(t) /\ Top(t)' = g
  BY <1>2, <1>5, <1>6, ReframedBy DEF SetStopping, SetState
<1>8. ~Idle(t)'
  BY <1>2, <1>7, StackLength DEF Reframed, Idle
<1>9. StackInv'
  <2>1. FrameOK(Top(t))'
    BY <1>3, <1>4, <1>6, <1>7 DEF FrameOK, StopFrame
  <2> QED
    BY <1>2, <1>4, <1>7, <2>1, ReframeInv DEF LowerSame
<1>10. ActiveThreads' /\ FailInv'
  BY <1>2, <1>4, <1>7, ActiveStays DEF Reframed, Keeps, FailInv
<1>11. LoadedInv' /\ RunInv'
  <2>1. \A x: ~OnTop("uninstall", "commit", x) /\ ~OnTop("start", "commit", x)
              /\ ~OnTop("stop", "enter", x)
    BY <1>2, OnTopIsTop
  <2>2. LoadedInv'
    BY <1>4, <2>1 DEF LoadedInv
  <2>3. OnTop("stop", "enter", b)'
    BY <1>3, <1>6, <1>7, <1>8 DEF OnTop
  <2>4. running \subseteq Bundles
    BY DEF TypeOK
  <2>5. RunInv'
    BY <1>4, <2>1, <2>3, <2>4 DEF RunInv
  <2> QED
    BY <2>2, <2>5
<1>12. StartedInv'
  BY <1>2, <1>6, <1>7, <1>9, StartedOtherOp DEF Reframed, Keeps, StackInv
<1>13. ResolvedInv' /\ Founded'
  BY <1>4, ResolutionStays DEF Deps, ResolvedStates
<1>14. OrderInv' /\ HaltInv'
  BY <1>2, <1>4, <1>6, <1>7, <1>8, OrderMove DEF Reframed, Keeps, ResolvedStates
<1> QED
  BY <1>9, <1>10, <1>11, <1>12, <1>13, <1>14

LEMMA SeqStopActivator ==
    ASSUME TypeInv, TypeInv', SeqInv, NEW t \in Threads, StopActivator(t)
    PROVE  SeqInv'
<1> USE DEF SeqInv, TypeInv
<1>1. At(t, "stop", "enter")
  BY DEF StopActivator
<1>2. /\ StackOK /\ StackOK' /\ ~Idle(t) /\ Alone(t) /\ failing = {}
      /\ Top(t) \in Frame /\ Top(t).b \in Bundles /\ Top(t).op = "stop" /\ Top(t).pc = "enter"
      /\ FrameOK(Top(t)) /\ Lower(t) = {}
  BY <1>1, AtWork, Outermost DEF TypeOK, StackOK
<1>3. PICK b \in Bundles: b = Top(t).b
  BY <1>2
<1>4. UNCHANGED <<manifest, state, loaded, resolvedDeps, resolving, code, phase, order>>
  BY DEF StopActivator, bundleVars, codeVars, mainVars
<1>5. CASE Throw(t) /\ UNCHANGED running
  BY <1>2, <1>4, <1>5, QuietThrow DEF ThrowPoint
<1>6. CASE running' = running \ {b} /\ Goto(t, "commit") /\ UNCHANGED failing
  <2>1. Reframed(t) /\ Top(t)'.pc = "commit" /\ Top(t)'.old = Top(t).old
    BY <1>2, <1>6, GotoReframes DEF Pcs
  <2>2. Top(t)'.op = "stop" /\ Top(t)'.b = b
    BY <1>2, <1>3, <2>1 DEF Reframed
  <2>3. ~Idle(t)'
    BY <1>2, <2>1, StackLength DEF Reframed, Idle
  <2>4. StackInv'
    <3>1. FrameOK(Top(t))'
      BY <1>2, <1>3, <1>4, <1>6, <2>1, <2>2 DEF FrameOK, StopFrame
    <3> QED
      BY <1>2, <1>4, <2>1, <3>1, ReframeInv DEF LowerSame
  <2>5. ActiveThreads' /\ FailInv'
    BY <1>2, <1>4, <1>6, <2>1, ActiveStays DEF Reframed, Keeps, FailInv
  <2>6. LoadedInv' /\ RunInv'
    <3>1. \A x: /\ ~OnTop("uninstall", "commit", x) /\ ~OnTop("start", "commit", x)
                /\ OnTop("stop", "enter", x) => x = b
      BY <1>2, <1>3, OnTopIsTop
    <3>2. LoadedInv'
      BY <1>4, <3>1 DEF LoadedInv
    <3>3. RunInv'
      BY <1>4, <1>6, <3>1 DEF RunInv
    <3> QED
      BY <3>2, <3>3
  <2>7. StartedInv'
    BY <1>2, <2>1, <2>2, <2>4, StartedOtherOp DEF Reframed, Keeps, StackInv
  <2>8. ResolvedInv' /\ Founded'
    BY <1>4, ResolutionStays DEF Deps
  <2>9. OrderInv' /\ HaltInv'
    BY <1>2, <1>3, <1>4, <1>6, <2>1, <2>2, <2>3, OrderMove DEF Reframed, Keeps
  <2> QED
    BY <2>4, <2>5, <2>6, <2>7, <2>8, <2>9
<1> QED
  BY <1>3, <1>5, <1>6 DEF StopActivator

LEMMA SeqCommitStop ==
    ASSUME TypeInv, TypeInv', SeqInv, NEW t \in Threads, CommitStop(t)
    PROVE  SeqInv'
<1> USE DEF SeqInv, TypeInv
<1>1. At(t, "stop", "commit")
  BY DEF CommitStop, CommitState
<1>2. /\ StackOK /\ StackOK' /\ ~Idle(t) /\ Alone(t) /\ failing = {}
      /\ Top(t) \in Frame /\ Top(t).b \in Bundles /\ Top(t).op = "stop" /\ Top(t).pc = "commit"
      /\ FrameOK(Top(t)) /\ Lower(t) = {}
  BY <1>1, AtWork, Outermost DEF TypeOK, StackOK
<1>3. PICK b \in Bundles: b = Top(t).b
  BY <1>2
<1>4. /\ state[b] = "STOPPING" /\ b \notin running
      /\ state'[b] = "RESOLVED" /\ \A x \in Bundles \ {b}: state'[x] = state[x]
      /\ UNCHANGED <<manifest, loaded, resolvedDeps, resolving, running, code, failing, phase, order>>
  BY <1>2, <1>3
     DEF FrameOK, StopFrame, CommitStop, CommitState, TypeOK, bundleVars, codeVars, mainVars
<1>5. PICK g: g = [Top(t) EXCEPT !.pc = "finish", !.old = "RESOLVED"]
  OBVIOUS
<1>6. g \in Frame /\ g.op = "stop" /\ g.b = Top(t).b /\ g.pc = "finish" /\ g.old = "RESOLVED"
  BY <1>2, <1>5 DEF Frame, Pcs, States
<1>7. Reframed(t) /\ Top(t)' = g
  BY <1>2, <1>5, <1>6, ReframedBy DEF CommitStop, CommitState
<1>8. ~Idle(t)'
  BY <1>2, <1>7, StackLength DEF Reframed, Idle
<1>9. StackInv'
  <2>1. FrameOK(Top(t))'
    BY <1>3, <1>4, <1>6, <1>7 DEF FrameOK, StopFrame
  <2> QED
    BY <1>2, <1>4, <1>7, <2>1, ReframeInv DEF LowerSame
<1>10. ActiveThreads' /\ FailInv'
  BY <1>2, <1>4, <1>7, ActiveStays DEF Reframed, Keeps, FailInv
<1>11. LoadedInv' /\ RunInv'
  <2>1. \A x: ~OnTop("uninstall", "commit", x) /\ ~OnTop("start", "commit", x)
              /\ ~OnTop("stop", "enter", x)
    BY <1>2, OnTopIsTop
  <2>2. LoadedInv'
    BY <1>4, <2>1 DEF LoadedInv
  <2>3. running \subseteq Bundles
    BY DEF TypeOK
  <2>4. RunInv'
    BY <1>4, <2>1, <2>3 DEF RunInv
  <2> QED
    BY <2>2, <2>4
<1>12. StartedInv'
  BY <1>2, <1>6, <1>7, <1>9, StartedOtherOp DEF Reframed, Keeps, StackInv
<1>13. ResolvedInv' /\ Founded'
  BY <1>4, ResolutionStays DEF Deps, ResolvedStates
<1>14. OrderInv' /\ HaltInv'
  BY <1>2, <1>4, <1>6, <1>7, <1>8, OrderMove DEF Reframed, Keeps, ResolvedStates
<1> QED
  BY <1>9, <1>10, <1>11, <1>12, <1>13, <1>14

LEMMA SeqStop ==
    ASSUME TypeInv, TypeInv', SeqInv, NEW t \in Threads, StopStep(t)
    PROVE  SeqInv'
BY SeqSetStopping, SeqStopActivator, SeqCommitStop DEF StopStep

\* A call of start() returns to one that has been waiting for it.
LEMMA FinishStarted ==
    ASSUME TypeInv, TypeInv', SeqInv, NEW t \in Threads, At(t, "start", "finish"), Popped(t),
           UNCHANGED <<resolvedDeps, state, failing>>
    PROVE  StartedInv'
<1> USE DEF SeqInv, TypeInv
<1>1. /\ StackOK /\ StackOK' /\ ~Idle(t) /\ Alone(t) /\ failing = {}
      /\ Top(t).op = "start" /\ Top(t).pc = "finish" /\ FrameOK(Top(t)) /\ Top(t).b \in Bundles
  BY AtWork DEF TypeOK, StackOK
<1>2. PICK n \in Nat \ {0}: n = Len(stack[t])
  BY <1>1, StackLength
<1>3. Keeps(t, n - 1) /\ Len(stack'[t]) = n - 1
  BY <1>2 DEF Popped
<1>4. ASSUME n - 1 \in Lower(t)
      PROVE  StartedFrame(stack[t][Len(stack[t])], stack[t][Len(stack[t])].i)'
  <2>1. n - 1 \in 1 .. (n - 1) /\ n - 1 \in 1 .. n
    BY <1>2, <1>4 DEF Lower
  <2>2. PICK f: f = stack[t][n - 1]
    OBVIOUS
  <2>3. /\ f \in Frame /\ f.op = "start" /\ f.pc = "deps"
        /\ Calls(f, Top(t))
    <3>1. n - 1 + 1 = n
      BY <1>2
    <3> QED
      BY <1>1, <1>2, <1>4, <2>2, <3>1, Waiting DEF StackInv, ChainInv, Top
  <2>4. Started(f, f.i - 1)
    BY <1>1, <1>2, <2>1, <2>2, <2>3 DEF StartedInv, StartedFrame
  <2>5. resolvedDeps[f.b][f.i - 1] = Top(t).b /\ state[Top(t).b] = "ACTIVE"
    BY <1>1, <2>3 DEF Calls, FrameOK, StartFrame
  <2>6. Started(f, f.i)
    BY <2>3, <2>4, <2>5 DEF Started, Frame
  <2>7. stack'[t][Len(stack'[t])] = f
    BY <1>3, <2>1, <2>2 DEF Keeps
  <2> QED
    BY <2>3, <2>6, <2>7 DEF StartedFrame, Started
<1>5. \A k \in 1 .. Len(stack'[t]): k >= Len(stack[t]) \/ k = Len(stack'[t]) =>
         StartedFrame(stack[t][k], IF k = Len(stack[t]) THEN stack[t][k].i
                                                        ELSE stack[t][k].i - 1)'
  <2> SUFFICES ASSUME NEW k \in 1 .. Len(stack'[t])
               PROVE  k = Len(stack'[t]) => StartedFrame(stack[t][k], stack[t][k].i)'
    BY <1>2, <1>3
  <2>1. n - 1 \in Lower(t)
    BY <1>2, <1>3 DEF Lower
  <2> QED
    BY <1>4, <2>1
<1> QED
  BY <1>1, <1>2, <1>3, <1>5, StartedStep

LEMMA SeqFinish ==
    ASSUME TypeInv, TypeInv', SeqInv, NEW t \in Threads, FinishState(t)
    PROVE  SeqInv'
<1> USE DEF SeqInv, TypeInv
<1>1. PICK op \in {"start", "stop"}: At(t, op, "finish")
  BY DEF FinishState
<1>2. /\ StackOK /\ StackOK' /\ ~Idle(t) /\ Alone(t) /\ failing = {}
      /\ Top(t) \in Frame /\ Top(t).b \in Bundles /\ Top(t).op = op /\ Top(t).pc = "finish"
      /\ FrameOK(Top(t))
  BY <1>1, AtWork DEF TypeOK, StackOK
<1>3. UNCHANGED <<manifest, state, loaded, resolvedDeps, resolving, running, code, failing, phase, order>>
  <2>1. state[Top(t).b] = Top(t).old
    BY <1>2 DEF FrameOK, StartFrame, StopFrame
  <2>2. state' = state
    BY <1>2, <2>1 DEF FinishState, TypeOK
  <2> QED
    BY <2>2 DEF FinishState, bundleVars, codeVars, mainVars
<1>4. Popped(t)
  BY <1>2, ReturnPops DEF FinishState
<1>5. StackInv' /\ ActiveThreads' /\ FailInv'
  BY <1>2, <1>3, <1>4, PopStack DEF LowerSame
<1>6. LoadedInv' /\ RunInv'
  BY <1>2, <1>3, BundlesStay DEF Settled
<1>7. StartedInv'
  BY <1>1, <1>2, <1>3, <1>4, <1>5, FinishStarted, StartedPop DEF StackInv
<1>8. ResolvedInv' /\ Founded'
  BY <1>3, ResolutionStays DEF Deps
<1>9. OrderInv' /\ HaltInv'
  <2>1. CASE op = "start"
    BY <1>2, <1>3, <2>1, OrderStays
  <2>2. CASE op = "stop"
    <3>1. Idle(t)'
      <4>1. Len(stack'[t]) = 0
        BY <1>2, <1>4, <2>2, Outermost DEF Popped
      <4> QED
        BY <1>2, <4>1 DEF Idle, StackOK
    <3>2. Top(t).b \notin running
      BY <1>2, <2>2 DEF FrameOK, StopFrame
    <3> QED
      BY <1>2, <1>3, <1>4, <3>1, <3>2, OrderMove DEF Popped, Keeps
  <2> QED
    BY <2>1, <2>2
<1> QED
  BY <1>5, <1>6, <1>7, <1>8, <1>9

LEMMA SeqUninstall ==
    ASSUME TypeInv, TypeInv', SeqInv, NEW t \in Threads, UninstallStep(t)
    PROVE  SeqInv'
<1> USE DEF SeqInv, TypeInv
<1>1. PICK pc \in {"begin", "commit"}: At(t, "uninstall", pc)
  BY DEF UninstallStep, UninstallBundle, CommitUninstall
<1>2. /\ StackOK /\ StackOK' /\ ~Idle(t) /\ Alone(t) /\ failing = {}
      /\ Top(t) \in Frame /\ Top(t).b \in Bundles /\ Top(t).op = "uninstall" /\ Top(t).pc = pc
      /\ FrameOK(Top(t)) /\ Lower(t) = {} /\ Len(stack[t]) = 1
  BY <1>1, AtWork, Outermost DEF TypeOK, StackOK
<1>3. PICK b \in Bundles: b = Top(t).b
  BY <1>2
<1>4. state[b] \in {"INSTALLED", "RESOLVED"} /\ (pc = "commit" => b \notin loaded)
  BY <1>2, <1>3 DEF FrameOK, UninstallFrame
<1>5. b \notin running
  BY <1>4 DEF RunInv
<1>6. CASE UninstallBundle(t)
  <2>1. pc = "begin"
    BY <1>2, <1>6 DEF UninstallBundle, At
  <2>2. UNCHANGED <<manifest, state, resolvedDeps, resolving, running, phase, order>>
    BY <1>6 DEF UninstallBundle, mainVars
  <2>3. \A x \in running: code'[x] = code[x]
    <3>1. UNCHANGED code \/ code' = [code EXCEPT ![b] = "none"]
      BY <1>3, <1>6 DEF UninstallBundle
    <3>2. \A x \in Bundles \ {b}: code'[x] = code[x]
      BY <3>1 DEF TypeOK
    <3> QED
      BY <1>5, <3>2 DEF TypeOK
  <2>4. CASE Throw(t) /\ UNCHANGED loaded
    BY <1>2, <2>1, <2>2, <2>3, <2>4, QuietThrow DEF ThrowPoint
  <2>5. CASE b \in loaded /\ loaded' = loaded \ {b} /\ Goto(t, "commit") /\ UNCHANGED failing
    <3>1. Reframed(t) /\ Top(t)'.pc = "commit"
      BY <1>2, <2>5, GotoReframes DEF Pcs
    <3>2. Top(t)'.op = "uninstall" /\ Top(t)'.b = b
      BY <1>2, <1>3, <3>1 DEF Reframed
    <3>3. ~Idle(t)'
      BY <1>2, <3>1, StackLength DEF Reframed, Idle
    <3>4. StackInv'
      <4>1. FrameOK(Top(t))'
        BY <1>3, <1>4, <2>2, <2>5, <3>1, <3>2 DEF FrameOK, UninstallFrame
      <4> QED
        BY <1>2, <2>2, <3>1, <4>1, ReframeInv DEF LowerSame
    <3>5. ActiveThreads' /\ FailInv'
      BY <1>2, <2>2, <2>5, <3>1, ActiveStays DEF Reframed, Keeps, FailInv
    <3>6. LoadedInv' /\ RunInv'
      <4>1. \A x: ~OnTop("uninstall", "commit", x) /\ ~OnTop("start", "commit", x)
                  /\ ~OnTop("stop", "enter", x)
        BY <1>2, <2>1, OnTopIsTop
      <4>2. OnTop("uninstall", "commit", b)'
        BY <3>1, <3>2, <3>3 DEF OnTop
      <4>3. LoadedInv'
        BY <2>2, <2>5, <4>1, <4>2 DEF LoadedInv
      <4>4. RunInv'
        BY <1>5, <2>2, <2>3, <2>5, <4>1 DEF RunInv
      <4> QED
        BY <4>3, <4>4
    <3>7. StartedInv'
      BY <1>2, <3>1, <3>2, <3>4, StartedOtherOp DEF Reframed, Keeps, StackInv
    <3>8. ResolvedInv' /\ Founded'
      BY <2>2, ResolutionStays DEF Deps
    <3>9. OrderInv' /\ HaltInv'
      BY <1>2, <2>2, OrderStays
    <3> QED
      BY <3>4, <3>5, <3>6, <3>7, <3>8, <3>9
  <2> QED
    BY <1>3, <1>6, <2>4, <2>5 DEF UninstallBundle
<1>7. CASE CommitUninstall(t)
  <2>1. pc = "commit" /\ Popped(t)
    BY <1>2, <1>7, ReturnPops DEF CommitUninstall, At
  <2>2. /\ state'[b] = "UNINSTALLED" /\ \A x \in Bundles \ {b}: state'[x] = state[x]
        /\ UNCHANGED <<manifest, loaded, resolvedDeps, resolving, running, code, failing, phase, order>>
    BY <1>3, <1>7 DEF CommitUninstall, TypeOK, bundleVars, codeVars, mainVars
  <2>3. StackInv' /\ ActiveThreads' /\ FailInv'
    BY <1>2, <2>1, <2>2, PopStack DEF LowerSame
  <2>4. LoadedInv' /\ RunInv'
    <3>1. \A x: /\ ~OnTop("start", "commit", x) /\ ~OnTop("stop", "enter", x)
                /\ OnTop("uninstall", "commit", x) => x = b
      BY <1>2, <1>3, OnTopIsTop
    <3>2. LoadedInv'
      BY <1>4, <2>1, <2>2, <3>1 DEF LoadedInv
    <3>3. running \subseteq Bundles
      BY DEF TypeOK
    <3>4. RunInv'
      BY <1>5, <2>2, <3>1, <3>3 DEF RunInv
    <3> QED
      BY <3>2, <3>4
  <2>5. StartedInv'
    BY <1>2, <2>1, <2>3, StartedPop DEF StackInv
  <2>6. ResolvedInv' /\ Founded'
    BY <1>4, <2>2, ResolutionStays DEF Deps, ResolvedStates
  <2>7. OrderInv' /\ HaltInv'
    BY <1>2, <2>2, OrderStays
  <2> QED
    BY <2>3, <2>4, <2>5, <2>6, <2>7
<1> QED
  BY <1>6, <1>7 DEF UninstallStep

-----------------------------------------------------------------------------
(* Exceptions *)

LEMMA SeqUnwind ==
    ASSUME TypeInv, TypeInv', SeqInv, NEW t \in Threads, Unwind(t)
    PROVE  SeqInv'
<1> USE DEF SeqInv, TypeInv
<1>1. /\ t \in failing /\ ~Idle(t) /\ StackOK /\ StackOK'
      /\ Top(t) \in Frame /\ Top(t).b \in Bundles
  BY TopIsFrame DEF Unwind, ThrowersInCalls, TypeOK, StackOK, Frame
<1>2. Alone(t) /\ failing = {t}
  <2>1. Alone(t)
    BY <1>1, ActiveIsAlone
  <2> QED
    BY <1>1, <2>1 DEF Alone, ThrowersInCalls, TypeOK
<1>3. FrameOK(Top(t)) /\ ThrowPoint(t)
  <2>1. Len(stack[t]) \in 1 .. Len(stack[t])
    BY <1>1, StackLength
  <2> QED
    BY <1>1, <2>1 DEF StackInv, FrameInv, Top, FailInv, ThrowPoint
<1>4. PICK b \in Bundles: b = Top(t).b
  BY <1>1
<1>5. UNCHANGED <<manifest, loaded, code, running, order>>
  BY DEF Unwind, codeVars
<1>6. CASE /\ Top(t).op = "start" /\ Top(t).pc \in {"enter", "deps", "invoke"}
           /\ Goto(t, "failed") /\ UNCHANGED <<state, resolvedDeps, resolving, failing, phase>>
  <2>1. Reframed(t) /\ Top(t)'.pc = "failed" /\ Top(t)'.old = Top(t).old
    BY <1>1, <1>6, GotoReframes DEF Pcs
  <2>2. Top(t)'.op = "start" /\ Top(t)'.b = b
    BY <1>4, <1>6, <2>1 DEF Reframed
  <2>3. StackInv'
    <3>1. FrameOK(Top(t))'
      BY <1>3, <1>4, <1>5, <1>6, <2>1, <2>2 DEF FrameOK, StartFrame
    <3>2. \A k \in Lower(t): stack[t][k].b # Top(t).b
      BY <1>1, <1>6, StartDistinct
    <3> QED
      BY <1>2, <1>1, <1>5, <1>6, <2>1, <3>1, <3>2, ReframeInv DEF LowerSame
  <2>4. ActiveThreads' /\ FailInv'
    BY <1>1, <1>2, <1>6, <2>1, <2>2, ActiveStays DEF Reframed, Keeps, FailInv
  <2>5. LoadedInv' /\ RunInv'
    BY <1>2, <1>5, <1>6, BundlesStay DEF Settled
  <2>6. StartedInv'
    BY <1>2, <1>6, <2>1, StartedFailing DEF Reframed, Keeps
  <2>7. ResolvedInv' /\ Founded'
    BY <1>6, ResolutionStays DEF Deps
  <2>8. OrderInv' /\ HaltInv'
    BY <1>1, <1>6, OrderStays
  <2> QED
    BY <2>3, <2>4, <2>5, <2>6, <2>7, <2>8
<1>7. CASE /\ ~(Top(t).op = "start" /\ Top(t).pc \in {"enter", "deps", "invoke"})
           /\ Return(t)
           /\ state' = IF Restores(Top(t)) THEN [state EXCEPT ![b] = Top(t).old] ELSE state
           /\ IF Top(t).op = "resolve" /\ Top(t).pc = "deps"
                THEN Abandon(b) ELSE UNCHANGED <<resolving, resolvedDeps>>
           /\ failing' = IF Len(stack[t]) = 1 THEN failing \ {t} ELSE failing
           /\ phase' = IF Len(stack[t]) = 1 /\ t = Main /\ phase = "stopping"
                         THEN "aborted" ELSE phase
  <2>1. Popped(t)
    BY <1>1, <1>7, ReturnPops
  <2>2. Len(stack[t]) = 1 => stack'[t] = <<>>
    BY <1>1, <2>1 DEF Popped, StackOK
  <2>3. phase' \in {phase, "aborted"} /\ failing' \subseteq {t}
        /\ (phase' = phase \/ stack'[t] = <<>>)
        /\ (t \in failing' \/ stack'[t] = <<>>)
    BY <1>2, <1>7, <2>2
  <2>4. \/ UNCHANGED state
        \/ /\ Top(t).op = "start" /\ Top(t).pc = "failed" /\ state[b] = "STARTING" /\ state'[b] = "RESOLVED"
           /\ b \notin running
           /\ \A x \in Bundles \ {b}: state'[x] = state[x]
        \/ /\ Top(t).op = "stop" /\ Top(t).pc = "enter" /\ state[b] = "STOPPING" /\ state'[b] = "ACTIVE"
           /\ \A x \in Bundles \ {b}: state'[x] = state[x]
    <3>1. Restores(Top(t)) => \/ Top(t).op = "start" /\ Top(t).pc = "failed"
                              \/ Top(t).op = "stop" /\ Top(t).pc = "enter"
      BY <1>3, <1>7 DEF ThrowPoint, Restores
    <3> QED
      BY <1>3, <1>4, <1>7, <3>1 DEF FrameOK, StartFrame, StopFrame, TypeOK
  <2>5. \A k \in Lower(t): /\ Top(t).op \in {"start", "stop"} /\ Top(t).pc # "check" => stack[t][k].b # b
                           /\ Top(t).op = "resolve" /\ Top(t).pc = "deps" /\ stack[t][k].pc = "deps"
                                => stack[t][k].b # b
                           /\ stack[t][k].b \in Bundles /\ stack[t][k].op = Top(t).op
    BY <1>1, <1>4, Waiting DEF MayRepeat, Frame
  <2>6. LowerSame(t)
    BY <1>4, <1>5, <1>7, <2>4, <2>5 DEF LowerSame, Abandon
  <2>7. StackInv' /\ ActiveThreads' /\ FailInv'
    BY <1>2, <2>1, <2>3, <2>6, PopStack
  <2>8. LoadedInv' /\ RunInv'
    <3>1. \A x: /\ ~OnTop("uninstall", "commit", x) /\ ~OnTop("start", "commit", x)
                /\ OnTop("stop", "enter", x) => x = b /\ Top(t).op = "stop" /\ Top(t).pc = "enter"
      BY <1>2, <1>3, <1>4, OnTopIsTop DEF ThrowPoint
    <3>2. LoadedInv'
      BY <1>5, <2>4, <3>1 DEF LoadedInv
    <3>3. running \subseteq Bundles
      BY DEF TypeOK
    <3>4. Top(t).op = "stop" /\ Top(t).pc = "enter" => state'[b] = "ACTIVE"
      BY <1>3, <1>4, <1>7 DEF FrameOK, StopFrame, Restores, TypeOK
    <3>5. RunInv'
      BY <1>5, <2>4, <3>1, <3>3, <3>4 DEF RunInv
    <3> QED
      BY <3>2, <3>5
  <2>9. StartedInv'
    <3>1. CASE t \in failing'
      BY <1>2, <2>1, <3>1, StartedFailing DEF Popped, Keeps
    <3>2. CASE stack'[t] = <<>>
      BY <1>1, <1>2, <2>1, <2>7, <3>2, StartedOtherOp DEF Popped, Keeps, StackInv
    <3> QED
      BY <2>3, <3>1, <3>2
  <2>10. ResolvedInv' /\ Founded'
    <3>1. CASE Top(t).op = "resolve" /\ Top(t).pc = "deps"
      <4>1. UNCHANGED state
        BY <2>4, <3>1
      <4>2. resolvedDeps'[b] = <<>> /\ \A x \in Bundles \ {b}: resolvedDeps'[x] = resolvedDeps[x]
        BY <1>7, <3>1 DEF Abandon, TypeOK
      <4>3. DepsGrow(t)
        BY <1>4, <3>1, <4>2 DEF DepsGrow, Deps
      <4> QED
        BY <1>1, <1>3, <4>1, <4>3, GrowingResolution
    <3>2. CASE UNCHANGED resolvedDeps
      BY <2>4, <3>2, ResolutionStays DEF Deps, ResolvedStates
    <3> QED
      BY <1>7, <3>1, <3>2
  <2>11. OrderInv' /\ HaltInv'
    <3>1. CASE Top(t).op # "stop"
      BY <1>1, <2>3, <3>1, OrderStays
    <3>2. CASE Top(t).op = "stop"
      <4>1. Len(stack[t]) = 1
        BY <1>1, <3>2, Outermost
      <4>2. phase' \notin {"stopping", "halted"}
        BY <1>1, <1>7, <4>1 DEF ActiveThreads
      <4> QED
        BY <4>2 DEF OrderInv, HaltInv
    <3> QED
      BY <3>1, <3>2
  <2> QED
    BY <2>7, <2>8, <2>9, <2>10, <2>11
<1> QED
  BY <1>4, <1>6, <1>7 DEF Unwind

-----------------------------------------------------------------------------
(* The main thread and the administrators, when no call is running *)

LEMMA IdleFacts ==
    ASSUME TypeInv, SeqInv, AllIdle
    PROVE  /\ failing = {}
           /\ \A x: /\ ~OnTop("uninstall", "commit", x) /\ ~OnTop("start", "commit", x)
                    /\ ~OnTop("stop", "enter", x)
           /\ \A x \in running: state[x] = "ACTIVE" /\ x \in loaded /\ code[x] = "loaded"
<1>1. failing = {}
  BY DEF TypeInv, TypeOK, ThrowersInCalls, AllIdle
<1>2. \A op, pc, x: ~OnTop(op, pc, x)
  BY DEF OnTop, AllIdle
<1> QED
  BY <1>1, <1>2 DEF SeqInv, RunInv

\* Outside of running, only the main thread makes calls.
LEMMA MainAlone ==
    ASSUME SeqInv, MainIdle, phase # "running"
    PROVE  AllIdle
BY DEF SeqInv, ActiveThreads, MainIdle, AllIdle

\* What is true of the stacks once a thread has made its first call, or none.
FirstCall ==
    \/ UNCHANGED stack
    \/ \E t \in Threads, op \in Ops, x \in Bundles: Call(t, op, x)

LEMMA FirstCallInv ==
    ASSUME TypeInv, TypeInv', SeqInv, AllIdle, FirstCall,
           UNCHANGED <<manifest, state, loaded, resolvedDeps, resolving, running, code, failing>>
    PROVE  /\ StackInv' /\ FailInv' /\ LoadedInv' /\ RunInv' /\ StartedInv'
           /\ ResolvedInv' /\ Founded'
<1> USE DEF SeqInv, TypeInv
<1>0. StackOK /\ StackOK'
  BY DEF TypeOK, StackOK
<1>1. failing' = {}
  BY IdleFacts
<1>2. \A t \in Threads: Len(stack[t]) = 0
  BY DEF AllIdle, Idle
<1>3. \A t \in Threads: \A k \in 1 .. Len(stack'[t]):
         Len(stack'[t]) = 1 /\ k = 1 /\ stack'[t][k].pc = "check" /\ stack'[t][k].i = 1
  <2>1. CASE UNCHANGED stack
    BY <1>2, <2>1
  <2>2. ASSUME NEW t \in Threads, NEW op \in Ops, NEW x \in Bundles, Call(t, op, x)
        PROVE  /\ Len(stack'[t]) = 1 /\ stack'[t][1] = NewFrame(op, x)
               /\ \A u \in Threads \ {t}: Len(stack'[u]) = 0
    <3>1. Pushed(t, op, x)
      BY <1>0, <2>2, CallPushes
    <3>2. Len(stack'[t]) = 1
      BY <1>2, <3>1 DEF Pushed
    <3> QED
      BY <1>2, <3>1, <3>2 DEF Pushed, Keeps, Top
  <2>3. CASE \E t \in Threads, op \in Ops, x \in Bundles: Call(t, op, x)
    <3>1. PICK t \in Threads, op \in Ops, x \in Bundles: Call(t, op, x)
      BY <2>3
    <3>2. /\ Len(stack'[t]) = 1 /\ stack'[t][1] = NewFrame(op, x)
          /\ \A u \in Threads \ {t}: Len(stack'[u]) = 0
      BY <2>2, <3>1
    <3> SUFFICES ASSUME NEW u \in Threads, NEW k \in 1 .. Len(stack'[u])
                 PROVE  Len(stack'[u]) = 1 /\ k = 1 /\ stack'[u][k].pc = "check" /\ stack'[u][k].i = 1
      OBVIOUS
    <3>3. u = t
      BY <3>2
    <3>4. k \in 1 .. Len(stack'[t])
      BY <3>3
    <3>5. k = 1
      BY <3>2, <3>4
    <3> QED
      BY <3>2, <3>3, <3>5 DEF NewFrame
  <2> QED
    BY <2>1, <2>3 DEF FirstCall
<1>4. StackInv'
  <2>1. \A t \in Threads: \A k \in 1 .. (Len(stack'[t]) - 1): FALSE
    <3> SUFFICES ASSUME NEW t \in Threads, NEW k \in 1 .. (Len(stack'[t]) - 1) PROVE FALSE
      OBVIOUS
    <3>1. Len(stack'[t]) \in Nat
      BY <1>0, StackLength DEF StackOK
    <3>2. k \in 1 .. Len(stack'[t])
      BY <3>1
    <3> QED
      BY <1>3, <3>2
  <2>2. OneOp' /\ ChainInv'
    BY <1>3, <2>1 DEF OneOp, ChainInv, Lower
  <2>3. RepeatInv'
    BY <1>3 DEF RepeatInv
  <2>4. FrameInv'
    <3> SUFFICES ASSUME NEW t \in Threads, NEW k \in 1 .. Len(stack'[t])
                 PROVE  FrameOK(stack[t][k])'
      BY DEF FrameInv
    <3>1. stack'[t][k].pc = "check" /\ stack'[t][k].i = 1
      BY <1>3
    <3> QED
      BY <3>1 DEF FrameOK, ResolveFrame, StartFrame, StopFrame, UninstallFrame
  <2> QED
    BY <2>2, <2>3, <2>4 DEF StackInv
<1>5. FailInv'
  BY <1>1 DEF FailInv
<1>6. LoadedInv' /\ RunInv'
  BY IdleFacts DEF LoadedInv, RunInv
<1>7. StartedInv'
  BY <1>3 DEF StartedInv, StartedFrame
<1>8. ResolvedInv' /\ Founded'
  BY ResolutionStays DEF Deps
<1> QED
  BY <1>4, <1>5, <1>6, <1>7, <1>8

LEMMA ActiveAfterCall ==
    ASSUME StackOK, AllIdle, NEW t \in Threads, UNCHANGED stack \/ \E op \in Ops, x \in Bundles: Call(t, op, x),
           IF t = Main THEN phase' \in {"resolving", "starting", "stopping"} ELSE phase' = "running"
    PROVE  ActiveThreads'
<1>1. \A u \in Threads \ {t}: Idle(u)'
  BY CallPushes DEF AllIdle, Idle, Pushed, Keeps
<1> QED
  BY <1>1 DEF ActiveThreads

\* sortBundles() puts every loaded bundle into the list, once.
LEMMA SortedIsComplete ==
    ASSUME TypeOK, NEW s \in SortedBundles
    PROVE  /\ Len(s) = Cardinality(loaded) /\ Len(s) \in Nat /\ DOMAIN s = 1 .. Len(s)
           /\ \A i, j \in 1 .. Len(s): s[i] = s[j] => i = j
           /\ \A x \in loaded: \E k \in 1 .. Len(s): s[k] = x
           /\ \A k \in 1 .. Len(s): s[k] \in loaded
           /\ \A k \in 1 .. Len(s): Sortable(s[k], {s[j]: j \in 1 .. (k - 1)})
<1>0. IsFiniteSet(loaded)
  BY BundleAssumption, FS_Subset DEF TypeOK
<1>1. PICK n \in Nat: n = Cardinality(loaded)
  BY <1>0, FS_CardinalityType
<1>2. s \in [1 .. n -> loaded]
  BY <1>1 DEF SortedBundles
<1>3. s \in Seq(loaded) /\ Len(s) = n
  BY <1>2, SeqDef
<1>4. \A k \in 1 .. n: s[k] \notin {s[j]: j \in 1 .. (k - 1)} /\ Sortable(s[k], {s[j]: j \in 1 .. (k - 1)})
  BY <1>2 DEF SortedBundles
<1>5. \A i, j \in 1 .. n: s[i] = s[j] => i = j
  <2> SUFFICES ASSUME NEW i \in 1 .. n, NEW j \in 1 .. n, s[i] = s[j], i < j PROVE FALSE
    OBVIOUS
  <2>1. i \in 1 .. (j - 1)
    OBVIOUS
  <2> QED
    BY <1>4, <2>1
<1>6. s \in Injection(1 .. n, loaded)
  BY <1>2, <1>5 DEF Injection, IsInjective
<1>7. Cardinality(1 .. n) = n
  BY FS_Interval
<1>8. s \in Surjection(1 .. n, loaded)
  BY <1>0, <1>1, <1>6, <1>7, FS_Injection
<1> QED
  BY <1>1, <1>2, <1>3, <1>4, <1>5, <1>8 DEF Surjection

LEMMA SeqSort ==
    ASSUME TypeInv, TypeInv', SeqInv, SortBundles
    PROVE  OrderInv'
<1> USE DEF SeqInv, TypeInv
<1>1. AllIdle
  BY MainAlone DEF SortBundles
<1>2. PICK s \in SortedBundles: order' = StopOrder(s)
  BY DEF SortBundles
<1>3. /\ Len(s) \in Nat /\ DOMAIN s = 1 .. Len(s)
      /\ \A i, j \in 1 .. Len(s): s[i] = s[j] => i = j
      /\ \A x \in loaded: \E k \in 1 .. Len(s): s[k] = x
      /\ \A k \in 1 .. Len(s): s[k] \in loaded
      /\ \A k \in 1 .. Len(s): Sortable(s[k], {s[j]: j \in 1 .. (k - 1)})
  BY SortedIsComplete
<1>4. PICK n \in Nat: n = Len(s)
  BY <1>3
<1>5. order' = [k \in 1 .. n |-> s[n + 1 - k]]
  BY <1>2, <1>3, <1>4 DEF StopOrder
<1>6. order' \in Seq(loaded) /\ Len(order') = n
  <2>1. \A k \in 1 .. n: n + 1 - k \in 1 .. n
    OBVIOUS
  <2>2. order' \in [1 .. n -> loaded]
    BY <1>3, <1>4, <1>5, <2>1
  <2> QED
    BY <2>2, SeqDef
<1>7. UNCHANGED <<state, resolvedDeps, running, stack>>
  BY DEF SortBundles, bundleVars
<1>8. \A j \in 1 .. n: \A i \in 1 .. (j - 1): Ahead(order[i], order[j])'
  <2> SUFFICES ASSUME NEW j \in 1 .. n, NEW i \in 1 .. (j - 1)
               PROVE  Ahead(order[i], order[j])'
    OBVIOUS
  <2>1. PICK p \in 1 .. n: p = n + 1 - i
    OBVIOUS
  <2>2. PICK q \in 1 .. n: q = n + 1 - j
    OBVIOUS
  <2>3. order'[i] = s[p] /\ order'[j] = s[q] /\ q < p
    BY <1>5, <2>1, <2>2
  <2>4. isResolved(s[q]) => Deps(s[q]) \subseteq {s[m]: m \in 1 .. (q - 1)}
    BY <1>3, <1>4 DEF Sortable, Deps
  <2>5. s[p] \notin {s[m]: m \in 1 .. (q - 1)}
    BY <1>3, <1>4, <2>3
  <2>6. isResolved(s[q]) => s[p] \notin Deps(s[q])
    BY <2>4, <2>5
  <2> QED
    BY <1>7, <2>3, <2>6 DEF Ahead, isResolved, Deps
<1>9. \A x \in running: \E j \in 1 .. n: order'[j] = x
  <2> SUFFICES ASSUME NEW x \in running PROVE \E j \in 1 .. n: order'[j] = x
    OBVIOUS
  <2>1. x \in loaded
    BY <1>1, IdleFacts
  <2>2. PICK k \in 1 .. n: s[k] = x
    BY <1>3, <1>4, <2>1
  <2>3. n + 1 - k \in 1 .. n /\ n + 1 - (n + 1 - k) = k
    OBVIOUS
  <2> QED
    BY <1>5, <2>2, <2>3
<1>10. Idle(Main)'
  BY <1>7 DEF SortBundles, MainIdle, Idle
<1> QED
  BY <1>6, <1>7, <1>8, <1>9, <1>10 DEF OrderInv

LEMMA SeqMain ==
    ASSUME TypeInv, TypeInv', SeqInv, Exclusive, MainStep \/ BeginShutdown
    PROVE  SeqInv'
<1> USE DEF SeqInv, TypeInv
<1>0. StackOK /\ StackOK' /\ Main \in Threads
  BY DEF TypeOK, StackOK, Threads
<1>1. ASSUME NEW b \in Bundles, ResolveNext(b)
      PROVE  SeqInv'
  <2>1. AllIdle
    BY <1>1, MainAlone DEF ResolveNext
  <2>2. UNCHANGED <<manifest, state, loaded, resolvedDeps, resolving, running, code, failing>>
        /\ UNCHANGED <<phase, order>> /\ phase = "resolving"
    BY <1>1 DEF ResolveNext, bundleVars, codeVars
  <2>3. FirstCall /\ ActiveThreads'
    BY <1>0, <1>1, <2>1, <2>2, ActiveAfterCall DEF ResolveNext, FirstCall, Ops
  <2>4. OrderInv' /\ HaltInv'
    BY <2>2 DEF OrderInv, HaltInv
  <2> QED
    BY <2>1, <2>2, <2>3, <2>4, FirstCallInv
<1>2. ASSUME NEW b \in Bundles, StartNext(b)
      PROVE  SeqInv'
  <2>1. AllIdle
    BY <1>2, MainAlone DEF StartNext
  <2>2. UNCHANGED <<manifest, state, loaded, resolvedDeps, resolving, running, code, failing>>
        /\ UNCHANGED <<phase, order>> /\ phase = "starting"
    BY <1>2 DEF StartNext, bundleVars, codeVars
  <2>3. FirstCall /\ ActiveThreads'
    BY <1>0, <1>2, <2>1, <2>2, ActiveAfterCall DEF StartNext, FirstCall, Ops
  <2>4. OrderInv' /\ HaltInv'
    BY <2>2 DEF OrderInv, HaltInv
  <2> QED
    BY <2>1, <2>2, <2>3, <2>4, FirstCallInv
<1>3. CASE StopNext
  <2>1. AllIdle
    BY <1>3, MainAlone DEF StopNext
  <2>2. UNCHANGED <<manifest, state, loaded, resolvedDeps, resolving, running, code, failing>>
        /\ UNCHANGED phase /\ phase = "stopping"
    BY <1>3 DEF StopNext, bundleVars, codeVars
  <2>3. PICK n \in Nat \ {0}: n = Len(order)
    BY <1>3 DEF StopNext, TypeOK
  <2>4. /\ Head(order) = order[1] /\ Head(order) \in Bundles
        /\ Len(order') = n - 1 /\ \A j \in 1 .. (n - 1): order'[j] = order[j + 1]
    BY <1>3, <2>3 DEF StopNext, TypeOK
  <2>5. FirstCall /\ ActiveThreads'
    BY <1>0, <1>3, <2>1, <2>2, <2>4, ActiveAfterCall DEF StopNext, FirstCall, Ops
  <2>6. \A x, y: Ahead(x, y) => Ahead(x, y)'
    BY <2>2 DEF Ahead, isResolved, Deps
  <2>7. \A j \in 1 .. (n - 1): \A i \in 1 .. (j - 1): Ahead(order[i], order[j])'
    <3> SUFFICES ASSUME NEW j \in 1 .. (n - 1), NEW i \in 1 .. (j - 1)
                 PROVE  Ahead(order[i], order[j])'
      OBVIOUS
    <3>1. j + 1 \in 1 .. n /\ i + 1 \in 1 .. (j + 1 - 1) /\ i \in 1 .. (n - 1)
      OBVIOUS
    <3>2. PICK x, y: x = order[i + 1] /\ y = order[j + 1]
      OBVIOUS
    <3>3. Ahead(x, y)
      BY <2>2, <2>3, <3>1, <3>2 DEF OrderInv
    <3>4. Ahead(x, y)'
      BY <2>6, <3>3
    <3>5. order'[i] = x /\ order'[j] = y
      BY <2>4, <3>1, <3>2
    <3> QED
      BY <3>4, <3>5
  <2>8. \A j \in 1 .. (n - 1): Ahead(order[1], order[j + 1])
    <3> SUFFICES ASSUME NEW j \in 1 .. (n - 1) PROVE Ahead(order[1], order[j + 1])
      OBVIOUS
    <3>1. j + 1 \in 1 .. n /\ 1 \in 1 .. (j + 1 - 1)
      OBVIOUS
    <3> QED
      BY <2>2, <2>3, <3>1 DEF OrderInv
  <2>9. \A x \in running: x = order[1] \/ \E j \in 1 .. (n - 1): order'[j] = x
    <3> SUFFICES ASSUME NEW x \in running, x # order[1]
                 PROVE  \E j \in 1 .. (n - 1): order'[j] = x
      OBVIOUS
    <3>1. PICK j \in 1 .. n: order[j] = x
      BY <1>0, <2>1, <2>2, <2>3 DEF OrderInv, AllIdle
    <3>2. j - 1 \in 1 .. (n - 1) /\ j - 1 + 1 = j
      BY <3>1
    <3> QED
      BY <2>4, <3>1, <3>2
  <2>10. HaltInv'
    BY <2>2 DEF HaltInv
  <2>11. CASE state[Head(order)] = "ACTIVE"
    <3>1. Call(Main, "stop", Head(order))
      BY <1>3, <2>11 DEF StopNext
    <3>2. Pushed(Main, "stop", order[1])
      BY <1>0, <2>4, <3>1, CallPushes DEF Ops
    <3>3. Top(Main)'.op = "stop" /\ Top(Main)'.b = order[1]
      BY <3>2 DEF Pushed, NewFrame
    <3>4. ~Idle(Main)'
      <4>1. Len(stack'[Main]) # 0
        BY <1>0, <3>2, StackLength DEF Pushed
      <4> QED
        BY <4>1 DEF Idle
    <3>5. \A j \in 1 .. (n - 1): Ahead(Top(Main).b, order[j])'
      <4> SUFFICES ASSUME NEW j \in 1 .. (n - 1) PROVE Ahead(Top(Main).b, order[j])'
        OBVIOUS
      <4>1. PICK x, y: x = order[1] /\ y = order[j + 1]
        OBVIOUS
      <4>2. Ahead(x, y)'
        BY <2>6, <2>8, <4>1
      <4> QED
        BY <2>4, <3>3, <4>1, <4>2
    <3>6. OrderInv'
      BY <2>2, <2>4, <2>7, <2>9, <3>3, <3>4, <3>5 DEF OrderInv
    <3> QED
      BY <2>1, <2>2, <2>5, <2>10, <3>6, FirstCallInv
  <2>12. CASE state[Head(order)] # "ACTIVE"
    <3>1. order[1] \notin running
      BY <2>1, <2>4, <2>12, IdleFacts
    <3>2. Idle(Main)'
      BY <1>0, <1>3, <2>1, <2>12 DEF StopNext, AllIdle, Idle
    <3>3. OrderInv'
      BY <2>2, <2>4, <2>7, <2>9, <3>1, <3>2 DEF OrderInv
    <3> QED
      BY <2>1, <2>2, <2>5, <2>10, <3>3, FirstCallInv
  <2> QED
    BY <2>11, <2>12
<1>4. CASE EndResolveAll \/ EndStartAll \/ BeginShutdown \/ SortBundles \/ EndStopAll
  <2>1. AllIdle
    <3>1. CASE BeginShutdown
      BY <3>1 DEF BeginShutdown, AllIdle
    <3>2. CASE ~BeginShutdown
      BY <1>4, <3>2, MainAlone DEF EndResolveAll, EndStartAll, SortBundles, EndStopAll
    <3> QED
      BY <3>1, <3>2
  <2>2. UNCHANGED <<manifest, state, loaded, resolvedDeps, resolving, running, code, failing, stack>>
    BY <1>4
       DEF EndResolveAll, EndStartAll, BeginShutdown, SortBundles, EndStopAll, bundleVars, codeVars
  <2>3. FirstCall /\ ActiveThreads'
    BY <2>1, <2>2 DEF FirstCall, ActiveThreads, AllIdle, Idle
  <2>4. OrderInv'
    <3>1. CASE SortBundles
      BY <3>1, SeqSort
    <3>2. CASE ~SortBundles
      BY <1>4, <3>2 DEF EndResolveAll, EndStartAll, BeginShutdown, EndStopAll, OrderInv
    <3> QED
      BY <3>1, <3>2
  <2>5. HaltInv'
    <3>1. CASE EndStopAll
      <4>1. phase = "stopping" /\ Len(order) = 0
        BY <3>1 DEF EndStopAll
      <4>2. running = {}
        BY <1>0, <2>1, <4>1 DEF OrderInv, AllIdle
      <4> QED
        BY <2>2, <4>2 DEF HaltInv
    <3>2. CASE ~EndStopAll
      BY <1>4, <3>2 DEF EndResolveAll, EndStartAll, BeginShutdown, SortBundles, HaltInv
    <3> QED
      BY <3>1, <3>2
  <2> QED
    BY <2>1, <2>2, <2>3, <2>4, <2>5, FirstCallInv
<1> QED
  BY <1>1, <1>2, <1>3, <1>4 DEF MainStep

LEMMA SeqAdmin ==
    ASSUME TypeInv, TypeInv', SeqInv, Exclusive, NEW t \in Admins, AdminStep(t)
    PROVE  SeqInv'
<1> USE DEF SeqInv, TypeInv
<1>0. StackOK /\ StackOK' /\ t \in Threads /\ t # Main
  BY BundleAssumption DEF TypeOK, StackOK, Threads
<1>1. ASSUME NEW op \in Ops, NEW b \in Bundles, Request(t, op, b)
      PROVE  SeqInv'
  <2>1. AllIdle /\ phase = "running"
    BY <1>1 DEF Request, MayRequest, AllIdle
  <2>2. UNCHANGED <<manifest, state, loaded, resolvedDeps, resolving, running, code, failing>>
        /\ UNCHANGED <<phase, order>>
    BY <1>1 DEF Request, bundleVars, codeVars, mainVars
  <2>3. FirstCall /\ ActiveThreads'
    BY <1>0, <1>1, <2>1, <2>2, ActiveAfterCall DEF Request, FirstCall
  <2>4. OrderInv' /\ HaltInv'
    BY <2>1, <2>2 DEF OrderInv, HaltInv
  <2> QED
    BY <2>1, <2>2, <2>3, <2>4, FirstCallInv
<1>2. ASSUME NEW b \in Bundles, LoadBundle(t, b)
      PROVE  SeqInv'
  <2>1. AllIdle /\ phase = "running"
    BY <1>2 DEF LoadBundle, MayRequest, AllIdle
  <2>2. /\ state[b] = "NONE" /\ state'[b] = "INSTALLED" /\ \A x \in Bundles \ {b}: state'[x] = state[x]
        /\ loaded' = loaded \cup {b}
        /\ UNCHANGED <<manifest, resolvedDeps, resolving, running, code, failing, stack, phase, order>>
    BY <1>2 DEF LoadBundle, codeVars, mainVars, TypeOK
  <2>3. \A u \in Threads: Len(stack'[u]) = 0 /\ Idle(u)'
    BY <2>1, <2>2 DEF AllIdle, Idle
  <2>4. StackInv'
    BY <2>3 DEF StackInv, OneOp, ChainInv, FrameInv, RepeatInv, Lower
  <2>5. ActiveThreads' /\ FailInv' /\ StartedInv'
    BY <2>1, <2>2, <2>3, IdleFacts DEF ActiveThreads, FailInv, StartedInv
  <2>6. LoadedInv'
    BY <2>1, <2>2, IdleFacts DEF LoadedInv
  <2>7. RunInv'
    <3>1. running \subseteq Bundles
      BY DEF TypeOK
    <3> QED
      BY <2>1, <2>2, <3>1, IdleFacts DEF RunInv
  <2>8. ResolvedInv' /\ Founded'
    BY <2>2, ResolutionStays DEF Deps, ResolvedStates
  <2>9. OrderInv' /\ HaltInv'
    BY <2>1, <2>2 DEF OrderInv, HaltInv
  <2> QED
    BY <2>4, <2>5, <2>6, <2>7, <2>8, <2>9
<1> QED
  BY <1>1, <1>2 DEF AdminStep

-----------------------------------------------------------------------------
(* The invariant *)

LEMMA SeqInit == Init => SeqInv
<1> SUFFICES ASSUME Init PROVE SeqInv
  OBVIOUS
<1>1. \A t \in Threads: Idle(t) /\ Len(stack[t]) = 0
  BY DEF Init, Idle
<1>2. ActiveThreads /\ FailInv /\ StartedInv /\ RunInv
  BY <1>1 DEF Init, ActiveThreads, FailInv, StartedInv, RunInv
<1>3. StackInv
  BY <1>1 DEF StackInv, OneOp, ChainInv, FrameInv, RepeatInv, Lower
<1>4. LoadedInv
  BY DEF Init, LoadedInv
<1>5. \A x \in Bundles: Deps(x) = {}
  BY DEF Init, Deps
<1>6. ResolvedInv /\ Founded
  BY <1>5 DEF ResolvedInv, Founded
<1>7. OrderInv /\ HaltInv
  BY DEF Init, OrderInv, HaltInv
<1> QED
  BY <1>2, <1>3, <1>4, <1>6, <1>7 DEF SeqInv

LEMMA SeqNext ==
    ASSUME TypeInv, TypeInv', SeqInv, Exclusive, [Next]_vars
    PROVE  SeqInv'
<1>1. CASE UNCHANGED vars
  <2>1. UNCHANGED <<manifest, state, loaded, resolvedDeps, resolving, running, code, failing, stack,
                    phase, order>>
    BY <1>1 DEF vars, bundleVars, codeVars, mainVars
  <2>2. StackInv'
    BY <2>1, ThrowInv DEF SeqInv
  <2>3. ActiveThreads' /\ FailInv' /\ LoadedInv' /\ RunInv'
    BY <2>1 DEF SeqInv, ActiveThreads, FailInv, LoadedInv, RunInv, OnTop, Idle, Top
  <2>3a. \A x: Deps(x)' = Deps(x) /\ isResolved(x)' = isResolved(x)
    BY <2>1 DEF Deps, isResolved
  <2>4. /\ StartedInv'
        /\ ResolvedInv' /\ Founded'
    <3>1. StartedInv'
      <4>1. StartedInv
        BY DEF SeqInv
      <4>2. \A f, n: StartedFrame(f, n) => StartedFrame(f, n)'
        BY <2>1, <2>3a DEF StartedFrame, Started
      <4> QED
        BY <2>1, <4>1, <4>2 DEF StartedInv
    <3>2. ResolvedInv'
      BY <2>1, <2>3a DEF SeqInv, ResolvedInv
    <3>3. Founded'
      BY <2>3a DEF SeqInv, Founded
    <3> QED
      BY <3>1, <3>2, <3>3
  <2>5. OrderInv' /\ HaltInv'
    BY <2>1 DEF SeqInv, OrderInv, HaltInv, Ahead, isResolved, Deps, Idle, Top
  <2> QED
    BY <2>2, <2>3, <2>4, <2>5 DEF SeqInv
<1>2. CASE Next
  <2>1. ASSUME NEW t \in Threads, Continue(t) PROVE SeqInv'
    BY <2>1, SeqCheckState, SeqResolve, SeqStart, SeqStop, SeqFinish, SeqUninstall, SeqUnwind
       DEF Continue
  <2> QED
    BY <1>2, <2>1, SeqMain, SeqAdmin DEF Next
<1> QED
  BY <1>1, <1>2

LEMMA SeqInvariance == ASSUME Exclusive PROVE Spec => [](TypeInv /\ SeqInv)
<1>1. Init => SeqInv
  BY SeqInit
<1>2. TypeInv /\ TypeInv' /\ SeqInv /\ [Next]_vars => SeqInv'
  BY SeqNext
<1> QED
  BY <1>1, <1>2, TypeInvariance, PTL DEF Spec

-----------------------------------------------------------------------------
(* The theorems *)

\* A start-up, management calls one at a time and a shutdown leave no activator
\* running when the shutdown gets to its end: every bundle whose activator runs
\* is among those that stopAllBundles() has still to stop, whatever failed.
THEOREM ShutdownIsClean == ASSUME Exclusive PROVE Spec => []CleanShutdown
<1>1. TypeInv /\ SeqInv => CleanShutdown
  BY DEF SeqInv, HaltInv, CleanShutdown
<1> QED
  BY <1>1, SeqInvariance, PTL

\* Between management calls, a running activator is one of an active bundle that
\* the loader knows and whose code is in memory: no failure of start(), stop() or
\* uninstall() loses track of it.
THEOREM RunningStaysManaged == ASSUME Exclusive PROVE Spec => []RunningIsManaged
<1>1. TypeInv /\ SeqInv => RunningIsManaged
  BY IdleFacts DEF RunningIsManaged
<1> QED
  BY <1>1, SeqInvariance, PTL

LEMMA RunningGrows ==
    ASSUME [Next]_vars, NEW x \in running' \ running
    PROVE  \E t \in Threads: InvokeStart(t) /\ x = Top(t).b
<1> USE DEF bundleVars, codeVars, mainVars
<1>1. Next
  BY DEF vars
<1>2. \A t \in Threads: Continue(t) => InvokeStart(t) \/ running' \subseteq running
  BY DEF Continue, CheckState, ResolveStep, ClearDependencies, EnterResolve, ResolveDependency,
         EndDependencies, InstallLibraries, ExtendBundle, CommitResolve, StartStep, SetStarting,
         SetState, EnterStart, StartDependency, LoadActivator, CommitStart, CommitState,
         StopStep, SetStopping, StopActivator, CommitStop, FinishState, UninstallStep,
         UninstallBundle, CommitUninstall, Unwind
<1>3. MainStep \/ BeginShutdown \/ (\E t \in Admins: AdminStep(t)) => UNCHANGED running
  BY DEF MainStep, ResolveNext, EndResolveAll, StartNext, EndStartAll, SortBundles, StopNext,
         EndStopAll, BeginShutdown, AdminStep, LoadBundle, Request
<1>4. PICK t \in Threads: InvokeStart(t)
  BY <1>1, <1>2, <1>3 DEF Next
<1> QED
  BY <1>4 DEF InvokeStart

LEMMA RunningShrinks ==
    ASSUME [Next]_vars, NEW x \in running \ running'
    PROVE  \E t \in Threads: StopActivator(t) /\ x = Top(t).b
<1> USE DEF bundleVars, codeVars, mainVars
<1>1. Next
  BY DEF vars
<1>2. \A t \in Threads: Continue(t) => StopActivator(t) \/ running \subseteq running'
  BY DEF Continue, CheckState, ResolveStep, ClearDependencies, EnterResolve, ResolveDependency,
         EndDependencies, InstallLibraries, ExtendBundle, CommitResolve, StartStep, SetStarting,
         SetState, EnterStart, StartDependency, LoadActivator, InvokeStart, CommitStart, CommitState,
         StopStep, SetStopping, CommitStop, FinishState, UninstallStep,
         UninstallBundle, CommitUninstall, Unwind
<1>3. MainStep \/ BeginShutdown \/ (\E t \in Admins: AdminStep(t)) => UNCHANGED running
  BY DEF MainStep, ResolveNext, EndResolveAll, StartNext, EndStartAll, SortBundles, StopNext,
         EndStopAll, BeginShutdown, AdminStep, LoadBundle, Request
<1>4. PICK t \in Threads: StopActivator(t)
  BY <1>1, <1>2, <1>3 DEF Next
<1> QED
  BY <1>4 DEF StopActivator

\* An activator is invoked when all the bundles its bundle has been resolved
\* against are active, whatever the dependency graph and whichever of the starts
\* that startDependencies() made for it failed before.
THEOREM StartsDependenciesFirst == ASSUME Exclusive PROVE Spec => StartsAfterDependencies
<1>1. TypeInv /\ SeqInv /\ [Next]_vars =>
        [\A x \in running' \ running: \A d \in Deps(x): state[d] = "ACTIVE"]_vars
  <2> SUFFICES ASSUME TypeInv, SeqInv, [Next]_vars, NEW x \in running' \ running
               PROVE  \A d \in Deps(x): state[d] = "ACTIVE"
    OBVIOUS
  <2>1. PICK t \in Threads: InvokeStart(t) /\ x = Top(t).b
    BY RunningGrows
  <2>2. At(t, "start", "invoke")
    BY <2>1 DEF InvokeStart
  <2>3. StackOK /\ ~Idle(t) /\ Top(t).op = "start" /\ Top(t).pc = "invoke" /\ t \notin failing
    BY <2>2, AtWork DEF At
  <2>4. StartedFrame(Top(t), Top(t).i)
    BY <2>3, StartedTop DEF SeqInv
  <2> QED
    BY <2>1, <2>3, <2>4 DEF StartedFrame
<1> QED
  BY <1>1, SeqInvariance, PTL DEF Spec, StartsAfterDependencies

\* During a shutdown, no activator is stopped while that of a bundle resolved
\* against its bundle still runs: the list that sortBundles() made before the
\* first stop() stays right to the last, whatever was started, stopped, installed
\* or uninstalled before.
THEOREM StopsDependentsFirst == ASSUME Exclusive PROVE Spec => StopsBeforeDependencies
<1>1. TypeInv /\ SeqInv /\ [Next]_vars =>
        [phase = "stopping" =>
            \A x \in running \ running': \A y \in running': x \notin Deps(y)]_vars
  <2> SUFFICES ASSUME TypeInv, SeqInv, [Next]_vars, phase = "stopping",
                      NEW x \in running \ running', NEW y \in running'
               PROVE  x \notin Deps(y)
    OBVIOUS
  <2>1. PICK t \in Threads: StopActivator(t) /\ x = Top(t).b
    BY RunningShrinks
  <2>2. At(t, "stop", "enter")
    BY <2>1 DEF StopActivator
  <2>3. ~Idle(t)
    BY <2>2 DEF At
  <2>4. t = Main
    BY <2>3 DEF SeqInv, ActiveThreads
  <2>5. y \in running /\ y # x
    BY <2>1 DEF StopActivator
  <2>6. isResolved(y)
    BY <2>5 DEF SeqInv, RunInv, isResolved, ResolvedStates
  <2>7. PICK j \in 1 .. Len(order): order[j] = y
    BY <2>1, <2>3, <2>4, <2>5 DEF SeqInv, OrderInv
  <2>8. Ahead(x, y)
    BY <2>1, <2>3, <2>4, <2>7 DEF SeqInv, OrderInv
  <2> QED
    BY <2>6, <2>8 DEF Ahead
<1> QED
  BY <1>1, SeqInvariance, PTL DEF Spec, StopsBeforeDependencies

-----------------------------------------------------------------------------
(* BundleLifecycle implements BundleStateChart *)

ChartStep == Chart!Next \/ UNCHANGED <<state, running>>

LEMMA ChartMove ==
    ASSUME TypeOK, NEW t \in Threads, NEW b \in Bundles, NEW to,
           state' = [state EXCEPT ![b] = to], UNCHANGED running,
           \/ state[b] = to
           \/ state[b] = "INSTALLED" /\ to = "RESOLVED"
           \/ state[b] = "RESOLVED" /\ to = "STARTING"
           \/ state[b] = "STARTING" /\ to = "ACTIVE"
           \/ state[b] = "STARTING" /\ to = "RESOLVED" /\ b \notin running
           \/ state[b] = "ACTIVE" /\ to = "STOPPING"
           \/ state[b] = "STOPPING" /\ to = "RESOLVED" /\ b \notin running
           \/ state[b] = "STOPPING" /\ to = "ACTIVE"
           \/ state[b] \in {"INSTALLED", "RESOLVED"} /\ to = "UNINSTALLED" /\ b \notin running
    PROVE  ChartStep
<1>1. CASE state[b] = to
  BY <1>1 DEF ChartStep, TypeOK
<1>2. CASE state[b] # to
  BY <1>2 DEF ChartStep, Chart!Next, Chart!Move, Chart!Resolve, Chart!BeginStart, Chart!Started,
              Chart!FailStart, Chart!BeginStop, Chart!Stopped, Chart!FailStop, Chart!Uninstall
<1> QED
  BY <1>1, <1>2

LEMMA ChartContinue ==
    ASSUME TypeInv, SeqInv, NEW t \in Threads, Continue(t)
    PROVE  ChartStep
<1> USE DEF bundleVars, codeVars, mainVars
<1>0. TypeOK
  BY DEF TypeInv
<1>1. CASE CheckState(t)
  BY <1>1 DEF CheckState, ChartStep
<1>2. CASE ResolveStep(t) /\ ~CommitResolve(t)
  BY <1>2 DEF ResolveStep, ClearDependencies, EnterResolve, ResolveDependency,
              EndDependencies, InstallLibraries, ExtendBundle, ChartStep
<1>3. CASE CommitResolve(t)
  <2>1. /\ Top(t).b \in Bundles /\ FrameOK(Top(t)) /\ Top(t).op = "resolve" /\ Top(t).pc = "commit"
    BY <1>3, AtWork DEF CommitResolve
  <2>2. state[Top(t).b] = "INSTALLED"
    BY <2>1 DEF FrameOK, ResolveFrame
  <2> QED
    BY <1>0, <1>3, <2>1, <2>2, ChartMove DEF CommitResolve
<1>4. CASE SetStarting(t)
  <2>1. /\ Top(t).b \in Bundles /\ FrameOK(Top(t)) /\ Top(t).op = "start" /\ Top(t).pc = "begin"
    BY <1>4, AtWork DEF SetStarting, SetState
  <2>2. state[Top(t).b] = "RESOLVED"
    BY <2>1 DEF FrameOK, StartFrame
  <2> QED
    BY <1>0, <1>4, <2>1, <2>2, ChartMove DEF SetStarting, SetState
<1>5. CASE EnterStart(t) \/ StartDependency(t) \/ LoadActivator(t)
  BY <1>5 DEF EnterStart, StartDependency, LoadActivator, ChartStep
<1>6. CASE InvokeStart(t)
  <2>1. /\ Top(t).b \in Bundles /\ FrameOK(Top(t)) /\ Top(t).op = "start" /\ Top(t).pc = "invoke"
    BY <1>6, AtWork DEF InvokeStart
  <2>2. state[Top(t).b] = "STARTING"
    BY <2>1 DEF FrameOK, StartFrame
  <2>3. running' = running \cup {Top(t).b} \/ UNCHANGED running
    BY <1>6 DEF InvokeStart
  <2>4. UNCHANGED state
    BY <1>6 DEF InvokeStart
  <2> QED
    BY <2>1, <2>2, <2>3, <2>4 DEF ChartStep, Chart!Next, Chart!ActivatorStarted
<1>7. CASE CommitStart(t)
  <2>1. /\ Top(t).b \in Bundles /\ FrameOK(Top(t)) /\ Top(t).op = "start" /\ Top(t).pc = "commit"
    BY <1>7, AtWork DEF CommitStart, CommitState
  <2>2. state[Top(t).b] = "STARTING"
    BY <2>1 DEF FrameOK, StartFrame
  <2> QED
    BY <1>0, <1>7, <2>1, <2>2, ChartMove DEF CommitStart, CommitState
<1>8. CASE SetStopping(t)
  <2>1. /\ Top(t).b \in Bundles /\ FrameOK(Top(t)) /\ Top(t).op = "stop" /\ Top(t).pc = "begin"
    BY <1>8, AtWork DEF SetStopping, SetState
  <2>2. state[Top(t).b] = "ACTIVE"
    BY <2>1 DEF FrameOK, StopFrame
  <2> QED
    BY <1>0, <1>8, <2>1, <2>2, ChartMove DEF SetStopping, SetState
<1>9. CASE StopActivator(t)
  <2>1. /\ Top(t).b \in Bundles /\ FrameOK(Top(t)) /\ Top(t).op = "stop" /\ Top(t).pc = "enter"
    BY <1>9, AtWork DEF StopActivator
  <2>2. state[Top(t).b] = "STOPPING"
    BY <2>1 DEF FrameOK, StopFrame
  <2>3. running' = running \ {Top(t).b} \/ UNCHANGED running
    BY <1>9 DEF StopActivator
  <2>4. UNCHANGED state
    BY <1>9 DEF StopActivator
  <2> QED
    BY <2>1, <2>2, <2>3, <2>4 DEF ChartStep, Chart!Next, Chart!ActivatorStopped
<1>10. CASE CommitStop(t)
  <2>1. /\ Top(t).b \in Bundles /\ FrameOK(Top(t)) /\ Top(t).op = "stop" /\ Top(t).pc = "commit"
    BY <1>10, AtWork DEF CommitStop, CommitState
  <2>2. state[Top(t).b] = "STOPPING" /\ Top(t).b \notin running
    BY <2>1 DEF FrameOK, StopFrame
  <2> QED
    BY <1>0, <1>10, <2>1, <2>2, ChartMove DEF CommitStop, CommitState
<1>11. CASE FinishState(t)
  <2>1. PICK op \in {"start", "stop"}: At(t, op, "finish")
    BY <1>11 DEF FinishState
  <2>2. /\ Top(t).b \in Bundles /\ FrameOK(Top(t)) /\ Top(t).op = op /\ Top(t).pc = "finish"
    BY <2>1, AtWork
  <2>3. state[Top(t).b] = Top(t).old
    BY <2>2 DEF FrameOK, StartFrame, StopFrame
  <2> QED
    BY <1>0, <1>11, <2>2, <2>3, ChartMove DEF FinishState
<1>12. CASE UninstallBundle(t)
  BY <1>12 DEF UninstallBundle, ChartStep
<1>13. CASE CommitUninstall(t)
  <2>1. /\ Top(t).b \in Bundles /\ FrameOK(Top(t)) /\ Top(t).op = "uninstall" /\ Top(t).pc = "commit"
    BY <1>13, AtWork DEF CommitUninstall
  <2>2. state[Top(t).b] \in {"INSTALLED", "RESOLVED"}
    BY <2>1 DEF FrameOK, UninstallFrame
  <2>3. Top(t).b \notin running
    BY <2>2 DEF SeqInv, RunInv
  <2> QED
    BY <1>0, <1>13, <2>1, <2>2, <2>3, ChartMove DEF CommitUninstall
<1>14. CASE Unwind(t)
  <2>1. /\ t \in failing /\ ~Idle(t) /\ Top(t) \in Frame /\ Top(t).b \in Bundles /\ StackOK
    BY <1>14, TopIsFrame DEF Unwind, TypeInv, ThrowersInCalls, TypeOK, StackOK, Frame
  <2>2. Len(stack[t]) \in 1 .. Len(stack[t])
    BY <2>1, StackLength
  <2>3. FrameOK(Top(t)) /\ ThrowPoint(t)
    BY <2>1, <2>2 DEF SeqInv, StackInv, FrameInv, Top, FailInv, ThrowPoint
  <2>4. UNCHANGED running
    BY <1>14 DEF Unwind
  <2>5. CASE UNCHANGED state
    BY <2>4, <2>5 DEF ChartStep
  <2>6. CASE /\ Restores(Top(t)) /\ state' = [state EXCEPT ![Top(t).b] = Top(t).old]
             /\ ~(Top(t).op = "start" /\ Top(t).pc \in {"enter", "deps", "invoke"})
    <3>1. \/ Top(t).op = "start" /\ Top(t).pc = "failed"
          \/ Top(t).op = "stop" /\ Top(t).pc = "enter"
      BY <2>3, <2>6 DEF Restores, ThrowPoint
    <3>2. \/ state[Top(t).b] = "STARTING" /\ Top(t).old = "RESOLVED" /\ Top(t).b \notin running
          \/ state[Top(t).b] = "STOPPING" /\ Top(t).old = "ACTIVE"
      BY <2>3, <3>1 DEF FrameOK, StartFrame, StopFrame
    <3> QED
      BY <1>0, <2>1, <2>4, <2>6, <3>2, ChartMove
  <2> QED
    BY <1>14, <2>5, <2>6 DEF Unwind
<1> QED
  BY <1>1, <1>2, <1>3, <1>4, <1>5, <1>6, <1>7, <1>8, <1>9, <1>10, <1>11, <1>12, <1>13, <1>14
     DEF Continue, StartStep, StopStep, UninstallStep

\* With management calls one at a time, every bundle goes through the states of the
\* documented state chart, its activator runs only in those the chart allows, and
\* what fails takes it back to where the chart says: the lifecycle implements
\* BundleStateChart.
THEOREM FollowsTheChart == ASSUME Exclusive PROVE Spec => ChartSpec
<1>1. Init => Chart!Init
  BY DEF Init, Chart!Init
<1>2. TypeInv /\ SeqInv /\ [Next]_vars => [Chart!Next]_Chart!vars
  <2> SUFFICES ASSUME TypeInv, SeqInv, Next \/ UNCHANGED vars PROVE ChartStep
    BY DEF ChartStep, Chart!vars
  <2> USE DEF bundleVars, codeVars, mainVars
  <2>1. CASE UNCHANGED vars
    BY <2>1 DEF vars, ChartStep
  <2>2. CASE \E t \in Threads: Continue(t)
    BY <2>2, ChartContinue
  <2>3. CASE MainStep \/ BeginShutdown
    BY <2>3
       DEF MainStep, ResolveNext, EndResolveAll, StartNext, EndStartAll, SortBundles,
           StopNext,
                EndStopAll, BeginShutdown, ChartStep
  <2>4. ASSUME NEW t \in Admins, NEW b \in Bundles, LoadBundle(t, b) PROVE ChartStep
    BY <2>4 DEF LoadBundle, ChartStep, Chart!Next, Chart!Load, Chart!Move
  <2>5. ASSUME NEW t \in Admins, NEW b \in Bundles, NEW op \in Ops, Request(t, op, b) PROVE ChartStep
    BY <2>5 DEF Request, ChartStep
  <2> QED
    BY <2>1, <2>2, <2>3, <2>4, <2>5 DEF Next, AdminStep
<1> QED
  BY <1>1, <1>2, SeqInvariance, PTL DEF Spec, ChartSpec, Chart!Spec

-----------------------------------------------------------------------------
(* sortBundles() finds an order *)

LEMMA LeastNat ==
    ASSUME NEW S \in SUBSET Nat, S # {}
    PROVE  \E m \in S: \A n \in S: m <= n
<1>1. PICK m \in S: \A n \in S: ~(<<n, m>> \in OpToRel(<, Nat))
  BY NatLessThanWellFounded, WFMin
<1>2. \A n \in Nat: n < m => <<n, m>> \in OpToRel(<, Nat)
  BY DEF OpToRel
<1>3. \A n \in S: ~(n < m)
  BY <1>1, <1>2
<1> QED
  BY <1>3

\* The first n elements of the list that sortBundles() makes.
SortedUpTo(n) ==
    {s \in [1 .. n -> loaded]:
        \A k \in 1 .. n:
          /\ s[k] \notin {s[j]: j \in 1 .. (k - 1)}
          /\ Sortable(s[k], {s[j]: j \in 1 .. (k - 1)})
          /\ \A c \in loaded \ {s[j]: j \in 1 .. (k - 1)}:
               Sortable(c, {s[j]: j \in 1 .. (k - 1)}) => RunLevel[s[k]] <= RunLevel[c]}

\* As long as bundles are missing in the list, there is one to append.
LEMMA SomeSortable ==
    ASSUME TypeOK, Founded, \A x \in loaded: isResolved(x) => Deps(x) \subseteq loaded,
           NEW sorted \in SUBSET loaded, sorted # loaded
    PROVE  \E x \in loaded \ sorted:
              /\ Sortable(x, sorted)
              /\ \A c \in loaded \ sorted: Sortable(c, sorted) => RunLevel[x] <= RunLevel[c]
<1> DEFINE U == loaded \ sorted
           C == {c \in U: Sortable(c, sorted)}
<1>1. U # {} /\ U \subseteq Bundles
  BY DEF TypeOK
<1>2. \E x \in U: Sortable(x, sorted)
  <2>1. CASE \E x \in U: ~isResolved(x)
    BY <2>1 DEF Sortable
  <2>2. CASE \A x \in U: isResolved(x)
    <3>1. PICK x \in U: Deps(x) \cap U = {}
      BY <1>1, <2>2 DEF Founded
    <3>2. Deps(x) \subseteq sorted
      BY <2>2, <3>1
    <3> QED
      BY <3>1, <3>2 DEF Deps, Sortable
  <2> QED
    BY <2>1, <2>2
<1>3. C # {} /\ \A c \in C: RunLevel[c] \in Nat
  BY <1>1, <1>2, BundleAssumption
<1> DEFINE L == {RunLevel[c]: c \in C}
<1>4. L \in SUBSET Nat /\ L # {}
  BY <1>3
<1>5. PICK m \in L: \A n \in L: m <= n
  BY <1>4, LeastNat
<1>6. PICK x \in C: RunLevel[x] = m
  BY <1>5
<1> QED
  BY <1>5, <1>6

LEMMA SortsOneMore ==
    ASSUME TypeOK, Founded, \A x \in loaded: isResolved(x) => Deps(x) \subseteq loaded,
           NEW n \in Nat, n < Cardinality(loaded), NEW s \in SortedUpTo(n)
    PROVE  SortedUpTo(n + 1) # {}
<1> DEFINE before(r, k) == {r[j]: j \in 1 .. (k - 1)}
           sorted == {s[j]: j \in 1 .. n}
<1>1. s \in [1 .. n -> loaded] /\ IsFiniteSet(loaded)
  BY BundleAssumption, FS_Subset DEF SortedUpTo, TypeOK
<1>2. sorted \in SUBSET loaded
  BY <1>1
<1>3. sorted # loaded
  <2>1. SUFFICES ASSUME sorted = loaded PROVE FALSE
    OBVIOUS
  <2>2. s \in Surjection(1 .. n, loaded)
    BY <1>1, <2>1 DEF Surjection
  <2>3. IsFiniteSet(1 .. n) /\ Cardinality(1 .. n) = n
    BY FS_Interval
  <2>4. Cardinality(loaded) <= n
    BY <2>2, <2>3, FS_Surjection
  <2>5. Cardinality(loaded) \in Nat
    BY <1>1, FS_CardinalityType
  <2> QED
    BY <2>4, <2>5
<1> HIDE DEF sorted
<1>4. PICK x \in loaded \ sorted:
         /\ Sortable(x, sorted)
         /\ \A c \in loaded \ sorted: Sortable(c, sorted) => RunLevel[x] <= RunLevel[c]
  BY <1>2, <1>3, SomeSortable
<1> DEFINE r == [k \in 1 .. (n + 1) |-> IF k <= n THEN s[k] ELSE x]
<1>5. r \in [1 .. (n + 1) -> loaded] /\ r[n + 1] = x /\ \A k \in 1 .. n: r[k] = s[k]
  BY <1>1, <1>4
<1> HIDE DEF r
<1>6. \A k \in 1 .. n: before(r, k) = before(s, k)
  <2> SUFFICES ASSUME NEW k \in 1 .. n PROVE before(r, k) = before(s, k)
    OBVIOUS
  <2>1. \A j \in 1 .. (k - 1): r[j] = s[j]
    BY <1>5
  <2> QED
    BY <2>1
<1>7. before(r, n + 1) = sorted
  <2>1. (n + 1) - 1 = n
    OBVIOUS
  <2>2. \A j \in 1 .. n: r[j] = s[j]
    BY <1>5
  <2> QED
    BY <2>1, <2>2 DEF sorted
<1>8. ASSUME NEW k \in 1 .. (n + 1)
      PROVE  /\ r[k] \notin before(r, k)
             /\ Sortable(r[k], before(r, k))
             /\ \A c \in loaded \ before(r, k):
                  Sortable(c, before(r, k)) => RunLevel[r[k]] <= RunLevel[c]
  <2>1. CASE k \in 1 .. n
    BY <1>5, <1>6, <2>1 DEF SortedUpTo
  <2>2. CASE k = n + 1
    BY <1>4, <1>5, <1>7, <2>2
  <2> QED
    BY <2>1, <2>2
<1>9. r \in SortedUpTo(n + 1)
  BY <1>5, <1>8 DEF SortedUpTo
<1> QED
  BY <1>9

LEMMA SortsAll ==
    ASSUME TypeOK, Founded, \A x \in loaded: isResolved(x) => Deps(x) \subseteq loaded
    PROVE  SortedBundles # {}
<1>1. PICK N \in Nat: N = Cardinality(loaded)
  BY BundleAssumption, FS_Subset, FS_CardinalityType DEF TypeOK
<1>2. SortedUpTo(0) # {}
  <2>1. 1 .. 0 = {}
    OBVIOUS
  <2>2. PICK s: s = [k \in 1 .. 0 |-> k]
    OBVIOUS
  <2>3. s \in [1 .. 0 -> loaded]
    BY <2>1, <2>2
  <2>4. s \in SortedUpTo(0)
    BY <2>1, <2>3 DEF SortedUpTo
  <2> QED
    BY <2>4
<1> DEFINE Missing == {n \in Nat: n <= N /\ SortedUpTo(n) = {}}
<1>3. Missing = {}
  <2>1. SUFFICES ASSUME Missing # {} PROVE FALSE
    OBVIOUS
  <2>2. PICK m \in Missing: \A n \in Missing: m <= n
    BY <2>1, LeastNat
  <2>3. m # 0 /\ m \in Nat /\ m <= N
    BY <1>2
  <2>4. m - 1 \in Nat /\ m - 1 < N /\ m - 1 \notin Missing /\ (m - 1) + 1 = m
    BY <2>2, <2>3
  <2>5. PICK s: s \in SortedUpTo(m - 1)
    BY <2>4
  <2>6. SortedUpTo((m - 1) + 1) # {}
    BY <1>1, <2>4, <2>5, SortsOneMore
  <2> QED
    BY <2>4, <2>6
<1>4. PICK s: s \in SortedUpTo(N)
  BY <1>3
<1>5. s \in SortedBundles
  BY <1>1, <1>4 DEF SortedUpTo, SortedBundles
<1> QED
  BY <1>5

\* sortBundles() ends: as long as no dependency of a resolved bundle is missing
\* from the loader's map, there is an order in which every bundle comes after
\* those it has been resolved against, because resolveDependency() lets no circle
\* of resolved bundles arise.
THEOREM SortingTerminates == ASSUME Exclusive PROVE Spec => []SortTerminates
<1>1. TypeInv /\ SeqInv => SortTerminates
  BY SortsAll DEF TypeInv, SeqInv, SortTerminates
<1> QED
  BY <1>1, SeqInvariance, PTL

=============================================================================

------------------------ MODULE BundleLifecycleProofs ------------------------
(***************************************************************************)
(* Theorems about BundleLifecycle, for any number of bundles and threads,  *)
(* any manifests, any faults, with or without concurrent management calls. *)
(***************************************************************************)
EXTENDS BundleLifecycle, FiniteSetTheorems, SequenceTheorems, TLAPS

-----------------------------------------------------------------------------
(* The operators on call stacks *)

StackOK == stack \in [Threads -> Seq(Frame)]

LEMMA TopIsFrame ==
    ASSUME StackOK, NEW t \in Threads, ~Idle(t)
    PROVE  Top(t) \in Frame /\ Len(stack[t]) \in Nat \ {0}
BY DEF StackOK, Idle, Top

LEMMA NewFrameType ==
    ASSUME NEW op \in Ops, NEW x \in Bundles
    PROVE  NewFrame(op, x) \in Frame
BY DEF NewFrame, Frame, Pcs, States

LEMMA WithTopType ==
    ASSUME StackOK, NEW t \in Threads, ~Idle(t), NEW f \in Frame
    PROVE  WithTop(t, f) \in [Threads -> Seq(Frame)]
BY DEF StackOK, Idle, WithTop

LEMMA GotoType ==
    ASSUME StackOK, NEW t \in Threads, ~Idle(t), NEW pc \in Pcs, Goto(t, pc)
    PROVE  StackOK'
<1>1. [Top(t) EXCEPT !.pc = pc] \in Frame
  BY TopIsFrame DEF Frame
<1> QED
  BY <1>1, WithTopType DEF Goto, StackOK

LEMMA ReturnType ==
    ASSUME StackOK, NEW t \in Threads, ~Idle(t), Return(t)
    PROVE  StackOK'
<1>1. SubSeq(stack[t], 1, Len(stack[t]) - 1) \in Seq(Frame)
  BY DEF StackOK, Idle
<1> QED
  BY <1>1 DEF Return, StackOK

LEMMA CallType ==
    ASSUME StackOK, NEW t \in Threads, NEW op \in Ops, NEW x \in Bundles, Call(t, op, x)
    PROVE  StackOK'
BY NewFrameType DEF Call, StackOK

-----------------------------------------------------------------------------
(* Type correctness *)

\* What the proofs use of At and of an exception.
LEMMA AtFrame ==
    ASSUME StackOK, NEW t \in Threads, NEW op, NEW pc, At(t, op, pc)
    PROVE  /\ ~Idle(t)
           /\ Top(t) \in Frame
           /\ Top(t).b \in Bundles
           /\ Top(t).op = op
           /\ Top(t).pc = pc
           /\ t \notin failing
BY TopIsFrame DEF At, Frame

LEMMA ThrowType ==
    ASSUME TypeOK, NEW t \in Threads, Throw(t)
    PROVE  StackOK' /\ failing' \subseteq Threads
BY DEF TypeOK, StackOK, Throw

\* An exception passes through threads that are in a call.
ThrowersInCalls == \A t \in failing: ~Idle(t)

LEMMA TypeInit == Init => TypeOK
<1> USE BundleAssumption
<1> SUFFICES ASSUME Init PROVE TypeOK
  OBVIOUS
<1>1. manifest \in Manifests
  BY DEF Init
<1>2. /\ state \in [Bundles -> States]
      /\ resolvedDeps \in [Bundles -> Seq(Bundles)]
      /\ code \in [Bundles -> CodeStates]
      /\ extensions \in [Bundles -> SUBSET Bundles]
  BY DEF Init, States, CodeStates
<1>3. stack \in [Threads -> Seq(Frame)] /\ order \in Seq(Bundles)
  BY DEF Init
<1> QED
  BY <1>1, <1>2, <1>3 DEF Init, TypeOK, Phases

LEMMA TypeResolve ==
    ASSUME TypeOK, NEW t \in Threads, ResolveStep(t)
    PROVE  TypeOK'
<1> USE BundleAssumption
<1>0. StackOK
  BY DEF TypeOK, StackOK
<1>1. CASE ClearDependencies(t)
  <2>1. ~Idle(t) /\ Top(t).b \in Bundles
    BY <1>0, <1>1, AtFrame DEF ClearDependencies
  <2>2. StackOK'
    BY <1>0, <1>1, <2>1, GotoType DEF ClearDependencies, Pcs
  <2> QED
    BY <1>1, <2>1, <2>2 DEF ClearDependencies, TypeOK, StackOK, codeVars, mainVars
<1>2. CASE EnterResolve(t)
  <2>1. ~Idle(t) /\ Top(t).b \in Bundles
    BY <1>0, <1>2, AtFrame DEF EnterResolve
  <2>2. StackOK' /\ failing' \subseteq Threads
    BY <1>0, <1>2, <2>1, GotoType, ThrowType DEF EnterResolve, Pcs, TypeOK
  <2> QED
    BY <1>2, <2>1, <2>2 DEF EnterResolve, TypeOK, StackOK, codeVars, mainVars
<1>3. CASE ResolveDependency(t)
  <2> DEFINE f == Top(t)
             d == Required(t)[f.i]
  <2>1. /\ At(t, "resolve", "deps") /\ f \in Frame /\ ~Idle(t)
        /\ f.i \in 1..Len(Required(t))
    BY <1>0, <1>3, AtFrame DEF ResolveDependency, MoreRequired, Frame, Required, TypeOK, Manifest
  <2>2. d \in Bundles
    <3>1. Required(t) \in Seq(Bundles)
      BY <2>1 DEF Required, TypeOK, Manifest, Frame
    <3> QED
      BY <3>1, <2>1
  <2>3. CASE d \in loaded /\ isResolved(d)
             /\ resolvedDeps' = [resolvedDeps EXCEPT ![f.b] =
                                   IF \E k \in DOMAIN @: @[k] = d THEN @ ELSE Append(@, d)]
             /\ stack' = WithTop(t, [f EXCEPT !.i = @ + 1])
             /\ UNCHANGED failing
    <3>1. resolvedDeps' \in [Bundles -> Seq(Bundles)]
      BY <2>1, <2>2, <2>3 DEF TypeOK, Frame
    <3>2. [f EXCEPT !.i = @ + 1] \in Frame
      BY <2>1 DEF Frame
    <3>3. StackOK'
      BY <3>2, <2>1, <2>3, <1>0, WithTopType DEF StackOK
    <3> QED
      BY <1>3, <2>3, <3>1, <3>3 DEF ResolveDependency, TypeOK, StackOK, codeVars, mainVars
  <2>4. CASE Call(t, "resolve", d) /\ UNCHANGED <<resolvedDeps, failing>>
    <3>1. StackOK'
      BY <1>0, <2>2, <2>4, CallType DEF Ops
    <3> QED
      BY <1>3, <2>4, <3>1 DEF ResolveDependency, TypeOK, StackOK, codeVars, mainVars
  <2>5. CASE Throw(t) /\ UNCHANGED resolvedDeps
    BY <1>3, <2>5, ThrowType DEF ResolveDependency, TypeOK, StackOK, codeVars, mainVars
  <2> QED
    BY <1>3, <2>3, <2>4, <2>5 DEF ResolveDependency, Usable
<1>4. CASE EndDependencies(t)
  <2>1. StackOK'
    BY <1>0, <1>4, GotoType, AtFrame DEF EndDependencies, Pcs
  <2> QED
    BY <1>4, <2>1 DEF EndDependencies, TypeOK, StackOK, codeVars, mainVars
<1>5. CASE InstallLibraries(t)
  <2>1. ~Idle(t) /\ Top(t).b \in Bundles
    BY <1>0, <1>5, AtFrame DEF InstallLibraries
  <2>2. StackOK' /\ failing' \subseteq Threads
    BY <1>0, <1>5, <2>1, GotoType, ThrowType DEF InstallLibraries, Pcs, TypeOK
  <2> QED
    BY <1>5, <2>1, <2>2 DEF InstallLibraries, TypeOK, StackOK, bundleVars, mainVars
<1>6. CASE ExtendBundle(t)
  <2> DEFINE x == manifest.extends[Top(t).b]
  <2>1. ~Idle(t) /\ Top(t).b \in Bundles
    BY <1>0, <1>6, AtFrame DEF ExtendBundle
  <2>2. x \in loaded => x \in Bundles
    BY DEF TypeOK
  <2>3. StackOK' /\ failing' \subseteq Threads
    BY <1>0, <1>6, <2>1, <2>2, GotoType, CallType, ThrowType DEF ExtendBundle, Pcs, TypeOK, Ops
  <2>4. extensions' \in [Bundles -> SUBSET Bundles]
    <3>1. extensions \in [Bundles -> SUBSET Bundles]
      BY DEF TypeOK
    <3>2. CASE UNCHANGED extensions
      BY <3>1, <3>2
    <3>3. CASE x \in loaded /\ extensions' = [extensions EXCEPT ![x] = @ \cup {Top(t).b}]
      <4> HIDE DEF x
      <4> QED
        BY <2>1, <2>2, <3>1, <3>3
    <3> QED
      BY <1>6, <3>2, <3>3 DEF ExtendBundle
  <2> QED
    BY <1>6, <2>3, <2>4 DEF ExtendBundle, TypeOK, StackOK, codeVars, mainVars
<1>7. CASE CommitResolve(t)
  <2>1. StackOK'
    BY <1>0, <1>7, ReturnType, AtFrame DEF CommitResolve
  <2>2. state' \in [Bundles -> States]
    BY <1>0, <1>7, AtFrame DEF CommitResolve, TypeOK, States
  <2> QED
    BY <1>7, <2>1, <2>2 DEF CommitResolve, TypeOK, StackOK, bundleVars, codeVars, mainVars
<1> QED
  BY <1>1, <1>2, <1>3, <1>4, <1>5, <1>6, <1>7 DEF ResolveStep

LEMMA TypeStart ==
    ASSUME TypeOK, NEW t \in Threads, StartStep(t)
    PROVE  TypeOK'
<1>0. StackOK
  BY DEF TypeOK, StackOK
<1>1. ASSUME NEW op \in Ops, NEW new \in States, SetState(t, op, new)
      PROVE  TypeOK'
  <2>1. ~Idle(t) /\ Top(t) \in Frame /\ Top(t).b \in Bundles
    BY <1>0, <1>1, AtFrame DEF SetState
  <2>2. [Top(t) EXCEPT !.pc = "enter", !.old = state[Top(t).b]] \in Frame
    BY <2>1 DEF Frame, Pcs, TypeOK
  <2>3. StackOK'
    BY <1>0, <1>1, <2>1, <2>2, WithTopType DEF SetState, StackOK
  <2> QED
    BY <1>1, <2>1, <2>3 DEF SetState, TypeOK, StackOK, bundleVars, codeVars, mainVars
<1>2. CASE EnterStart(t)
  <2>1. StackOK' /\ failing' \subseteq Threads
    BY <1>0, <1>2, AtFrame, GotoType, ThrowType DEF EnterStart, Pcs, TypeOK
  <2> QED
    BY <1>2, <2>1 DEF EnterStart, TypeOK, StackOK, bundleVars, codeVars, mainVars
<1>3. CASE StartDependency(t)
  <2> DEFINE f == Top(t)
             d == resolvedDeps[f.b][f.i]
             next == WithTop(t, [f EXCEPT !.i = @ + 1])
  <2>1. ~Idle(t) /\ f \in Frame /\ f.b \in Bundles
    BY <1>0, <1>3, AtFrame DEF StartDependency
  <2>2. d \in Bundles
    <3>1. resolvedDeps[f.b] \in Seq(Bundles)
      BY <2>1 DEF TypeOK
    <3>2. f.i \in Nat \ {0} /\ f.i <= Len(resolvedDeps[f.b])
      BY <1>3, <2>1 DEF StartDependency, MoreDependencies, Frame
    <3> QED
      BY <3>1, <3>2
  <2>3. next \in [Threads -> Seq(Frame)]
    <3>1. [f EXCEPT !.i = @ + 1] \in Frame
      BY <2>1 DEF Frame
    <3> QED
      BY <3>1, <1>0, <2>1, WithTopType
  <2>4. [next EXCEPT ![t] = Append(@, NewFrame("start", d))] \in [Threads -> Seq(Frame)]
    <3>1. NewFrame("start", d) \in Frame
      BY <2>2, NewFrameType DEF Ops
    <3> HIDE DEF next
    <3> QED
      BY <2>3, <3>1
  <2>5. StackOK' /\ failing' \subseteq Threads
    BY <1>3, <2>3, <2>4, ThrowType DEF StartDependency, StackOK, TypeOK
  <2> QED
    BY <1>3, <2>5 DEF StartDependency, TypeOK, StackOK, bundleVars, codeVars, mainVars
<1>4. CASE LoadActivator(t)
  <2>1. ~Idle(t) /\ Top(t).b \in Bundles
    BY <1>0, <1>4, AtFrame DEF LoadActivator
  <2>2. StackOK' /\ failing' \subseteq Threads
    BY <1>0, <1>4, <2>1, GotoType, ThrowType DEF LoadActivator, Pcs, TypeOK
  <2>3. code' \in [Bundles -> CodeStates] /\ activator' \subseteq Bundles
    <3>1. code \in [Bundles -> CodeStates] /\ activator \subseteq Bundles
      BY DEF TypeOK
    <3>2. UNCHANGED activator \/ activator' = activator \cup {Top(t).b}
      BY <1>4 DEF LoadActivator
    <3>3. UNCHANGED code \/ \E c \in CodeStates: code' = [code EXCEPT ![Top(t).b] = c]
      BY <1>4 DEF LoadActivator, CodeStates
    <3> QED
      BY <2>1, <3>1, <3>2, <3>3
  <2> QED
    BY <1>4, <2>2, <2>3 DEF LoadActivator, TypeOK, StackOK, bundleVars, mainVars
<1>5. CASE InvokeStart(t)
  <2>1. ~Idle(t) /\ Top(t).b \in Bundles
    BY <1>0, <1>5, AtFrame DEF InvokeStart
  <2>2. StackOK' /\ failing' \subseteq Threads
    BY <1>0, <1>5, <2>1, GotoType, ThrowType DEF InvokeStart, Pcs, TypeOK
  <2> QED
    BY <1>5, <2>1, <2>2 DEF InvokeStart, TypeOK, StackOK, bundleVars, codeVars, mainVars
<1>6. ASSUME NEW op \in Ops, NEW new \in States, CommitState(t, op, new)
      PROVE  TypeOK'
  <2>1. ~Idle(t) /\ Top(t) \in Frame /\ Top(t).b \in Bundles
    BY <1>0, <1>6, AtFrame DEF CommitState
  <2>2. [Top(t) EXCEPT !.pc = "finish", !.old = new] \in Frame
    BY <2>1 DEF Frame, Pcs
  <2>3. StackOK'
    BY <1>0, <1>6, <2>1, <2>2, WithTopType DEF CommitState, StackOK
  <2> QED
    BY <1>6, <2>1, <2>3 DEF CommitState, TypeOK, StackOK, bundleVars, codeVars, mainVars
<1> QED
  BY <1>1, <1>2, <1>3, <1>4, <1>5, <1>6
     DEF StartStep, SetStarting, CommitStart, Ops, States

LEMMA TypeStop ==
    ASSUME TypeOK, NEW t \in Threads, StopStep(t)
    PROVE  TypeOK'
<1>0. StackOK
  BY DEF TypeOK, StackOK
<1>1. CASE SetStopping(t)
  <2>1. ~Idle(t) /\ Top(t) \in Frame /\ Top(t).b \in Bundles
    BY <1>0, <1>1, AtFrame DEF SetStopping, SetState
  <2>2. [Top(t) EXCEPT !.pc = "enter", !.old = state[Top(t).b]] \in Frame
    BY <2>1 DEF Frame, Pcs, TypeOK
  <2>3. StackOK'
    BY <1>0, <1>1, <2>1, <2>2, WithTopType DEF SetStopping, SetState, StackOK
  <2>4. state' \in [Bundles -> States]
    BY <1>1, <2>1 DEF SetStopping, SetState, TypeOK, States
  <2> QED
    BY <1>1, <2>3, <2>4
       DEF SetStopping, SetState, TypeOK, StackOK, bundleVars, codeVars, mainVars
<1>2. CASE StopActivator(t)
  <2>1. StackOK' /\ failing' \subseteq Threads
    BY <1>0, <1>2, AtFrame, GotoType, ThrowType DEF StopActivator, Pcs, TypeOK
  <2>2. running' \subseteq Bundles
    BY <1>2 DEF StopActivator, TypeOK
  <2> QED
    BY <1>2, <2>1, <2>2 DEF StopActivator, TypeOK, StackOK, bundleVars, codeVars, mainVars
<1>3. CASE CommitStop(t)
  <2>1. ~Idle(t) /\ Top(t) \in Frame /\ Top(t).b \in Bundles
    BY <1>0, <1>3, AtFrame DEF CommitStop, CommitState
  <2>2. [Top(t) EXCEPT !.pc = "finish", !.old = "RESOLVED"] \in Frame
    BY <2>1 DEF Frame, Pcs, States
  <2>3. StackOK'
    BY <1>0, <1>3, <2>1, <2>2, WithTopType DEF CommitStop, CommitState, StackOK
  <2>4. state' \in [Bundles -> States]
    BY <1>3, <2>1 DEF CommitStop, CommitState, TypeOK, States
  <2> QED
    BY <1>3, <2>3, <2>4
       DEF CommitStop, CommitState, TypeOK, StackOK, bundleVars, codeVars, mainVars
<1> QED
  BY <1>1, <1>2, <1>3 DEF StopStep

LEMMA TypeUninstall ==
    ASSUME TypeOK, NEW t \in Threads, UninstallStep(t)
    PROVE  TypeOK'
<1>0. StackOK
  BY DEF TypeOK, StackOK
<1>1. CASE UninstallBundle(t)
  <2>1. ~Idle(t) /\ Top(t).b \in Bundles
    BY <1>0, <1>1, AtFrame DEF UninstallBundle
  <2>2. StackOK' /\ failing' \subseteq Threads
    BY <1>0, <1>1, <2>1, GotoType, ThrowType DEF UninstallBundle, Pcs, TypeOK
  <2>3. extensions' \in [Bundles -> SUBSET Bundles]
    <3>1. extensions \in [Bundles -> SUBSET Bundles]
      BY DEF TypeOK
    <3> QED
      BY <1>1, <3>1 DEF UninstallBundle
  <2>4. code' \in [Bundles -> CodeStates]
    <3>1. code \in [Bundles -> CodeStates]
      BY DEF TypeOK
    <3>2. UNCHANGED code \/ code' = [code EXCEPT ![Top(t).b] = "none"]
      BY <1>1 DEF UninstallBundle
    <3> QED
      BY <2>1, <3>1, <3>2 DEF CodeStates
  <2>5. libs' \subseteq Bundles /\ loaded' \subseteq Bundles
    BY <1>1 DEF UninstallBundle, TypeOK
  <2> QED
    BY <1>1, <2>2, <2>3, <2>4, <2>5 DEF UninstallBundle, TypeOK, StackOK, mainVars
<1>2. CASE CommitUninstall(t)
  <2>1. StackOK'
    BY <1>0, <1>2, ReturnType, AtFrame DEF CommitUninstall
  <2>2. state' \in [Bundles -> States]
    BY <1>0, <1>2, AtFrame DEF CommitUninstall, TypeOK, States
  <2> QED
    BY <1>2, <2>1, <2>2 DEF CommitUninstall, TypeOK, StackOK, bundleVars, codeVars, mainVars
<1> QED
  BY <1>1, <1>2 DEF UninstallStep

LEMMA TypeContinue ==
    ASSUME TypeOK, ThrowersInCalls, NEW t \in Threads, Continue(t)
    PROVE  TypeOK'
<1>0. StackOK
  BY DEF TypeOK, StackOK
<1>1. CASE CheckState(t)
  <2>1. StackOK' /\ failing' \subseteq Threads
    BY <1>0, <1>1, AtFrame, GotoType, ThrowType DEF CheckState, Pcs, TypeOK
  <2> QED
    BY <1>1, <2>1 DEF CheckState, TypeOK, StackOK, bundleVars, codeVars, mainVars
<1>2. CASE FinishState(t)
  <2>1. ~Idle(t) /\ Top(t) \in Frame /\ Top(t).b \in Bundles
    BY <1>0, <1>2, AtFrame DEF FinishState
  <2>2. StackOK'
    BY <1>0, <1>2, <2>1, ReturnType DEF FinishState
  <2>3. state' \in [Bundles -> States]
    BY <1>2, <2>1 DEF FinishState, TypeOK, Frame
  <2> QED
    BY <1>2, <2>2, <2>3 DEF FinishState, TypeOK, StackOK, bundleVars, codeVars, mainVars
<1>3. CASE Unwind(t)
  <2>1. ~Idle(t) /\ Top(t) \in Frame
    BY <1>0, <1>3, TopIsFrame DEF Unwind, ThrowersInCalls
  <2>2. StackOK'
    BY <1>0, <1>3, <2>1, GotoType, ReturnType DEF Unwind, Pcs, Abandon
  <2>3. state' \in [Bundles -> States]
    BY <1>3, <2>1 DEF Unwind, TypeOK, Frame, Abandon
  <2>4. resolvedDeps' \in [Bundles -> Seq(Bundles)] /\ resolving' \subseteq Bundles
    <3>1. resolvedDeps \in [Bundles -> Seq(Bundles)] /\ resolving \subseteq Bundles
      BY DEF TypeOK
    <3>2. \/ UNCHANGED resolvedDeps
          \/ resolvedDeps' = [resolvedDeps EXCEPT ![Top(t).b] = <<>>]
      BY <1>3 DEF Unwind, Abandon
    <3>3. UNCHANGED resolving \/ resolving' = resolving \ {Top(t).b}
      BY <1>3 DEF Unwind, Abandon
    <3>4. resolvedDeps' \in [Bundles -> Seq(Bundles)]
      <4>1. CASE resolvedDeps' = [resolvedDeps EXCEPT ![Top(t).b] = <<>>]
        <5>1. <<>> \in Seq(Bundles)
          OBVIOUS
        <5> QED
          BY <3>1, <4>1, <5>1
      <4> QED
        BY <3>1, <3>2, <4>1
    <3> QED
      BY <3>1, <3>3, <3>4
  <2>5. failing' \subseteq Threads /\ phase' \in Phases
    BY <1>3 DEF Unwind, TypeOK, Phases
  <2> QED
    BY <1>3, <2>2, <2>3, <2>4, <2>5 DEF Unwind, TypeOK, StackOK, codeVars
<1> QED
  BY <1>1, <1>2, <1>3, TypeResolve, TypeStart, TypeStop, TypeUninstall DEF Continue

LEMMA TypeMain ==
    ASSUME TypeOK, MainStep \/ BeginShutdown
    PROVE  TypeOK'
<1> USE BundleAssumption
<1>0. StackOK /\ Main \in Threads
  BY DEF TypeOK, StackOK, Threads
<1>1. ASSUME NEW b \in Bundles, ResolveNext(b)
      PROVE  TypeOK'
  <2>1. StackOK'
    BY <1>0, <1>1, CallType DEF ResolveNext, Ops, StackOK
  <2> QED
    BY <1>1, <2>1 DEF ResolveNext, TypeOK, StackOK, bundleVars, codeVars
<1>2. ASSUME NEW b \in Bundles, StartNext(b)
      PROVE  TypeOK'
  <2>1. StackOK'
    BY <1>0, <1>2, CallType DEF StartNext, Ops, StackOK
  <2> QED
    BY <1>2, <2>1 DEF StartNext, TypeOK, StackOK, bundleVars, codeVars
<1>3. CASE EndResolveAll
  BY <1>3 DEF EndResolveAll, TypeOK, Phases, bundleVars, codeVars
<1>4. CASE EndStartAll
  BY <1>4 DEF EndStartAll, TypeOK, Phases, bundleVars, codeVars
<1>5. CASE SortBundles
  <2>1. order' \in Seq(Bundles)
    <3> DEFINE n == Cardinality(loaded)
    <3>1. n \in Nat
      BY FS_Subset, FS_CardinalityType DEF TypeOK
    <3>2. PICK s \in [1..n -> loaded]: order' = [k \in DOMAIN s |-> s[Len(s) + 1 - k]]
      BY <1>5 DEF SortBundles, SortedBundles, StopOrder
    <3> HIDE DEF n
    <3>3. s \in [1..n -> Bundles] /\ DOMAIN s = 1..n /\ Len(s) = n
      BY <3>1, SeqDef DEF TypeOK
    <3>4. \A k \in 1..n: s[n + 1 - k] \in Bundles
      BY <3>1, <3>3
    <3>5. order' \in [1..n -> Bundles]
      BY <3>2, <3>3, <3>4
    <3> QED
      BY <3>1, <3>5, SeqDef
  <2> QED
    BY <1>5, <2>1 DEF SortBundles, TypeOK, Phases, bundleVars, codeVars
<1>6. CASE StopNext
  <2>1. Head(order) \in Bundles /\ order' \in Seq(Bundles)
    BY <1>6 DEF StopNext, TypeOK
  <2>2. StackOK'
    BY <1>0, <1>6, <2>1, CallType DEF StopNext, Ops, StackOK
  <2> QED
    BY <1>6, <2>1, <2>2 DEF StopNext, TypeOK, StackOK, bundleVars, codeVars
<1>7. CASE EndStopAll
  BY <1>7 DEF EndStopAll, TypeOK, Phases, bundleVars, codeVars
<1>8. CASE BeginShutdown
  BY <1>8 DEF BeginShutdown, TypeOK, Phases, bundleVars, codeVars
<1> QED
  BY <1>1, <1>2, <1>3, <1>4, <1>5, <1>6, <1>7, <1>8 DEF MainStep

LEMMA TypeAdmin ==
    ASSUME TypeOK, NEW t \in Admins, AdminStep(t)
    PROVE  TypeOK'
<1>0. StackOK /\ t \in Threads
  BY DEF TypeOK, StackOK, Threads
<1>1. ASSUME NEW b \in Bundles, LoadBundle(t, b)
      PROVE  TypeOK'
  BY <1>1 DEF LoadBundle, TypeOK, States, codeVars, mainVars
<1>2. ASSUME NEW b \in Bundles, NEW op \in Ops, Request(t, op, b)
      PROVE  TypeOK'
  <2>1. StackOK'
    BY <1>0, <1>2, CallType DEF Request
  <2> QED
    BY <1>2, <2>1 DEF Request, TypeOK, StackOK, bundleVars, codeVars, mainVars
<1> QED
  BY <1>1, <1>2 DEF AdminStep

-----------------------------------------------------------------------------
(* Where frames of a set S occur in the stack of a thread *)

Occurs(t, S) == \E k \in DOMAIN stack[t]: stack[t][k] \in S
Below(t, S) == \E k \in 1..(Len(stack[t]) - 1): stack[t][k] \in S

LEMMA OccursTop ==
    ASSUME StackOK, NEW t \in Threads, NEW S, ~Idle(t)
    PROVE  Occurs(t, S) <=> Top(t) \in S \/ Below(t, S)
<1>1. Len(stack[t]) \in Nat \ {0} /\ DOMAIN stack[t] = 1..Len(stack[t])
  BY TopIsFrame DEF StackOK
<1> QED
  BY <1>1 DEF Occurs, Below, Top

LEMMA OccursWithTop ==
    ASSUME StackOK, NEW t \in Threads, NEW S, NEW f, ~Idle(t), stack' = WithTop(t, f)
    PROVE  /\ ~Idle(t)'
           /\ Occurs(t, S)' <=> f \in S \/ Below(t, S)
           /\ \A u \in Threads \ {t}: stack'[u] = stack[u]
<1> DEFINE n == Len(stack[t])
<1>1. n \in Nat \ {0} /\ DOMAIN stack[t] = 1..n
  BY TopIsFrame DEF StackOK
<1>2. stack'[t] = [stack[t] EXCEPT ![n] = f] /\ \A u \in Threads \ {t}: stack'[u] = stack[u]
  BY DEF WithTop, StackOK
<1>3. /\ DOMAIN stack'[t] = 1..n
      /\ stack'[t][n] = f
      /\ \A k \in 1..(n - 1): stack'[t][k] = stack[t][k]
  BY <1>1, <1>2
<1>4. stack'[t] # <<>>
  BY <1>1, <1>3
<1>5. Occurs(t, S)' <=> \E k \in 1..n: stack'[t][k] \in S
  BY <1>3 DEF Occurs
<1> HIDE DEF n
<1>6. (\E k \in 1..n: stack'[t][k] \in S) <=> f \in S \/ \E k \in 1..(n - 1): stack[t][k] \in S
  BY <1>1, <1>3
<1> QED
  BY <1>2, <1>4, <1>5, <1>6 DEF Below, Idle, n

LEMMA OccursReturn ==
    ASSUME StackOK, NEW t \in Threads, NEW S, ~Idle(t), Return(t)
    PROVE  /\ Len(stack[t]) # 1 => ~Idle(t)'
           /\ Occurs(t, S)' <=> Below(t, S)
           /\ \A u \in Threads \ {t}: stack'[u] = stack[u]
<1> DEFINE n == Len(stack[t])
<1>1. n \in Nat \ {0} /\ DOMAIN stack[t] = 1..n
  BY TopIsFrame DEF StackOK
<1>2. stack'[t] = SubSeq(stack[t], 1, n - 1) /\ \A u \in Threads \ {t}: stack'[u] = stack[u]
  BY DEF Return, StackOK
<1>3. /\ DOMAIN stack'[t] = 1..(n - 1)
      /\ Len(stack'[t]) = n - 1
      /\ \A k \in 1..(n - 1): stack'[t][k] = stack[t][k]
  BY <1>1, <1>2 DEF StackOK
<1>4. Occurs(t, S)' <=> Below(t, S)
  BY <1>1, <1>3 DEF Occurs, Below
<1>5. n # 1 => stack'[t] # <<>>
  <2> HIDE DEF n
  <2> QED
    BY <1>1, <1>3, EmptySeq
<1> QED
  BY <1>2, <1>4, <1>5 DEF Idle

LEMMA OccursAppend ==
    ASSUME NEW s \in Seq(Frame), NEW f \in Frame, NEW S
    PROVE  /\ Append(s, f) # <<>>
           /\ (\E k \in DOMAIN Append(s, f): Append(s, f)[k] \in S)
                  <=> f \in S \/ \E k \in DOMAIN s: s[k] \in S
<1> DEFINE n == Len(s)
           r == Append(s, f)
<1>1. /\ n \in Nat /\ DOMAIN s = 1..n /\ r \in Seq(Frame)
      /\ Len(r) = n + 1 /\ DOMAIN r = 1..(n + 1)
  OBVIOUS
<1>2. r[n + 1] = f /\ \A k \in 1..n: r[k] = s[k]
  OBVIOUS
<1>3. r # <<>>
  BY <1>1, EmptySeq
<1> HIDE DEF n, r
<1>4. (\E k \in 1..(n + 1): r[k] \in S) <=> f \in S \/ \E k \in 1..n: s[k] \in S
  BY <1>1, <1>2
<1> QED
  BY <1>1, <1>3, <1>4 DEF r

LEMMA OccursCall ==
    ASSUME StackOK, NEW t \in Threads, NEW S, NEW op \in Ops, NEW x \in Bundles,
           Call(t, op, x)
    PROVE  /\ ~Idle(t)'
           /\ Occurs(t, S)' <=> NewFrame(op, x) \in S \/ Occurs(t, S)
           /\ \A u \in Threads \ {t}: stack'[u] = stack[u]
<1>1. /\ stack'[t] = Append(stack[t], NewFrame(op, x))
      /\ \A u \in Threads \ {t}: stack'[u] = stack[u]
  BY DEF Call, StackOK
<1>2. stack[t] \in Seq(Frame)
  BY DEF StackOK
<1> QED
  BY <1>1, <1>2, NewFrameType, OccursAppend DEF Occurs, Idle

-----------------------------------------------------------------------------
(* What a step of a thread that is inside a call does to the call stacks *)

LoaderFrames == {f \in Frame: InLoader(f)}
DepsFrames(x) == {f \in Frame: f.op = "resolve" /\ f.b = x /\ f.pc = "deps"}

\* t changes its own stack only, throws only in a call, comes to be inside the
\* loader only when the mutex is free, and agrees with the marks in resolving.
StackStep(t) ==
    /\ \A u \in Threads \ {t}: stack'[u] = stack[u]
    /\ failing' \subseteq failing \cup {t}
    /\ t \in failing' => ~Idle(t)'
    /\ Occurs(t, LoaderFrames)' => Occurs(t, LoaderFrames) \/ LockFree(t)
    /\ \A x \in resolving':
          x \notin resolving \/ Occurs(t, DepsFrames(x)) => Occurs(t, DepsFrames(x))'

LEMMA GotoStep ==
    ASSUME StackOK, NEW t \in Threads, ~Idle(t), t \notin failing, UNCHANGED <<failing, resolving>>,
           NEW f \in Frame, stack' = WithTop(t, f),
           InLoader(f) => InLoader(Top(t)) \/ LockFree(t),
           \A x: Top(t) \in DepsFrames(x) => f \in DepsFrames(x)
    PROVE  StackStep(t)
<1>1. Top(t) \in Frame
  BY TopIsFrame
<1>2. Occurs(t, LoaderFrames)' => Occurs(t, LoaderFrames) \/ LockFree(t)
  BY <1>1, OccursTop, OccursWithTop DEF LoaderFrames
<1>3. \A x \in resolving: Occurs(t, DepsFrames(x)) => Occurs(t, DepsFrames(x))'
  BY OccursTop, OccursWithTop
<1> QED
  BY <1>2, <1>3, OccursWithTop DEF StackStep

LEMMA ThrowStep ==
    ASSUME NEW t \in Threads, ~Idle(t), Throw(t), UNCHANGED resolving
    PROVE  StackStep(t)
BY DEF Throw, StackStep, Idle, Occurs

LEMMA CallStep ==
    ASSUME StackOK, NEW t \in Threads, t \notin failing, UNCHANGED <<failing, resolving>>,
           NEW op \in Ops, NEW x \in Bundles, Call(t, op, x)
    PROVE  StackStep(t)
<1>1. NewFrame(op, x) \notin LoaderFrames
  BY DEF NewFrame, LoaderFrames, InLoader
<1>2. \A y: Occurs(t, DepsFrames(y)) => Occurs(t, DepsFrames(y))'
  BY OccursCall
<1> QED
  BY <1>1, <1>2, OccursCall DEF StackStep

LEMMA ReturnStep ==
    ASSUME StackOK, NEW t \in Threads, ~Idle(t), Return(t), failing' \subseteq failing,
           resolving' \subseteq resolving,
           t \in failing' => Len(stack[t]) # 1,
           \A x \in resolving': Top(t) \notin DepsFrames(x)
    PROVE  StackStep(t)
<1>1. \A S: Occurs(t, S)' => Occurs(t, S)
  BY OccursTop, OccursReturn
<1>2. \A x \in resolving': Occurs(t, DepsFrames(x)) => Occurs(t, DepsFrames(x))'
  BY OccursTop, OccursReturn
<1> QED
  BY <1>1, <1>2, OccursReturn DEF StackStep

\* Goto, for the program points a call goes through.
LEMMA GotoPcStep ==
    ASSUME StackOK, NEW t \in Threads, ~Idle(t), t \notin failing, UNCHANGED <<failing, resolving>>,
           NEW pc \in Pcs, Goto(t, pc),
           InLoader([pc |-> pc]) => InLoader(Top(t)) \/ LockFree(t),
           Top(t).op = "resolve" => Top(t).pc # "deps"
    PROVE  StackStep(t)
<1> DEFINE f == [Top(t) EXCEPT !.pc = pc]
<1>1. f \in Frame /\ f.pc = pc
  BY TopIsFrame DEF Frame
<1>2. InLoader(f) => InLoader(Top(t)) \/ LockFree(t)
  BY <1>1 DEF InLoader
<1>3. \A x: Top(t) \notin DepsFrames(x)
  BY DEF DepsFrames
<1> QED
  BY <1>1, <1>2, <1>3, GotoStep DEF Goto

LEMMA ContinueStackStep ==
    ASSUME TypeOK, ThrowersInCalls, NEW t \in Threads, Continue(t)
    PROVE  StackStep(t)
<1>0. StackOK
  BY DEF TypeOK, StackOK
<1>1. CASE CheckState(t)
  BY <1>0, <1>1, AtFrame, GotoPcStep, ThrowStep DEF CheckState, Pcs, InLoader, bundleVars
<1>2. CASE ClearDependencies(t)
  BY <1>0, <1>2, AtFrame, GotoPcStep, ThrowStep DEF ClearDependencies, Pcs, InLoader
<1>3. CASE EnterStart(t)
  BY <1>0, <1>3, AtFrame, GotoPcStep, ThrowStep DEF EnterStart, Pcs, InLoader, bundleVars
<1>4. CASE InstallLibraries(t)
  BY <1>0, <1>4, AtFrame, GotoPcStep, ThrowStep DEF InstallLibraries, Pcs, InLoader, bundleVars
<1>5. CASE LoadActivator(t)
  BY <1>0, <1>5, AtFrame, GotoPcStep, ThrowStep DEF LoadActivator, Pcs, InLoader, bundleVars
<1>6. CASE InvokeStart(t)
  BY <1>0, <1>6, AtFrame, GotoPcStep, ThrowStep DEF InvokeStart, Pcs, InLoader, bundleVars
<1>7. CASE StopActivator(t)
  BY <1>0, <1>7, AtFrame, GotoPcStep, ThrowStep DEF StopActivator, Pcs, InLoader, bundleVars
<1>8. CASE UninstallBundle(t)
  BY <1>0, <1>8, AtFrame, GotoPcStep, ThrowStep DEF UninstallBundle, Pcs, InLoader
<1>9. CASE EnterResolve(t)
  <2>1. CASE Throw(t) /\ UNCHANGED resolving
    BY <1>0, <1>9, <2>1, AtFrame, ThrowStep DEF EnterResolve
  <2>2. CASE resolving' = resolving \cup {Top(t).b} /\ Goto(t, "deps") /\ UNCHANGED failing
    <3> DEFINE f == [Top(t) EXCEPT !.pc = "deps"]
    <3>1. ~Idle(t) /\ Top(t) \in Frame /\ Top(t).pc = "enter" /\ Top(t).op = "resolve" /\ t \notin failing
      BY <1>0, <1>9, AtFrame DEF EnterResolve
    <3>2. f \in Frame /\ f \in DepsFrames(Top(t).b)
      BY <3>1 DEF DepsFrames, Frame, Pcs
    <3>3. LockFree(t)
      BY <1>9 DEF EnterResolve
    <3>4. \A x: Top(t) \notin DepsFrames(x)
      BY <3>1 DEF DepsFrames
    <3>5. stack' = WithTop(t, f)
      BY <2>2 DEF Goto
    <3> HIDE DEF f
    <3>6. \A x: Occurs(t, DepsFrames(x)) => Occurs(t, DepsFrames(x))'
      BY <1>0, <3>1, <3>4, <3>5, OccursTop, OccursWithTop
    <3>7. PICK b: b = Top(t).b
      OBVIOUS
    <3>8. Occurs(t, DepsFrames(b))'
      BY <1>0, <3>1, <3>2, <3>5, <3>7, OccursWithTop
    <3> QED
      BY <1>0, <2>2, <3>1, <3>3, <3>5, <3>6, <3>7, <3>8, OccursWithTop DEF StackStep
  <2> QED
    BY <1>9, <2>1, <2>2 DEF EnterResolve
<1>10. CASE ResolveDependency(t)
  <2> DEFINE f == Top(t)
             d == Required(t)[f.i]
  <2>1. ~Idle(t) /\ f \in Frame /\ f.b \in Bundles /\ f.op = "resolve" /\ f.pc = "deps" /\ t \notin failing
    BY <1>0, <1>10, AtFrame DEF ResolveDependency
  <2>2. CASE stack' = WithTop(t, [f EXCEPT !.i = @ + 1]) /\ UNCHANGED failing
    <3> DEFINE g == [f EXCEPT !.i = @ + 1]
    <3>1. g \in Frame /\ g.pc = f.pc /\ g.b = f.b /\ g.op = f.op
      BY <2>1 DEF Frame
    <3>2. InLoader(f)
      BY <2>1 DEF InLoader
    <3>3. \A x: f \in DepsFrames(x) => g \in DepsFrames(x)
      BY <3>1 DEF DepsFrames
    <3> QED
      BY <1>0, <1>10, <2>1, <2>2, <3>1, <3>2, <3>3, GotoStep DEF ResolveDependency
  <2>3. CASE d \in loaded /\ Call(t, "resolve", d) /\ UNCHANGED <<resolvedDeps, failing>>
    BY <1>0, <1>10, <2>1, <2>3, CallStep DEF ResolveDependency, Ops, TypeOK
  <2>4. CASE Throw(t)
    BY <1>10, <2>1, <2>4, ThrowStep DEF ResolveDependency
  <2> QED
    BY <1>10, <2>2, <2>3, <2>4 DEF ResolveDependency, Usable
<1>11. CASE EndDependencies(t)
  <2> DEFINE f == [Top(t) EXCEPT !.pc = "libraries"]
  <2>1. ~Idle(t) /\ Top(t) \in Frame /\ Top(t).pc = "deps" /\ t \notin failing
    BY <1>0, <1>11, AtFrame DEF EndDependencies
  <2>2. stack' = WithTop(t, f) /\ resolving' = resolving \ {Top(t).b} /\ UNCHANGED failing
    BY <1>11 DEF EndDependencies, Goto
  <2>3. Top(t) \in LoaderFrames
    BY <2>1 DEF LoaderFrames, InLoader
  <2>4. \A x \in resolving': Top(t) \notin DepsFrames(x)
    BY <2>2 DEF DepsFrames
  <2> HIDE DEF f
  <2>5. \A x \in resolving': Occurs(t, DepsFrames(x)) => Occurs(t, DepsFrames(x))'
    BY <1>0, <2>1, <2>2, <2>4, OccursTop, OccursWithTop
  <2> QED
    BY <1>0, <2>1, <2>2, <2>3, <2>5, OccursTop, OccursWithTop DEF StackStep
<1>12. CASE ExtendBundle(t)
  <2> DEFINE x == manifest.extends[Top(t).b]
  <2>1. ~Idle(t) /\ Top(t).pc = "extend" /\ t \notin failing /\ UNCHANGED resolving
    BY <1>0, <1>12, AtFrame DEF ExtendBundle
  <2>2. CASE Goto(t, "commit") /\ UNCHANGED failing
    BY <1>0, <2>1, <2>2, GotoPcStep DEF InLoader, Pcs
  <2>3. CASE x \in loaded /\ Call(t, "resolve", x) /\ UNCHANGED failing
    BY <1>0, <2>1, <2>3, CallStep DEF Ops, TypeOK
  <2>4. CASE Throw(t)
    BY <2>1, <2>4, ThrowStep
  <2> QED
    BY <1>12, <2>2, <2>3, <2>4 DEF ExtendBundle
<1>13. CASE CommitResolve(t)
  <2>1. ~Idle(t) /\ t \notin failing /\ Top(t).pc # "deps" /\ Return(t) /\ UNCHANGED <<failing, resolving>>
    BY <1>0, <1>13, AtFrame DEF CommitResolve, bundleVars
  <2> QED
    BY <1>0, <2>1, ReturnStep DEF DepsFrames
<1>14. CASE CommitUninstall(t)
  <2>1. ~Idle(t) /\ t \notin failing /\ Top(t).pc # "deps" /\ Return(t) /\ UNCHANGED <<failing, resolving>>
    BY <1>0, <1>14, AtFrame DEF CommitUninstall, bundleVars
  <2> QED
    BY <1>0, <2>1, ReturnStep DEF DepsFrames
<1>15. CASE FinishState(t)
  <2>1. ~Idle(t) /\ t \notin failing /\ Top(t).pc # "deps" /\ Return(t) /\ UNCHANGED <<failing, resolving>>
    BY <1>0, <1>15, AtFrame DEF FinishState, bundleVars
  <2> QED
    BY <1>0, <2>1, ReturnStep DEF DepsFrames
<1>16. ASSUME NEW op \in {"start", "stop"}, NEW new, SetState(t, op, new)
      PROVE  StackStep(t)
  <2> DEFINE f == [Top(t) EXCEPT !.pc = "enter", !.old = state[Top(t).b]]
  <2>1. ~Idle(t) /\ Top(t) \in Frame /\ Top(t).b \in Bundles /\ Top(t).op = op /\ t \notin failing
    BY <1>0, <1>16, AtFrame DEF SetState
  <2>2. f \in Frame /\ ~InLoader(f)
    BY <2>1 DEF Frame, Pcs, TypeOK, InLoader
  <2>3. \A x: Top(t) \notin DepsFrames(x)
    BY <2>1 DEF DepsFrames
  <2> QED
    BY <1>0, <1>16, <2>1, <2>2, <2>3, GotoStep DEF SetState, bundleVars
<1>17. ASSUME NEW op \in {"start", "stop"}, NEW new \in States, CommitState(t, op, new)
      PROVE  StackStep(t)
  <2> DEFINE f == [Top(t) EXCEPT !.pc = "finish", !.old = new]
  <2>1. ~Idle(t) /\ Top(t) \in Frame /\ Top(t).op = op /\ t \notin failing
    BY <1>0, <1>17, AtFrame DEF CommitState
  <2>2. f \in Frame /\ ~InLoader(f)
    BY <2>1 DEF Frame, Pcs, InLoader
  <2>3. \A x: Top(t) \notin DepsFrames(x)
    BY <2>1 DEF DepsFrames
  <2> QED
    BY <1>0, <1>17, <2>1, <2>2, <2>3, GotoStep DEF CommitState, bundleVars
<1>18. CASE StartDependency(t)
  <2> DEFINE f == Top(t)
             d == resolvedDeps[f.b][f.i]
             g == [f EXCEPT !.i = @ + 1]
             next == WithTop(t, g)
  <2>1. ~Idle(t) /\ f \in Frame /\ f.op = "start" /\ f.pc = "deps" /\ t \notin failing /\ UNCHANGED resolving
    BY <1>0, <1>18, AtFrame DEF StartDependency, bundleVars
  <2>2. g \in Frame
    BY <2>1 DEF Frame
  <2>3. f \in LoaderFrames
    BY <2>1 DEF LoaderFrames, InLoader
  <2>4. \A x: f \notin DepsFrames(x)
    BY <2>1 DEF DepsFrames
  <2>5. CASE stack' = next /\ UNCHANGED failing
    <3>1. InLoader(f)
      BY <2>3 DEF LoaderFrames
    <3> QED
      BY <1>0, <2>1, <2>2, <2>4, <2>5, <3>1, GotoStep
  <2>6. CASE d \in loaded /\ UNCHANGED failing
             /\ stack' = [next EXCEPT ![t] = Append(@, NewFrame("start", d))]
    <3> DEFINE s == [stack[t] EXCEPT ![Len(stack[t])] = g]
    <3>1. next[t] = s /\ \A u \in Threads \ {t}: next[u] = stack[u]
      BY <1>0 DEF WithTop, StackOK
    <3>2. next \in [Threads -> Seq(Frame)]
      BY <1>0, <2>1, <2>2, WithTopType
    <3> HIDE DEF next, s
    <3>3. d \in Bundles
      BY <2>6 DEF TypeOK
    <3>4. s \in Seq(Frame) /\ NewFrame("start", d) \in Frame
      BY <3>1, <3>2, <3>3, NewFrameType DEF Ops
    <3>5. stack'[t] = Append(s, NewFrame("start", d)) /\ \A u \in Threads \ {t}: stack'[u] = stack[u]
      BY <2>6, <3>1, <3>2
    <3>6. \A x: Occurs(t, DepsFrames(x)) => Occurs(t, DepsFrames(x))'
      <4> SUFFICES ASSUME NEW x, Occurs(t, DepsFrames(x)) PROVE Occurs(t, DepsFrames(x))'
        OBVIOUS
      <4>1. \E k \in 1..(Len(stack[t]) - 1): stack[t][k] \in DepsFrames(x)
        BY <1>0, <2>1, <2>4, OccursTop DEF Below
      <4>2. \E k \in DOMAIN s: s[k] \in DepsFrames(x)
        BY <1>0, <2>1, <4>1, TopIsFrame DEF s, StackOK
      <4> QED
        BY <3>5, <3>4, <4>2, OccursAppend DEF Occurs
    <3>7. Occurs(t, LoaderFrames)
      BY <1>0, <2>1, <2>3, OccursTop
    <3>8. ~Idle(t)'
      BY <3>5, <3>4, OccursAppend DEF Idle
    <3> QED
      BY <2>1, <2>6, <3>5, <3>6, <3>7, <3>8 DEF StackStep
  <2>7. CASE Throw(t)
    BY <2>1, <2>7, ThrowStep
  <2> QED
    BY <1>18, <2>5, <2>6, <2>7 DEF StartDependency
<1>19. CASE Unwind(t)
  <2> DEFINE f == Top(t)
  <2>1. ~Idle(t) /\ t \in failing /\ f \in Frame
    BY <1>0, <1>19, TopIsFrame DEF Unwind, ThrowersInCalls
  <2>2. CASE f.op = "start" /\ Goto(t, "failed") /\ UNCHANGED <<resolving, failing>>
    <3> DEFINE g == [f EXCEPT !.pc = "failed"]
    <3>1. g \in Frame /\ g \notin LoaderFrames
      BY <2>1 DEF Frame, Pcs, LoaderFrames, InLoader
    <3>2. \A x: f \notin DepsFrames(x)
      BY <2>2 DEF DepsFrames
    <3>3. stack' = WithTop(t, g)
      BY <2>2 DEF Goto
    <3> HIDE DEF g
    <3>4. \A x: Occurs(t, DepsFrames(x)) => Occurs(t, DepsFrames(x))'
      BY <1>0, <2>1, <3>2, <3>3, OccursTop, OccursWithTop
    <3> QED
      BY <1>0, <2>1, <2>2, <3>1, <3>3, <3>4, OccursTop, OccursWithTop DEF StackStep
  <2>3. CASE Return(t) /\ ~(f.op = "start" /\ f.pc \in {"enter", "deps", "invoke"})
    <3>1. failing' \subseteq failing /\ (t \in failing' => Len(stack[t]) # 1)
      BY <1>19, <2>3 DEF Unwind, Abandon
    <3>2. resolving' \subseteq resolving /\ \A x \in resolving': f \notin DepsFrames(x)
      BY <1>19, <2>3 DEF Unwind, DepsFrames, Abandon
    <3> QED
      BY <1>0, <2>1, <2>3, <3>1, <3>2, ReturnStep
  <2> QED
    BY <1>19, <2>2, <2>3 DEF Unwind
<1> QED
  BY <1>1, <1>2, <1>3, <1>4, <1>5, <1>6, <1>7, <1>8, <1>9, <1>10, <1>11, <1>12, <1>13, <1>14, <1>15, <1>16, <1>17, <1>18, <1>19
     DEF Continue, ResolveStep, StartStep, StopStep, UninstallStep, SetStarting,
         SetStopping, CommitStart, CommitStop, States

LEMMA UnchangedStep ==
    ASSUME ThrowersInCalls, NEW t \in Threads, UNCHANGED <<stack, failing, resolving>>
    PROVE  StackStep(t)
BY DEF StackStep, ThrowersInCalls, Idle, Occurs

LEMMA NextStackStep ==
    ASSUME TypeOK, ThrowersInCalls, Next \/ UNCHANGED vars
    PROVE  /\ \E t \in Threads: StackStep(t)
           /\ phase' = "resolving" => phase = "resolving"
<1>0. StackOK /\ Main \in Threads /\ Admins \subseteq Threads
  BY DEF TypeOK, StackOK, Threads
<1>1. CASE \E t \in Threads: Continue(t)
  <2>1. phase' = "resolving" => phase = "resolving"
    BY <1>1
       DEF Continue, CheckState, ResolveStep, ClearDependencies, EnterResolve,
           ResolveDependency, EndDependencies, InstallLibraries, ExtendBundle,
           CommitResolve, StartStep, SetStarting, SetState, EnterStart, StartDependency,
           LoadActivator, InvokeStart, CommitStart, CommitState, StopStep, SetStopping,
           StopActivator, CommitStop, FinishState, UninstallStep, UninstallBundle,
           CommitUninstall, Unwind, mainVars
  <2> QED
    BY <1>1, <2>1, ContinueStackStep
<1>2. CASE UNCHANGED vars
  BY <1>0, <1>2, UnchangedStep DEF vars, bundleVars, mainVars
<1>3. ASSUME NEW b \in Bundles, ResolveNext(b)
      PROVE  StackStep(Main) /\ UNCHANGED phase
  <2>1. UNCHANGED <<failing, resolving, phase>> /\ Main \notin failing
    BY <1>3 DEF ResolveNext, MainIdle, bundleVars
  <2> QED
    BY <1>0, <1>3, <2>1, CallStep, UnchangedStep DEF ResolveNext, Ops
<1>4. ASSUME NEW b \in Bundles, StartNext(b)
      PROVE  StackStep(Main) /\ UNCHANGED phase
  <2>1. UNCHANGED <<failing, resolving, phase>> /\ Main \notin failing
    BY <1>4 DEF StartNext, MainIdle, bundleVars
  <2> QED
    BY <1>0, <1>4, <2>1, CallStep, UnchangedStep DEF StartNext, Ops
<1>5. CASE StopNext
  <2>1. UNCHANGED <<failing, resolving, phase>> /\ Main \notin failing
    BY <1>5 DEF StopNext, MainIdle, bundleVars
  <2>2. Head(order) \in Bundles
    BY <1>5 DEF StopNext, TypeOK
  <2> QED
    BY <1>0, <1>5, <2>1, <2>2, CallStep, UnchangedStep DEF StopNext, Ops
<1>6. CASE EndResolveAll \/ EndStartAll \/ SortBundles \/ EndStopAll \/ BeginShutdown
  <2>1. UNCHANGED <<stack, failing, resolving>>
    BY <1>6 DEF EndResolveAll, EndStartAll, SortBundles, EndStopAll, BeginShutdown, bundleVars
  <2>2. phase' # "resolving"
    BY <1>6 DEF EndResolveAll, EndStartAll, SortBundles, EndStopAll, BeginShutdown
  <2> QED
    BY <1>0, <2>1, <2>2, UnchangedStep
<1>7. ASSUME NEW t \in Admins, NEW b \in Bundles, LoadBundle(t, b)
      PROVE  StackStep(t) /\ UNCHANGED phase
  BY <1>0, <1>7, UnchangedStep DEF LoadBundle, mainVars
<1>8. ASSUME NEW t \in Admins, NEW b \in Bundles, NEW op \in Ops, Request(t, op, b)
      PROVE  StackStep(t) /\ UNCHANGED phase
  <2>1. t \notin failing
    BY <1>8 DEF Request, MayRequest, ThrowersInCalls
  <2> QED
    BY <1>0, <1>8, <2>1, CallStep DEF Request, bundleVars, mainVars
<1> QED
  BY <1>0, <1>1, <1>2, <1>3, <1>4, <1>5, <1>6, <1>7, <1>8 DEF Next, MainStep, AdminStep

LEMMA ThrowersStep ==
    ASSUME TypeOK, ThrowersInCalls, Next \/ UNCHANGED vars
    PROVE  ThrowersInCalls'
<1>1. PICK t \in Threads: StackStep(t)
  BY NextStackStep
<1> QED
  BY <1>1 DEF StackStep, ThrowersInCalls, Idle, TypeOK

-----------------------------------------------------------------------------
(* The theorems *)

TypeInv == TypeOK /\ ThrowersInCalls

LEMMA TypeInvariance == Spec => []TypeInv
<1>1. Init => TypeInv
  BY TypeInit DEF Init, TypeInv, ThrowersInCalls
<1>2. TypeInv /\ [Next]_vars => TypeInv'
  <2> SUFFICES ASSUME TypeInv, Next \/ UNCHANGED vars PROVE TypeInv'
    BY DEF vars
  <2>1. TypeOK /\ ThrowersInCalls
    BY DEF TypeInv
  <2>2. ThrowersInCalls'
    BY <2>1, ThrowersStep
  <2>3. CASE UNCHANGED vars
    BY <2>1, <2>2, <2>3 DEF TypeInv, TypeOK, vars, bundleVars, codeVars, mainVars
  <2>4. CASE Next
    BY <2>1, <2>2, <2>4, TypeContinue, TypeMain, TypeAdmin DEF TypeInv, Next
  <2> QED
    BY <2>3, <2>4
<1> QED
  BY <1>1, <1>2, PTL DEF Spec

\* Every variable of the loader keeps its type, whatever fails and however the
\* calls of the threads interleave.
THEOREM TypeCorrect == Spec => []TypeOK
BY TypeInvariance, PTL DEF TypeInv

\* The program point that holds the mutex is in a frame of the stack, or the main
\* thread is in resolveAllBundles().
LEMMA HoldsLockOccurs ==
    ASSUME StackOK, NEW t \in Threads
    PROVE  HoldsLock(t) <=> (Occurs(t, LoaderFrames) \/ (t = Main /\ phase = "resolving"))
<1>1. stack[t] \in Seq(Frame)
  BY DEF StackOK
<1>2. \A k \in DOMAIN stack[t]: stack[t][k] \in Frame
  BY <1>1
<1>3. (\E k \in DOMAIN stack[t]: InLoader(stack[t][k])) <=> Occurs(t, LoaderFrames)
  BY <1>2 DEF Occurs, LoaderFrames
<1> QED
  BY <1>3 DEF HoldsLock

\* The mutex of BundleLoader keeps every thread but one out of the loader:
\* resolveAllBundles(), and any resolve() or start() with all the recursive calls
\* and the activators in it.
THEOREM MutualExclusion == Spec => []OneThreadInLoader
<1>1. Init => OneThreadInLoader
  BY DEF Init, OneThreadInLoader, HoldsLock, InLoader, Threads
<1>2. TypeInv /\ TypeInv' /\ OneThreadInLoader /\ [Next]_vars => OneThreadInLoader'
  <2> SUFFICES ASSUME TypeInv, TypeInv', OneThreadInLoader, Next \/ UNCHANGED vars
               PROVE  OneThreadInLoader'
    BY DEF vars
  <2>1. PICK t \in Threads: StackStep(t)
    BY NextStackStep DEF TypeInv
  <2>2. phase' = "resolving" => phase = "resolving"
    BY NextStackStep DEF TypeInv
  <2>3. \A u \in Threads:
           HoldsLock(u)' => (Occurs(u, LoaderFrames)' \/ (u = Main /\ phase' = "resolving"))
    <3>1. \A u \in Threads: stack'[u] \in Seq(Frame)
      BY DEF TypeInv, TypeOK
    <3>2. \A u \in Threads: \A k \in DOMAIN stack'[u]: stack'[u][k] \in Frame
      BY <3>1
    <3> QED
      BY <3>2 DEF HoldsLock, Occurs, LoaderFrames, InLoader
  <2>4. \A u \in Threads:
           (Occurs(u, LoaderFrames) \/ (u = Main /\ phase = "resolving")) => HoldsLock(u)
    BY HoldsLockOccurs DEF TypeInv, TypeOK, StackOK
  <2>5. \A u \in Threads \ {t}: HoldsLock(u)' => HoldsLock(u)
    BY <2>1, <2>2, <2>3, <2>4 DEF StackStep, Occurs
  <2>6. HoldsLock(t)' => HoldsLock(t) \/ LockFree(t)
    BY <2>1, <2>2, <2>3, <2>4 DEF StackStep
  <2> QED
    BY <2>5, <2>6 DEF OneThreadInLoader, LockFree
<1> QED
  BY <1>1, <1>2, TypeInvariance, PTL DEF Spec

\* A bundle marked in BundleLoader::_resolvingBundles is one whose dependencies
\* some thread is resolving: every way out of the loop, the circular reference and
\* the exception of a nested resolve() included, takes the mark away.
THEOREM NoMarkLeftBehind == Spec => []ResolvingIsOnStack
<1> DEFINE Marked == \A x \in resolving: \E t \in Threads: Occurs(t, DepsFrames(x))
<1>1. Init => Marked
  BY DEF Init
<1>2. TypeInv /\ Marked /\ [Next]_vars => Marked'
  <2> SUFFICES ASSUME TypeInv, Marked, Next \/ UNCHANGED vars, NEW x \in resolving'
               PROVE  \E u \in Threads: Occurs(u, DepsFrames(x))'
    BY DEF vars
  <2>1. PICK t \in Threads: StackStep(t)
    BY NextStackStep DEF TypeInv
  <2>2. CASE x \notin resolving \/ Occurs(t, DepsFrames(x))
    BY <2>1, <2>2 DEF StackStep
  <2>3. CASE x \in resolving /\ ~Occurs(t, DepsFrames(x))
    BY <2>1, <2>3 DEF StackStep, Occurs
  <2> QED
    BY <2>2, <2>3
<1>3. Marked => ResolvingIsOnStack
  BY DEF ResolvingIsOnStack, Occurs, DepsFrames
<1> QED
  BY <1>1, <1>2, <1>3, TypeInvariance, PTL DEF Spec
=============================================================================

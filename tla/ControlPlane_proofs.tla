------------------------ MODULE ControlPlane_proofs ------------------------
(***************************************************************************)
(* Proofs about ControlPlane: its types, that registration is all or       *)
(* nothing, that no module executes below its risk tier, and that the log  *)
(* tells the truth.  The last is about what a recursive function reads in  *)
(* a log, by induction over the number of events.                          *)
(***************************************************************************)
EXTENDS ControlPlane, SequenceTheorems, WellFoundedInduction, TLAPS

Frames == [request : Requests, stage : Stages]

\* What the stage of a dispatch says about its request.  A capability that
\* was resolved stays resolved, for modules register between dispatches.
Resolved(f) == f.stage \in {"validated", "refused", "passed", "started"}
               => f.request.capability \in DOMAIN owner
Allowed(f) == f.stage \in {"passed", "started"} =>
  f.request.tier >= Descriptor[byId[owner[f.request.capability]]].tier

StackInv == \A k \in DOMAIN stack : Resolved(stack[k]) /\ Allowed(stack[k])

IInv == TypeOK /\ OwnershipIsExact /\ StackInv

-----------------------------------------------------------------------------
(* Sequences *)

LEMMA FrontFacts ==
  ASSUME NEW S, NEW s \in Seq(S), s # <<>>
  PROVE  /\ Front(s) \in Seq(S)
         /\ Len(Front(s)) = Len(s) - 1
         /\ \A k \in 1..Len(s)-1 : Front(s)[k] = s[k]
         /\ Last(s) \in S /\ Last(s) = s[Len(s)] /\ Len(s) \in DOMAIN s
<1>1. Len(s) \in Nat /\ Len(s) >= 1 /\ DOMAIN s = 1..Len(s)
  BY EmptySeq, LenProperties
<1>2. \A k \in 1..Len(s) : s[k] \in S
  BY <1>1, ElementOfSeq
<1>3. /\ SubSeq(s, 1, Len(s)-1) \in Seq(S)
      /\ Len(SubSeq(s, 1, Len(s)-1)) = Len(s) - 1
      /\ \A k \in 1..Len(s)-1 : SubSeq(s, 1, Len(s)-1)[k] = s[k]
  BY <1>1, <1>2, SubSeqProperties
<1>4. Last(s) = s[Len(s)] /\ Front(s) = SubSeq(s, 1, Len(s)-1)
  BY DEF Front, Last
<1> QED
  BY <1>1, <1>2, <1>3, <1>4

LEMMA AppendedFacts ==
  ASSUME NEW S, NEW f \in Seq(S), NEW x \in S
  PROVE  /\ f \o <<x>> \in Seq(S)
         /\ Len(f \o <<x>>) = Len(f) + 1
         /\ \A k \in 1..Len(f) : (f \o <<x>>)[k] = f[k]
         /\ (f \o <<x>>)[Len(f) + 1] = x
OBVIOUS

LEMMA ReplaceLastFacts ==
  ASSUME NEW S, NEW s \in Seq(S), s # <<>>, NEW x \in S
  PROVE  /\ Front(s) \o <<x>> \in Seq(S)
         /\ Len(Front(s) \o <<x>>) = Len(s)
         /\ \A k \in 1..Len(s)-1 : (Front(s) \o <<x>>)[k] = s[k]
         /\ (Front(s) \o <<x>>)[Len(s)] = x
<1>1. /\ Front(s) \in Seq(S) /\ Len(Front(s)) = Len(s) - 1
      /\ \A k \in 1..Len(s)-1 : Front(s)[k] = s[k]
  BY FrontFacts
<1>2. Len(s) \in Nat
  OBVIOUS
<1> HIDE DEF Front
<1> QED
  BY <1>1, <1>2, AppendedFacts

-----------------------------------------------------------------------------
(* The registry *)

LEMMA RegistryStep ==
  ASSUME IInv, NEW m \in Modules, RegisterModule(m)
  PROVE  /\ \A i \in DOMAIN byId' : byId'[i] \in Modules /\ Descriptor[byId'[i]].id = i
         /\ (DOMAIN owner)' \subseteq Capabilities
         /\ OwnershipIsExact'
<1> DEFINE d == Descriptor[m]
<1>1. /\ d.id \notin DOMAIN byId /\ NoCapability \notin d.capabilities
      /\ d.capabilities \intersect DOMAIN owner = {}
      /\ byId' = [i \in DOMAIN byId \union {d.id} |-> IF i \in DOMAIN byId THEN byId[i] ELSE m]
      /\ owner' = [c \in DOMAIN owner \union d.capabilities |->
                     IF c \in DOMAIN owner THEN owner[c] ELSE d.id]
  BY DEF RegisterModule, Registrable
<1>2. d.capabilities \subseteq Capabilities
  BY <1>1, ControlPlaneAssumption
<1>3. /\ \A i \in DOMAIN byId : byId[i] \in Modules /\ Descriptor[byId[i]].id = i
      /\ DOMAIN owner \subseteq Capabilities
      /\ \A c \in DOMAIN owner :
            owner[c] \in DOMAIN byId /\ c \in Descriptor[byId[owner[c]]].capabilities
      /\ \A i \in DOMAIN byId : \A c \in Descriptor[byId[i]].capabilities :
            c \in DOMAIN owner /\ owner[c] = i
  BY DEF IInv, TypeOK, OwnershipIsExact
<1>4. \A i \in DOMAIN byId' : byId'[i] \in Modules /\ Descriptor[byId'[i]].id = i
  BY <1>1, <1>3
<1>5. (DOMAIN owner)' \subseteq Capabilities
  BY <1>1, <1>2, <1>3
<1>6. \A c \in DOMAIN owner' :
        owner'[c] \in DOMAIN byId' /\ c \in Descriptor[byId'[owner'[c]]].capabilities
  BY <1>1, <1>3
<1>7. ASSUME NEW i \in DOMAIN byId', NEW c \in Descriptor[byId'[i]].capabilities
      PROVE  c \in DOMAIN owner' /\ owner'[c] = i
  <2>1. CASE i \in DOMAIN byId
    BY <1>1, <1>3, <1>7, <2>1
  <2>2. CASE i = d.id
    <3>1. byId'[i] = m
      BY <1>1, <2>2
    <3> QED
      BY <1>1, <1>7, <2>2, <3>1
  <2> QED
    BY <1>1, <2>1, <2>2
<1> QED
  BY <1>4, <1>5, <1>6, <1>7 DEF OwnershipIsExact

-----------------------------------------------------------------------------
(* The stack *)

LEMMA FrameIsTyped ==
  ASSUME NEW r \in Requests, NEW g \in Stages
  PROVE  Frame(r, g) \in Frames
BY DEF Frame, Frames

LEMMA TopIsTyped ==
  ASSUME IInv, stack # <<>>
  PROVE  /\ stack \in Seq(Frames) /\ Top \in Frames
         /\ Resolved(Top) /\ Allowed(Top)
<1>1. stack \in Seq(Frames)
  BY DEF IInv, TypeOK, Frames
<1>2. Top \in Frames /\ Top = stack[Len(stack)] /\ Len(stack) \in DOMAIN stack
  BY <1>1, FrontFacts DEF Top
<1> QED
  BY <1>1, <1>2 DEF IInv, StackInv

LEMMA EmitIsTyped ==
  ASSUME IInv, NEW r \in Requests, NEW category \in Categories, Emit(category, r)
  PROVE  events' \in Seq([category : Categories, request : Requests])
<1>1. Event(category, r) \in [category : Categories, request : Requests]
  BY DEF Event
<1> QED
  BY <1>1 DEF IInv, TypeOK, Emit

\* Going to a stage that says no more than is known of the request.
LEMMA AdvanceStep ==
  ASSUME IInv, stack # <<>>, NEW category \in Categories, NEW g \in Stages,
         Advance(category, g),
         Resolved(Frame(Top.request, g)), Allowed(Frame(Top.request, g))
  PROVE  IInv'
<1> DEFINE new == Frame(Top.request, g)
<1>1. stack \in Seq(Frames) /\ Top.request \in Requests
  BY TopIsTyped DEF Frames
<1>2. new \in Frames
  BY <1>1, FrameIsTyped
<1>3. /\ stack' = Front(stack) \o <<new>>
      /\ UNCHANGED <<byId, owner, answers, received>>
  BY DEF Advance, registry
<1>4. /\ stack' \in Seq(Frames) /\ Len(stack') = Len(stack)
      /\ \A k \in 1..Len(stack)-1 : stack'[k] = stack[k]
      /\ stack'[Len(stack)] = new
  <2> HIDE DEF new
  <2> QED BY <1>1, <1>2, <1>3, ReplaceLastFacts
<1>5. events' \in Seq([category : Categories, request : Requests])
  BY <1>1, EmitIsTyped DEF Advance
<1>6. StackInv'
  <2> SUFFICES ASSUME NEW k \in DOMAIN stack'
               PROVE  Resolved(stack'[k]) /\ Allowed(stack'[k])
    BY <1>3 DEF StackInv, Resolved, Allowed
  <2>1. k \in 1..Len(stack) /\ Len(stack) \in Nat
    BY <1>1, <1>4
  <2>2. CASE k = Len(stack)
    BY <1>3, <1>4, <2>2 DEF Resolved, Allowed
  <2>3. CASE k # Len(stack)
    <3>1. k \in DOMAIN stack /\ stack'[k] = stack[k]
      BY <1>1, <1>4, <2>1, <2>3
    <3>2. Resolved(stack[k]) /\ Allowed(stack[k])
      BY <3>1 DEF IInv, StackInv
    <3> QED
      BY <1>3, <3>1, <3>2 DEF Resolved, Allowed
  <2> QED
    BY <2>2, <2>3
<1> QED
  BY <1>3, <1>4, <1>5, <1>6 DEF IInv, TypeOK, OwnershipIsExact, Frames

LEMMA ReturnStep ==
  ASSUME IInv, stack # <<>>, NEW category \in Categories,
         NEW status \in Outcomes \union {"InvalidRequest", "NotFound"},
         Return(category, status)
  PROVE  IInv'
<1>1. stack \in Seq(Frames) /\ Top.request \in Requests
  BY TopIsTyped DEF Frames
<1>2. /\ stack' = Front(stack) /\ UNCHANGED <<byId, owner, received>>
      /\ answers' = Append(answers, [id |-> Top.request.id, status |-> status])
  BY DEF Return, registry
<1>3. /\ stack' \in Seq(Frames) /\ Len(stack') = Len(stack) - 1
      /\ \A k \in 1..Len(stack)-1 : stack'[k] = stack[k]
  BY <1>1, <1>2, FrontFacts
<1>4. events' \in Seq([category : Categories, request : Requests])
  BY <1>1, EmitIsTyped DEF Return
<1>5. answers' \in Seq([id : RequestIds \union {NoId},
                        status : Outcomes \union {"InvalidRequest", "NotFound"}])
  BY <1>1, <1>2 DEF IInv, TypeOK, Requests
<1>6. StackInv'
  <2> SUFFICES ASSUME NEW k \in DOMAIN stack'
               PROVE  Resolved(stack'[k]) /\ Allowed(stack'[k])
    BY <1>2 DEF StackInv, Resolved, Allowed
  <2>1. k \in DOMAIN stack /\ stack'[k] = stack[k]
    BY <1>1, <1>3
  <2>2. Resolved(stack[k]) /\ Allowed(stack[k])
    BY <2>1 DEF IInv, StackInv
  <2> QED
    BY <1>2, <2>1, <2>2 DEF Resolved, Allowed
<1> QED
  BY <1>2, <1>3, <1>4, <1>5, <1>6 DEF IInv, TypeOK, OwnershipIsExact, Frames

LEMMA ReceiveStep ==
  ASSUME IInv, NEW r \in Requests, Receive(r)
  PROVE  IInv'
<1> DEFINE new == Frame(r, "received")
<1>1. stack \in Seq(Frames) /\ new \in Frames
  BY FrameIsTyped DEF IInv, TypeOK, Frames, Stages
<1>2. /\ stack' = Append(stack, new) /\ UNCHANGED <<byId, owner, answers>>
      /\ received' \in 0..MaxRequests
  BY ControlPlaneAssumption DEF Receive, registry, IInv, TypeOK
<1>3. events' \in Seq([category : Categories, request : Requests])
  BY EmitIsTyped DEF Receive, Categories
<1>4. /\ stack' \in Seq(Frames) /\ Len(stack') = Len(stack) + 1
      /\ \A k \in 1..Len(stack) : stack'[k] = stack[k]
      /\ stack'[Len(stack) + 1] = new
  <2> HIDE DEF new
  <2> QED BY <1>1, <1>2
<1>5. StackInv'
  <2> SUFFICES ASSUME NEW k \in DOMAIN stack'
               PROVE  Resolved(stack'[k]) /\ Allowed(stack'[k])
    BY <1>2 DEF StackInv, Resolved, Allowed
  <2>1. CASE k = Len(stack) + 1
    BY <1>4, <2>1 DEF Resolved, Allowed, Frame
  <2>2. CASE k # Len(stack) + 1
    <3>1. k \in DOMAIN stack /\ stack'[k] = stack[k]
      BY <1>1, <1>4, <2>2
    <3>2. Resolved(stack[k]) /\ Allowed(stack[k])
      BY <3>1 DEF IInv, StackInv
    <3> QED
      BY <1>2, <3>1, <3>2 DEF Resolved, Allowed
  <2> QED
    BY <2>1, <2>2
<1> QED
  BY <1>2, <1>3, <1>4, <1>5 DEF IInv, TypeOK, OwnershipIsExact, Frames

-----------------------------------------------------------------------------
(* The inductive invariant *)

LEMMA InitInv == Init => IInv
<1> SUFFICES ASSUME Init PROVE IInv
  OBVIOUS
<1>1. TypeOK
  BY ControlPlaneAssumption DEF Init, TypeOK
<1> QED
  BY <1>1 DEF Init, IInv, OwnershipIsExact, StackInv

\* The tiers that are compared are numbers.
LEMMA TiersAreNumbers ==
  ASSUME IInv, stack # <<>>, Top.request.capability \in DOMAIN owner
  PROVE  /\ Owner \in Modules /\ Descriptor[Owner].tier \in Nat
         /\ Top.request.tier \in Nat
<1>1. owner[Top.request.capability] \in DOMAIN byId
  BY DEF IInv, OwnershipIsExact
<1>2. Owner \in Modules
  BY <1>1 DEF IInv, TypeOK, Owner
<1>3. Top.request.tier \in Tiers
  BY TopIsTyped DEF Frames, Requests
<1> QED
  BY <1>2, <1>3, ControlPlaneAssumption

LEMMA StepInv ==
  ASSUME IInv, Step
  PROVE  IInv'
<1>1. ASSUME Call PROVE IInv'
  <2>1. stack # <<>> /\ Top.stage = "started"
    BY <1>1 DEF Call, At
  <2>2. Owner \in Modules
    BY <2>1, TopIsTyped, TiersAreNumbers DEF Resolved
  <2>3. PICK i \in RequestIds, c \in Calls[Owner] :
          Receive([id |-> i, capability |-> c, tier |-> CallTier])
    BY <1>1 DEF Call
  <2>4. [id |-> i, capability |-> c, tier |-> CallTier] \in Requests
    BY <2>2, ControlPlaneAssumption DEF Requests
  <2> QED
    BY <2>3, <2>4, ReceiveStep
<1>2. ASSUME RejectInvalid PROVE IInv'
  BY <1>2, ReturnStep DEF RejectInvalid, At, Categories
<1>3. ASSUME RejectUnknown PROVE IInv'
  BY <1>3, ReturnStep DEF RejectUnknown, At, Categories
<1>4. ASSUME Validate PROVE IInv'
  <2>1. /\ stack # <<>> /\ Top.request.capability \in DOMAIN owner
        /\ Advance("RequestValidated", "validated")
    BY <1>4 DEF Validate, At
  <2>2. Resolved(Frame(Top.request, "validated")) /\ Allowed(Frame(Top.request, "validated"))
    BY <2>1 DEF Resolved, Allowed, Frame
  <2> QED
    BY <2>1, <2>2, AdvanceStep DEF Categories, Stages
<1>5. ASSUME RiskCheck PROVE IInv'
  <2>1. /\ stack # <<>> /\ Top.request.capability \in DOMAIN owner
    BY <1>5, TopIsTyped DEF RiskCheck, At, Resolved
  <2>2. CASE Top.request.tier < Descriptor[Owner].tier
    <3>1. Advance("RiskCheckFailed", "refused")
      BY <1>5, <2>2 DEF RiskCheck
    <3>2. Resolved(Frame(Top.request, "refused")) /\ Allowed(Frame(Top.request, "refused"))
      BY <2>1 DEF Resolved, Allowed, Frame
    <3> QED
      BY <2>1, <3>1, <3>2, AdvanceStep DEF Categories, Stages
  <2>3. CASE ~(Top.request.tier < Descriptor[Owner].tier)
    <3>1. Advance("RiskCheckPassed", "passed")
      BY <1>5, <2>3 DEF RiskCheck
    <3>2. Top.request.tier >= Descriptor[Owner].tier
      BY <2>1, <2>3, TiersAreNumbers
    <3>3. Resolved(Frame(Top.request, "passed")) /\ Allowed(Frame(Top.request, "passed"))
      BY <2>1, <3>2 DEF Resolved, Allowed, Frame, Owner
    <3> QED
      BY <2>1, <3>1, <3>3, AdvanceStep DEF Categories, Stages
  <2> QED
    BY <2>2, <2>3
<1>6. ASSUME RejectRisk PROVE IInv'
  BY <1>6, ReturnStep DEF RejectRisk, At, Categories
<1>7. ASSUME Start PROVE IInv'
  <2>1. stack # <<>> /\ Top.stage = "passed" /\ Advance("DispatchStarted", "started")
    BY <1>7 DEF Start, At
  <2>2. Resolved(Frame(Top.request, "started")) /\ Allowed(Frame(Top.request, "started"))
    BY <2>1, TopIsTyped DEF Resolved, Allowed, Frame
  <2> QED
    BY <2>1, <2>2, AdvanceStep DEF Categories, Stages
<1>8. ASSUME Finish PROVE IInv'
  <2>1. PICK status \in Outcomes : Return(Ending(status), status)
    BY <1>8 DEF Finish
  <2>2. stack # <<>> /\ Ending(status) \in Categories
    BY <1>8 DEF Finish, At, Ending, Categories
  <2> QED
    BY <2>1, <2>2, ReturnStep
<1> QED
  BY <1>1, <1>2, <1>3, <1>4, <1>5, <1>6, <1>7, <1>8 DEF Step

LEMMA NextInv == IInv /\ [Next]_vars => IInv'
<1> SUFFICES ASSUME IInv, [Next]_vars PROVE IInv'
  OBVIOUS
<1>1. ASSUME NEW m \in Modules, RegisterModule(m) PROVE IInv'
  <2>1. stack = <<>> /\ UNCHANGED <<stack, events, answers, received>>
    BY <1>1 DEF RegisterModule
  <2>2. StackInv'
    BY <2>1 DEF StackInv
  <2> QED
    BY <1>1, <2>1, <2>2, RegistryStep DEF IInv, TypeOK
<1>2. ASSUME NEW r \in Requests, Submit(r) PROVE IInv'
  BY <1>2, ReceiveStep DEF Submit
<1>3. ASSUME Throw PROVE IInv'
  BY <1>3 DEF Throw, registry, IInv, TypeOK, OwnershipIsExact, StackInv
<1>4. ASSUME UNCHANGED vars PROVE IInv'
  BY <1>4 DEF vars, IInv, TypeOK, OwnershipIsExact, StackInv, Resolved, Allowed
<1> QED
  BY <1>1, <1>2, <1>3, <1>4, StepInv DEF Next

\* The inductive invariant holds of every behavior.
THEOREM Invariance == Spec => []IInv
BY InitInv, NextInv, PTL DEF Spec

\* The registry, the stack and the log have the types of the code's.
THEOREM TypeCorrect == Spec => []TypeOK
<1>1. IInv => TypeOK
  BY DEF IInv
<1> QED
  BY <1>1, Invariance, PTL

\* Whatever modules try to register, and in whatever order, a capability has
\* one owner, which declares it, and a module owns all that it declares.
THEOREM OwnershipTheorem == Spec => []OwnershipIsExact
<1>1. IInv => OwnershipIsExact
  BY DEF IInv
<1> QED
  BY <1>1, Invariance, PTL

\* At any depth of nested dispatch, with exceptions or without, no module
\* executes a request that declares a lower tier than the module's own.
THEOREM EscalationTheorem == Spec => []NoSilentEscalation
<1>1. IInv => NoSilentEscalation
  BY DEF IInv, StackInv, Allowed, NoSilentEscalation
<1> QED
  BY <1>1, Invariance, PTL

-----------------------------------------------------------------------------
(* Reading the log *)

\* Induction over the numbers, in the form the provers can use.
LEMMA Induction ==
  ASSUME NEW T, 0 \in T, \A n \in Nat : n \in T => n + 1 \in T
  PROVE  \A n \in Nat : n \in T
<1>1. SUFFICES ASSUME NEW m \in Nat, m \notin T
               PROVE  FALSE
  OBVIOUS
<1> DEFINE U == {n \in Nat : n \notin T}
<1>2. U \in SUBSET Nat /\ U # {}
  BY <1>1
<1>3. PICK n \in U : \A i \in U : ~(<<i, n>> \in OpToRel(<, Nat))
  BY <1>2, NatLessThanWellFounded, WFMin
<1>4. n \in Nat /\ n \notin T /\ n # 0
  BY <1>3
<1>5. n - 1 \in Nat /\ n - 1 < n /\ n = (n - 1) + 1
  BY <1>4
<1>6. n - 1 \in T
  BY <1>3, <1>4, <1>5 DEF OpToRel
<1> QED
  BY <1>4, <1>5, <1>6

\* What is read after each of the first events of a log.
IsReading(f, log, n) ==
  f = [k \in 0..n |->
         IF k = 0 THEN [open |-> <<>>, ended |-> <<>>] ELSE ReadEvent(f[k - 1], log[k])]

LEMMA ReadingExtends ==
  ASSUME NEW log, NEW n \in Nat, NEW f, IsReading(f, log, n)
  PROVE  \E g : IsReading(g, log, n + 1)
<1> DEFINE Z == [open |-> <<>>, ended |-> <<>>]
           last == ReadEvent(f[n], log[n + 1])
           g == [k \in 0..(n + 1) |-> IF k = n + 1 THEN last ELSE f[k]]
<1>1. f = [k \in 0..n |-> IF k = 0 THEN Z ELSE ReadEvent(f[k - 1], log[k])]
  BY DEF IsReading
<1> HIDE DEF Z, last
<1>2. \A k \in 0..n : g[k] = f[k]
  OBVIOUS
<1>3. \A k \in 0..(n + 1) : g[k] = (IF k = 0 THEN Z ELSE ReadEvent(g[k - 1], log[k]))
  <2> SUFFICES ASSUME NEW k \in 0..(n + 1)
               PROVE  g[k] = (IF k = 0 THEN Z ELSE ReadEvent(g[k - 1], log[k]))
    OBVIOUS
  <2>1. CASE k = n + 1
    <3>1. g[k] = last /\ k # 0 /\ g[k - 1] = f[n]
      BY <2>1, <1>2
    <3> QED
      BY <2>1, <3>1 DEF last
  <2>2. CASE k # n + 1 /\ k # 0
    <3>1. k \in 0..n /\ k - 1 \in 0..n
      BY <2>2
    <3>2. g[k] = f[k] /\ g[k - 1] = f[k - 1]
      BY <1>2, <3>1
    <3>3. f[k] = ReadEvent(f[k - 1], log[k])
      BY <1>1, <2>2, <3>1
    <3> HIDE DEF g
    <3> QED
      BY <2>2, <3>2, <3>3
  <2>3. CASE k = 0
    BY <1>1, <1>2, <2>3
  <2> QED
    BY <2>1, <2>2, <2>3
<1>4. g = [k \in 0..(n + 1) |-> g[k]]
  OBVIOUS
<1> HIDE DEF g
<1>5. g = [k \in 0..(n + 1) |-> IF k = 0 THEN Z ELSE ReadEvent(g[k - 1], log[k])]
  BY <1>3, <1>4
<1> QED
  BY <1>5 DEF IsReading, Z

LEMMA ReadingExists ==
  ASSUME NEW log
  PROVE  \A n \in Nat : \E f : IsReading(f, log, n)
<1> DEFINE T == {n \in Nat : \E f : IsReading(f, log, n)}
<1>1. 0 \in T
  <2> DEFINE Z == [open |-> <<>>, ended |-> <<>>]
             f == [k \in 0..0 |-> Z]
  <2> HIDE DEF Z
  <2>1. f = [k \in 0..0 |-> IF k = 0 THEN Z ELSE ReadEvent(f[k - 1], log[k])]
    OBVIOUS
  <2>2. IsReading(f, log, 0)
    BY <2>1 DEF IsReading, Z
  <2> QED
    BY <2>2
<1>2. \A n \in Nat : n \in T => n + 1 \in T
  BY ReadingExtends
<1> HIDE DEF T
<1>3. \A n \in Nat : n \in T
  BY <1>1, <1>2, Induction
<1> QED
  BY <1>3 DEF T

\* The readings of a log and of a longer one agree on what both have.
LEMMA ReadingsAgree ==
  ASSUME NEW log, NEW n \in Nat, NEW f, IsReading(f, log, n),
         NEW log2, NEW n2 \in Nat, NEW g, IsReading(g, log2, n2),
         n <= n2, \A k \in 1..n : log2[k] = log[k]
  PROVE  \A k \in 0..n : g[k] = f[k]
<1> DEFINE T == {k \in Nat : k <= n => g[k] = f[k]}
<1>1. /\ f[0] = [open |-> <<>>, ended |-> <<>>]
      /\ g[0] = [open |-> <<>>, ended |-> <<>>]
  BY DEF IsReading
<1>2. 0 \in T
  BY <1>1
<1>3. ASSUME NEW k \in Nat, k \in T
      PROVE  k + 1 \in T
  <2> SUFFICES ASSUME k + 1 <= n
               PROVE  g[k + 1] = f[k + 1]
    OBVIOUS
  <2>1. /\ k + 1 \in 0..n /\ k + 1 \in 0..n2 /\ k + 1 # 0 /\ (k + 1) - 1 = k /\ k + 1 \in 1..n
    OBVIOUS
  <2>2. g[k] = f[k]
    BY <1>3
  <2>3. f[k + 1] = ReadEvent(f[k], log[k + 1])
    BY <2>1 DEF IsReading
  <2>4. g[k + 1] = ReadEvent(g[k], log2[k + 1])
    BY <2>1 DEF IsReading
  <2> QED
    BY <2>1, <2>2, <2>3, <2>4
<1> HIDE DEF T
<1>4. \A k \in Nat : k \in T
  BY <1>2, <1>3, Induction
<1> QED
  BY <1>4 DEF T

LEMMA ReadingsAre ==
  ASSUME NEW log, Len(log) \in Nat
  PROVE  IsReading(Readings(log), log, Len(log))
<1>1. \E f : IsReading(f, log, Len(log))
  BY ReadingExists
<1> QED
  BY <1>1 DEF Readings, IsReading

\* Reading nothing, and reading one more event.
Read(log) == Readings(log)[Len(log)]

LEMMA ReadNothing == Read(<<>>) = [open |-> <<>>, ended |-> <<>>]
<1>1. Len(<<>>) = 0
  OBVIOUS
<1>2. IsReading(Readings(<<>>), <<>>, 0)
  BY <1>1, ReadingsAre
<1> QED
  BY <1>1, <1>2 DEF IsReading, Read

LEMMA ReadMore ==
  ASSUME NEW S, NEW log \in Seq(S), NEW e \in S
  PROVE  Read(Append(log, e)) = ReadEvent(Read(log), e)
<1> DEFINE log2 == Append(log, e)
           f == Readings(log)
           g == Readings(log2)
           n == Len(log)
<1>1. /\ n \in Nat /\ Len(log2) = n + 1
      /\ \A k \in 1..n : log2[k] = log[k]
      /\ log2[n + 1] = e
  OBVIOUS
<1> HIDE DEF log2
<1>2. IsReading(f, log, n) /\ IsReading(g, log2, n + 1)
  BY <1>1, ReadingsAre
<1> HIDE DEF f, g, n
<1>3. g[n] = f[n]
  BY <1>1, <1>2, ReadingsAgree
<1>4. g[n + 1] = ReadEvent(g[n], e)
  <2>1. n + 1 \in 0..(n + 1) /\ n + 1 # 0 /\ (n + 1) - 1 = n
    BY <1>1
  <2> QED
    BY <1>1, <1>2, <2>1 DEF IsReading
<1>5. Read(log2) = g[n + 1] /\ Read(log) = f[n]
  BY <1>1 DEF Read, f, g, n
<1> QED
  BY <1>3, <1>4, <1>5 DEF log2

-----------------------------------------------------------------------------
(* The log and the stack *)

Events == [category : Categories, request : Requests]

\* The stack is at the end of the open dispatches.
EndsWith(open, s) ==
  /\ Len(s) <= Len(open)
  /\ \A i \in 1..Len(s) : s[i] = open[Len(open) - Len(s) + i]

\* Every open dispatch but the one on top has started: a dispatch began
\* inside it, or an exception ended it.
OthersStarted(open, s) ==
  \A i \in 1..Len(open) : open[i].stage = "started" \/ (i = Len(open) /\ s # <<>>)

Agree(ended, answered) ==
  /\ Len(ended) = Len(answered)
  /\ \A k \in 1..Len(answered) :
       /\ ended[k].request.id = answered[k].id
       /\ ended[k].category = "DispatchCompleted" <=> answered[k].status = "Succeeded"

Follows(read, s, answered) ==
  /\ read.open \in Seq(Frames) /\ EndsWith(read.open, s) /\ OthersStarted(read.open, s)
  /\ read.ended \in Seq(Events) /\ Agree(read.ended, answered)

LogInv == Follows(Read(events), stack, answers)

LEMMA EmitIsRead ==
  ASSUME IInv, NEW r \in Requests, NEW category \in Categories, Emit(category, r)
  PROVE  /\ Read(events)' = ReadEvent(Read(events), Event(category, r))
         /\ Event(category, r) \in Events
<1>1. Event(category, r) \in Events /\ events \in Seq(Events)
  BY DEF Event, Events, IInv, TypeOK
<1>2. Read(Append(events, Event(category, r))) = ReadEvent(Read(events), Event(category, r))
  BY <1>1, ReadMore
<1>3. events' = Append(events, Event(category, r))
  BY DEF Emit
<1>4. Read(events)' = Read(Append(events, Event(category, r)))
  BY <1>3 DEF Read, Readings
<1> QED
  BY <1>1, <1>2, <1>4

\* What is on top is the last of the open dispatches.
LEMMA TopIsOpen ==
  ASSUME NEW open \in Seq(Frames), NEW s \in Seq(Frames), EndsWith(open, s), s # <<>>
  PROVE  open # <<>> /\ Last(open) = Last(s) /\ Len(open) \in Nat \ {0} /\ Len(s) \in Nat \ {0}
BY DEF EndsWith, Last

LEMMA OpenReceives ==
  ASSUME NEW open \in Seq(Frames), NEW s \in Seq(Frames), NEW r \in Requests,
         EndsWith(open, s), OthersStarted(open, s),
         s = <<>> \/ Last(s).stage = "started"
  PROVE  /\ ReadOpen(open, Event("RequestReceived", r)) = Append(open, Frame(r, "received"))
         /\ Append(open, Frame(r, "received")) \in Seq(Frames)
         /\ EndsWith(Append(open, Frame(r, "received")), Append(s, Frame(r, "received")))
         /\ OthersStarted(Append(open, Frame(r, "received")), Append(s, Frame(r, "received")))
<1> DEFINE new == Frame(r, "received")
<1>1. new \in Frames
  BY FrameIsTyped DEF Stages
<1>2. \A i \in 1..Len(open) : open[i].stage = "started"
  <2>1. CASE s = <<>>
    BY <2>1 DEF OthersStarted
  <2>2. CASE s # <<>>
    <3>1. Last(open).stage = "started" /\ Len(open) \in Nat \ {0}
      BY <2>2, TopIsOpen
    <3> QED
      BY <3>1 DEF OthersStarted, Last
  <2> QED
    BY <2>1, <2>2
<1>3. open = <<>> \/ Last(open).stage = "started"
  BY <1>2, EmptySeq DEF Last
<1>4. ReadOpen(open, Event("RequestReceived", r)) = Append(open, new)
  BY <1>3 DEF ReadOpen, Event
<1> HIDE DEF new
<1>5. /\ Append(open, new) \in Seq(Frames) /\ Len(Append(open, new)) = Len(open) + 1
      /\ \A i \in 1..Len(open) : Append(open, new)[i] = open[i]
      /\ Append(open, new)[Len(open) + 1] = new
  BY <1>1
<1>6. /\ Append(s, new) \in Seq(Frames) /\ Len(Append(s, new)) = Len(s) + 1
      /\ \A i \in 1..Len(s) : Append(s, new)[i] = s[i]
      /\ Append(s, new)[Len(s) + 1] = new
  BY <1>1
<1>7. EndsWith(Append(open, new), Append(s, new))
  BY <1>5, <1>6 DEF EndsWith
<1>8. OthersStarted(Append(open, new), Append(s, new))
  BY <1>2, <1>5, <1>6 DEF OthersStarted
<1> QED
  BY <1>4, <1>5, <1>7, <1>8 DEF new

\* The documented sequence has one stage after a stage and an event.
LEMMA SequenceIsAFunction ==
  ASSUME NEW t \in Sequence
  PROVE  (CHOOSE u \in Sequence : u[1] = t[1] /\ u[2] = t[2]) = t
<1>1. \A u \in Sequence : u[1] = t[1] /\ u[2] = t[2] => u = t
  BY DEF Sequence
<1>2. \E u \in Sequence : u[1] = t[1] /\ u[2] = t[2]
  OBVIOUS
<1> QED
  BY <1>1, <1>2

LEMMA OpenMoves ==
  ASSUME NEW open \in Seq(Frames), NEW s \in Seq(Frames), EndsWith(open, s), s # <<>>,
         NEW category, NEW g, <<Last(s).stage, category, g>> \in Sequence,
         category # "RequestReceived"
  PROVE  ReadOpen(open, Event(category, Last(s).request)) =
           IF g = "over" THEN Front(open) ELSE Front(open) \o <<Frame(Last(s).request, g)>>
<1> DEFINE t == <<Last(s).stage, category, g>>
<1>1. open # <<>> /\ Last(open) = Last(s)
  BY TopIsOpen
<1>2. t[1] = Last(open).stage /\ t[2] = category /\ t[3] = g
  BY <1>1
<1>3. (CHOOSE u \in Sequence : u[1] = Last(open).stage /\ u[2] = category) = t
  BY <1>2, SequenceIsAFunction
<1>4. (CHOOSE u \in Sequence : u[1] = Last(open).stage /\ u[2] = category)[3] = g
  BY <1>2, <1>3
<1> DEFINE e == Event(category, Last(s).request)
<1>5. e.category = category /\ e.request = Last(s).request
  BY DEF Event
<1>6. t \in Sequence
  OBVIOUS
<1> HIDE DEF t, e
<1>7. \E u \in Sequence : u[1] = Last(open).stage /\ u[2] = e.category /\ Last(open).request = e.request
  BY <1>1, <1>2, <1>5, <1>6
<1>8. ReadOpen(open, e) = IF g = "over" THEN Front(open) ELSE Front(open) \o <<Frame(e.request, g)>>
  BY <1>1, <1>4, <1>5, <1>7 DEF ReadOpen
<1> QED
  BY <1>5, <1>8 DEF e

LEMMA OpenAdvances ==
  ASSUME NEW open \in Seq(Frames), NEW s \in Seq(Frames), EndsWith(open, s), s # <<>>,
         OthersStarted(open, s), NEW x \in Frames
  PROVE  /\ Front(open) \o <<x>> \in Seq(Frames)
         /\ EndsWith(Front(open) \o <<x>>, Front(s) \o <<x>>)
         /\ OthersStarted(Front(open) \o <<x>>, Front(s) \o <<x>>)
<1>1. open # <<>> /\ Len(open) \in Nat \ {0} /\ Len(s) \in Nat \ {0}
  BY TopIsOpen
<1> DEFINE o2 == Front(open) \o <<x>>
           s2 == Front(s) \o <<x>>
<1>2. /\ o2 \in Seq(Frames) /\ Len(o2) = Len(open)
      /\ \A k \in 1..Len(open)-1 : o2[k] = open[k]
      /\ o2[Len(open)] = x
  BY <1>1, ReplaceLastFacts
<1>3. /\ s2 \in Seq(Frames) /\ Len(s2) = Len(s)
      /\ \A k \in 1..Len(s)-1 : s2[k] = s[k]
      /\ s2[Len(s)] = x
  BY ReplaceLastFacts
<1> HIDE DEF o2, s2
<1>4. EndsWith(o2, s2)
  <2> SUFFICES ASSUME NEW i \in 1..Len(s2)
               PROVE  s2[i] = o2[Len(o2) - Len(s2) + i]
    BY <1>2, <1>3 DEF EndsWith
  <2>1. CASE i = Len(s)
    <3>1. Len(o2) - Len(s2) + i = Len(open)
      BY <1>1, <1>2, <1>3, <2>1
    <3> QED
      BY <1>2, <1>3, <2>1, <3>1
  <2>2. CASE i # Len(s)
    <3>1. /\ i \in 1..Len(s)-1 /\ i \in 1..Len(s)
          /\ Len(o2) - Len(s2) + i = Len(open) - Len(s) + i
          /\ Len(open) - Len(s) + i \in 1..Len(open)-1
      BY <1>1, <1>2, <1>3, <2>2 DEF EndsWith
    <3> QED
      BY <1>2, <1>3, <3>1 DEF EndsWith
  <2> QED
    BY <2>1, <2>2
<1>5. s2 # <<>>
  BY <1>1, <1>3
<1>6. OthersStarted(o2, s2)
  BY <1>1, <1>2, <1>5 DEF OthersStarted
<1> QED
  BY <1>2, <1>4, <1>6 DEF o2, s2

LEMMA OpenEnds ==
  ASSUME NEW open \in Seq(Frames), NEW s \in Seq(Frames), EndsWith(open, s), s # <<>>,
         OthersStarted(open, s)
  PROVE  /\ Front(open) \in Seq(Frames)
         /\ EndsWith(Front(open), Front(s))
         /\ OthersStarted(Front(open), Front(s))
<1>1. open # <<>> /\ Len(open) \in Nat \ {0} /\ Len(s) \in Nat \ {0}
  BY TopIsOpen
<1>2. /\ Front(open) \in Seq(Frames) /\ Len(Front(open)) = Len(open) - 1
      /\ \A k \in 1..Len(open)-1 : Front(open)[k] = open[k]
  BY <1>1, FrontFacts
<1>3. /\ Front(s) \in Seq(Frames) /\ Len(Front(s)) = Len(s) - 1
      /\ \A k \in 1..Len(s)-1 : Front(s)[k] = s[k]
  BY FrontFacts
<1>4. EndsWith(Front(open), Front(s))
  <2> SUFFICES ASSUME NEW i \in 1..Len(Front(s))
               PROVE  Front(s)[i] = Front(open)[Len(Front(open)) - Len(Front(s)) + i]
    BY <1>1, <1>2, <1>3 DEF EndsWith
  <2>1. /\ i \in 1..Len(s)-1 /\ i \in 1..Len(s)
        /\ Len(Front(open)) - Len(Front(s)) + i = Len(open) - Len(s) + i
        /\ Len(open) - Len(s) + i \in 1..Len(open)-1
    BY <1>1, <1>2, <1>3 DEF EndsWith
  <2> QED
    BY <1>2, <1>3, <2>1 DEF EndsWith
<1>5. OthersStarted(Front(open), Front(s))
  <2> SUFFICES ASSUME NEW i \in 1..Len(Front(open))
               PROVE  Front(open)[i].stage = "started"
    BY DEF OthersStarted
  <2>1. i \in 1..Len(open)-1 /\ i \in 1..Len(open) /\ i # Len(open)
    BY <1>1, <1>2
  <2> QED
    BY <1>2, <2>1 DEF OthersStarted
<1> QED
  BY <1>2, <1>4, <1>5

-----------------------------------------------------------------------------
(* The log and the answers *)

LEMMA AgreeAppended ==
  ASSUME NEW ended \in Seq(Events), NEW S, NEW answered \in Seq(S), NEW a \in S,
         NEW e \in Events, Agree(ended, answered),
         e.request.id = a.id, e.category = "DispatchCompleted" <=> a.status = "Succeeded"
  PROVE  Append(ended, e) \in Seq(Events) /\ Agree(Append(ended, e), Append(answered, a))
<1>1. /\ Append(ended, e) \in Seq(Events) /\ Len(Append(ended, e)) = Len(ended) + 1
      /\ \A k \in 1..Len(ended) : Append(ended, e)[k] = ended[k]
      /\ Append(ended, e)[Len(ended) + 1] = e
  OBVIOUS
<1>2. /\ Len(Append(answered, a)) = Len(answered) + 1 /\ Len(answered) \in Nat
      /\ \A k \in 1..Len(answered) : Append(answered, a)[k] = answered[k]
      /\ Append(answered, a)[Len(answered) + 1] = a
  OBVIOUS
<1> DEFINE E == Append(ended, e)
           A == Append(answered, a)
<1> HIDE DEF E, A
<1>3. /\ Len(E) = Len(A) /\ Len(A) = Len(answered) + 1 /\ Len(answered) \in Nat
      /\ \A k \in 1..Len(answered) : E[k] = ended[k] /\ A[k] = answered[k]
      /\ E[Len(A)] = e /\ A[Len(A)] = a
  BY <1>1, <1>2 DEF Agree, E, A
<1>4. ASSUME NEW k \in 1..Len(A)
      PROVE  /\ E[k].request.id = A[k].id
             /\ E[k].category = "DispatchCompleted" <=> A[k].status = "Succeeded"
  <2>1. CASE k = Len(A)
    BY <1>3, <2>1
  <2>2. CASE k # Len(A)
    <3>1. k \in 1..Len(answered)
      BY <1>3, <2>2
    <3>2. E[k] = ended[k] /\ A[k] = answered[k]
      BY <1>3, <3>1
    <3> QED
      BY <3>1, <3>2 DEF Agree
  <2> QED
    BY <2>1, <2>2
<1>5. Agree(E, A)
  BY <1>3, <1>4 DEF Agree
<1> QED
  BY <1>1, <1>5 DEF E, A

-----------------------------------------------------------------------------
(* The steps *)

LEMMA ReadEventFields ==
  ASSUME NEW read, NEW e
  PROVE  /\ ReadEvent(read, e).open = ReadOpen(read.open, e)
         /\ e.category \in Closing
              => ReadEvent(read, e).ended = Append(read.ended, e)
         /\ e.category \notin Closing
              => ReadEvent(read, e).ended = read.ended
BY DEF ReadEvent

LEMMA StackIsTyped ==
  ASSUME IInv
  PROVE  /\ stack \in Seq(Frames)
         /\ answers \in Seq([id : RequestIds \union {NoId},
                             status : Outcomes \union {"InvalidRequest", "NotFound"}])
BY DEF IInv, TypeOK, Frames

LEMMA ReceiveLog ==
  ASSUME IInv, LogInv, NEW r \in Requests, Receive(r),
         stack = <<>> \/ Top.stage = "started"
  PROVE  LogInv'
<1> DEFINE e == Event("RequestReceived", r)
           new == Frame(r, "received")
           read == Read(events)
<1>1. read.open \in Seq(Frames) /\ EndsWith(read.open, stack) /\ OthersStarted(read.open, stack)
  BY DEF LogInv, Follows
<1>2. read.ended \in Seq(Events) /\ Agree(read.ended, answers)
  BY DEF LogInv, Follows
<1>3. Read(events)' = ReadEvent(read, e)
  BY EmitIsRead DEF Receive, Categories
<1>4. stack' = Append(stack, new) /\ answers' = answers
  BY DEF Receive
<1>5. e.category = "RequestReceived" /\ e.category \notin Closing
  BY DEF Event, Closing
<1> HIDE DEF read
<1>6. /\ ReadOpen(read.open, e) = Append(read.open, new)
      /\ Append(read.open, new) \in Seq(Frames)
      /\ EndsWith(Append(read.open, new), Append(stack, new))
      /\ OthersStarted(Append(read.open, new), Append(stack, new))
  BY <1>1, StackIsTyped, OpenReceives DEF Top
<1> HIDE DEF e, new
<1>7. Read(events)'.open = Append(read.open, new) /\ Read(events)'.ended = read.ended
  BY <1>3, <1>5, <1>6, ReadEventFields
<1> QED
  BY <1>2, <1>4, <1>6, <1>7 DEF LogInv, Follows

LEMMA AdvanceLog ==
  ASSUME IInv, LogInv, stack # <<>>, NEW category \in Categories, NEW g \in Stages,
         Advance(category, g), <<Top.stage, category, g>> \in Sequence,
         category \notin Closing \union {"RequestReceived"}
  PROVE  LogInv'
<1> DEFINE e == Event(category, Top.request)
           new == Frame(Top.request, g)
           read == Read(events)
<1>1. read.open \in Seq(Frames) /\ EndsWith(read.open, stack) /\ OthersStarted(read.open, stack)
  BY DEF LogInv, Follows
<1>2. read.ended \in Seq(Events) /\ Agree(read.ended, answers)
  BY DEF LogInv, Follows
<1>3. Top.request \in Requests /\ stack \in Seq(Frames)
  BY TopIsTyped DEF Frames
<1>4. Read(events)' = ReadEvent(read, e)
  BY <1>3, EmitIsRead DEF Advance
<1>5. stack' = Front(stack) \o <<new>> /\ answers' = answers
  BY DEF Advance
<1>6. e.category = category /\ g # "over" /\ new \in Frames
  BY <1>3, FrameIsTyped DEF Event, Stages
<1> HIDE DEF read
<1>7. ReadOpen(read.open, e) = Front(read.open) \o <<new>>
  <2>1. Top = Last(stack) /\ category # "RequestReceived"
    BY DEF Top
  <2>2. ReadOpen(read.open, Event(category, Last(stack).request)) =
          IF g = "over" THEN Front(read.open)
          ELSE Front(read.open) \o <<Frame(Last(stack).request, g)>>
    BY <1>1, <1>3, <2>1, OpenMoves
  <2> QED
    BY <1>6, <2>1, <2>2
<1> HIDE DEF e, new
<1>8. /\ Front(read.open) \o <<new>> \in Seq(Frames)
      /\ EndsWith(Front(read.open) \o <<new>>, Front(stack) \o <<new>>)
      /\ OthersStarted(Front(read.open) \o <<new>>, Front(stack) \o <<new>>)
  BY <1>1, <1>3, <1>6, OpenAdvances
<1>9. Read(events)'.open = Front(read.open) \o <<new>> /\ Read(events)'.ended = read.ended
  BY <1>4, <1>6, <1>7, ReadEventFields
<1> QED
  BY <1>2, <1>5, <1>8, <1>9 DEF LogInv, Follows

LEMMA ReturnLog ==
  ASSUME IInv, LogInv, stack # <<>>,
         NEW category \in Closing,
         NEW status \in Outcomes \union {"InvalidRequest", "NotFound"},
         Return(category, status), <<Top.stage, category, "over">> \in Sequence,
         category = "DispatchCompleted" <=> status = "Succeeded"
  PROVE  LogInv'
<1> DEFINE e == Event(category, Top.request)
           a == [id |-> Top.request.id, status |-> status]
           read == Read(events)
           Answers == [id : RequestIds \union {NoId},
                       status : Outcomes \union {"InvalidRequest", "NotFound"}]
<1>1. read.open \in Seq(Frames) /\ EndsWith(read.open, stack) /\ OthersStarted(read.open, stack)
  BY DEF LogInv, Follows
<1>2. read.ended \in Seq(Events) /\ Agree(read.ended, answers)
  BY DEF LogInv, Follows
<1>3. Top.request \in Requests /\ stack \in Seq(Frames)
  BY TopIsTyped DEF Frames
<1>4. category \in Categories /\ category # "RequestReceived"
  BY DEF Categories, Closing
<1>5. Read(events)' = ReadEvent(read, e) /\ e \in Events
  BY <1>3, <1>4, EmitIsRead DEF Return
<1>6. stack' = Front(stack) /\ answers' = Append(answers, a)
  BY DEF Return
<1>7. e.category = category /\ e.request = Top.request
  BY DEF Event
<1>8. a \in Answers /\ a.id = Top.request.id /\ a.status = status
  BY <1>3 DEF Requests
<1>9. answers \in Seq(Answers)
  BY StackIsTyped
<1> HIDE DEF read, a
<1>10. ReadOpen(read.open, e) = Front(read.open)
  BY <1>1, <1>3, <1>4, OpenMoves DEF Top
<1> HIDE DEF e, Answers
<1>11. /\ Front(read.open) \in Seq(Frames) /\ EndsWith(Front(read.open), Front(stack))
       /\ OthersStarted(Front(read.open), Front(stack))
  BY <1>1, <1>3, OpenEnds
<1>12. Read(events)'.open = Front(read.open) /\ Read(events)'.ended = Append(read.ended, e)
  BY <1>5, <1>7, <1>10, ReadEventFields
<1>13. Append(read.ended, e) \in Seq(Events) /\ Agree(Append(read.ended, e), Append(answers, a))
  BY <1>2, <1>5, <1>7, <1>8, <1>9, AgreeAppended
<1> QED
  BY <1>6, <1>11, <1>12, <1>13 DEF LogInv, Follows

LEMMA InitLog == Init => LogInv
<1> SUFFICES ASSUME Init PROVE LogInv
  OBVIOUS
<1>1. events = <<>> /\ stack = <<>> /\ answers = <<>>
  BY DEF Init
<1>2. Read(events).open = <<>> /\ Read(events).ended = <<>>
  BY <1>1, ReadNothing
<1>3. <<>> \in Seq(Frames) /\ <<>> \in Seq(Events)
  OBVIOUS
<1>4. EndsWith(<<>>, <<>>) /\ OthersStarted(<<>>, <<>>) /\ Agree(<<>>, <<>>)
  BY DEF EndsWith, OthersStarted, Agree
<1> QED
  BY <1>1, <1>2, <1>3, <1>4 DEF LogInv, Follows

LEMMA StepLog ==
  ASSUME IInv, LogInv, Step
  PROVE  LogInv'
<1>1. ASSUME Call PROVE LogInv'
  <2>1. stack # <<>> /\ Top.stage = "started"
    BY <1>1 DEF Call, At
  <2>2. Owner \in Modules
    BY <2>1, TopIsTyped, TiersAreNumbers DEF Resolved
  <2>3. PICK i \in RequestIds, c \in Calls[Owner] :
          Receive([id |-> i, capability |-> c, tier |-> CallTier])
    BY <1>1 DEF Call
  <2>4. [id |-> i, capability |-> c, tier |-> CallTier] \in Requests
    BY <2>2, ControlPlaneAssumption DEF Requests
  <2> QED
    BY <2>1, <2>3, <2>4, ReceiveLog
<1>2. ASSUME RejectInvalid PROVE LogInv'
  <2>1. stack # <<>> /\ Top.stage = "received" /\ Return("RequestRejected", "InvalidRequest")
    BY <1>2 DEF RejectInvalid, At
  <2>2. <<Top.stage, "RequestRejected", "over">> \in Sequence
    BY <2>1 DEF Sequence
  <2> QED
    BY <2>1, <2>2, ReturnLog DEF Closing
<1>3. ASSUME RejectUnknown PROVE LogInv'
  <2>1. stack # <<>> /\ Top.stage = "received" /\ Return("RequestRejected", "NotFound")
    BY <1>3 DEF RejectUnknown, At
  <2>2. <<Top.stage, "RequestRejected", "over">> \in Sequence
    BY <2>1 DEF Sequence
  <2> QED
    BY <2>1, <2>2, ReturnLog DEF Closing
<1>4. ASSUME Validate PROVE LogInv'
  <2>1. stack # <<>> /\ Top.stage = "received" /\ Advance("RequestValidated", "validated")
    BY <1>4 DEF Validate, At
  <2>2. <<Top.stage, "RequestValidated", "validated">> \in Sequence
    BY <2>1 DEF Sequence
  <2> QED
    BY <2>1, <2>2, AdvanceLog DEF Categories, Stages, Closing
<1>5. ASSUME RiskCheck PROVE LogInv'
  <2>1. stack # <<>> /\ Top.stage = "validated"
    BY <1>5 DEF RiskCheck, At
  <2>2. /\ <<Top.stage, "RiskCheckFailed", "refused">> \in Sequence
        /\ <<Top.stage, "RiskCheckPassed", "passed">> \in Sequence
    BY <2>1 DEF Sequence
  <2>3. Advance("RiskCheckFailed", "refused") \/ Advance("RiskCheckPassed", "passed")
    BY <1>5 DEF RiskCheck
  <2>4. ASSUME Advance("RiskCheckFailed", "refused") PROVE LogInv'
    BY <2>1, <2>2, <2>4, AdvanceLog DEF Categories, Stages, Closing
  <2>5. ASSUME Advance("RiskCheckPassed", "passed") PROVE LogInv'
    BY <2>1, <2>2, <2>5, AdvanceLog DEF Categories, Stages, Closing
  <2> QED
    BY <2>3, <2>4, <2>5
<1>6. ASSUME RejectRisk PROVE LogInv'
  <2>1. stack # <<>> /\ Top.stage = "refused" /\ Return("RequestRejected", "InvalidRequest")
    BY <1>6 DEF RejectRisk, At
  <2>2. <<Top.stage, "RequestRejected", "over">> \in Sequence
    BY <2>1 DEF Sequence
  <2> QED
    BY <2>1, <2>2, ReturnLog DEF Closing
<1>7. ASSUME Start PROVE LogInv'
  <2>1. stack # <<>> /\ Top.stage = "passed" /\ Advance("DispatchStarted", "started")
    BY <1>7 DEF Start, At
  <2>2. <<Top.stage, "DispatchStarted", "started">> \in Sequence
    BY <2>1 DEF Sequence
  <2> QED
    BY <2>1, <2>2, AdvanceLog DEF Categories, Stages, Closing
<1>8. ASSUME Finish PROVE LogInv'
  <2>1. PICK status \in Outcomes : Return(Ending(status), status)
    BY <1>8 DEF Finish
  <2>2. stack # <<>> /\ Top.stage = "started"
    BY <1>8 DEF Finish, At
  <2>3. /\ Ending(status) \in Closing
        /\ <<Top.stage, Ending(status), "over">> \in Sequence
        /\ Ending(status) = "DispatchCompleted" <=> status = "Succeeded"
    BY <2>2 DEF Ending, Sequence, Closing
  <2> QED
    BY <2>1, <2>2, <2>3, ReturnLog
<1> QED
  BY <1>1, <1>2, <1>3, <1>4, <1>5, <1>6, <1>7, <1>8 DEF Step

LEMMA NextLog == IInv /\ LogInv /\ [Next]_vars => LogInv'
<1> SUFFICES ASSUME IInv, LogInv, [Next]_vars PROVE LogInv'
  OBVIOUS
<1>1. ASSUME UNCHANGED <<stack, events, answers>> PROVE LogInv'
  BY <1>1 DEF LogInv, Read, Readings
<1>2. ASSUME NEW m \in Modules, RegisterModule(m) PROVE LogInv'
  BY <1>1, <1>2 DEF RegisterModule
<1>3. ASSUME NEW r \in Requests, Submit(r) PROVE LogInv'
  BY <1>3, ReceiveLog DEF Submit
<1>4. ASSUME Throw PROVE LogInv'
  <2>1. /\ stack # <<>> /\ Top.stage = "started"
        /\ stack' = <<>> /\ UNCHANGED <<events, answers>>
    BY <1>4 DEF Throw, At
  <2> DEFINE open == Read(events).open
  <2>2. open \in Seq(Frames) /\ EndsWith(open, stack) /\ OthersStarted(open, stack)
    BY DEF LogInv, Follows
  <2>3. Read(events)' = Read(events)
    BY <2>1 DEF Read, Readings
  <2> HIDE DEF open
  <2>4. open # <<>> /\ Last(open) = Top /\ Len(open) \in Nat \ {0}
    BY <2>1, <2>2, StackIsTyped, TopIsOpen DEF Top
  <2>5. OthersStarted(open, <<>>)
    BY <2>1, <2>2, <2>4 DEF OthersStarted, Last
  <2>6. EndsWith(open, <<>>)
    BY <2>4 DEF EndsWith
  <2> QED
    BY <2>1, <2>2, <2>3, <2>5, <2>6 DEF LogInv, Follows, open
<1>5. ASSUME UNCHANGED vars PROVE LogInv'
  BY <1>1, <1>5 DEF vars
<1> QED
  BY <1>2, <1>3, <1>4, <1>5, StepLog DEF Next

\* What the library calls a suffix.
LEMMA EndIsSuffix ==
  ASSUME NEW open \in Seq(Frames), NEW s \in Seq(Frames), EndsWith(open, s)
  PROVE  IsSuffix(s, open)
<1> DEFINE rs == Reverse(s)
           ro == Reverse(open)
           n == Len(s)
<1>1. Len(s) \in Nat /\ Len(open) \in Nat /\ Len(s) <= Len(open)
  BY DEF EndsWith
<1>2. /\ rs = [i \in 1..Len(s) |-> s[(Len(s) - i) + 1]]
      /\ ro = [i \in 1..Len(open) |-> open[(Len(open) - i) + 1]]
  BY DEF Reverse
<1>3. /\ rs \in Seq(Frames) /\ Len(rs) = Len(s) /\ ro \in Seq(Frames) /\ Len(ro) = Len(open)
  BY <1>1, <1>2
<1>4. \A i \in 1..n : rs[i] = ro[i]
  <2> SUFFICES ASSUME NEW i \in 1..n PROVE rs[i] = ro[i]
    OBVIOUS
  <2>1. rs[i] = s[(Len(s) - i) + 1] /\ ro[i] = open[(Len(open) - i) + 1]
    BY <1>1, <1>2
  <2>2. /\ (Len(s) - i) + 1 \in 1..Len(s)
        /\ Len(open) - Len(s) + ((Len(s) - i) + 1) = (Len(open) - i) + 1
    BY <1>1
  <2>3. s[(Len(s) - i) + 1] = open[Len(open) - Len(s) + ((Len(s) - i) + 1)]
    BY <2>2 DEF EndsWith
  <2> QED
    BY <2>1, <2>2, <2>3
<1> HIDE DEF rs, ro, n
<1>5. SubSeq(rs, 1, n) = SubSeq(ro, 1, n)
  BY <1>1, <1>3, <1>4 DEF n
<1> QED
  BY <1>1, <1>3, <1>5 DEF IsSuffix, IsPrefix, rs, ro, n

\* However dispatches nest, and whatever modules answer or throw, the log tells
\* what is under way and what was answered.
THEOREM LogTheorem == Spec => []LogIsTrue
<1>1. Init => IInv /\ LogInv
  BY InitInv, InitLog
<1>2. IInv /\ LogInv /\ [Next]_vars => IInv' /\ LogInv'
  BY NextInv, NextLog
<1>3. IInv /\ LogInv => LogIsTrue
  <2> SUFFICES ASSUME IInv, LogInv PROVE LogIsTrue
    OBVIOUS
  <2>1. Open = Read(events).open /\ Endings = Read(events).ended
    BY DEF Open, Endings, Read
  <2>2. LogTellsStack
    BY <2>1, StackIsTyped, EndIsSuffix DEF LogTellsStack, LogInv, Follows
  <2>3. LogTellsAnswers
    BY <2>1, StackIsTyped DEF LogTellsAnswers, LogInv, Follows, Agree
  <2> QED
    BY <2>2, <2>3 DEF LogIsTrue
<1> QED
  BY <1>1, <1>2, <1>3, PTL DEF Spec
=============================================================================

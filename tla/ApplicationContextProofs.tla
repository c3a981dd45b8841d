----------------------- MODULE ApplicationContextProofs -----------------------
(***************************************************************************)
(* What the container does for any finite set of beans, any fields (lists  *)
(* that name a type twice included), and any processors: each bean is made *)
(* once, its fields hold the container's beans but for circles through a   *)
(* processor, and no bean that a processor does not need misses one.       *)
(***************************************************************************)
EXTENDS ApplicationContext, FiniteSetTheorems, TLAPS

\* A call of doCreateBean: its bean and the field to inject.
Frames == [bean : Beans, field : Nat]

\* The shape of the state.
Shapes ==
  /\ fields \in [Beans -> FieldLists] /\ processorBeans \in SUBSET Beans /\ replacing \in SUBSET processorBeans
  /\ stack \in Seq(Frames) /\ processors \in Seq(Beans)
  /\ ioc \in [Beans -> Objects \cup {Null}] /\ loadingIoc \in [Beans -> Objects \cup {Null}]
  /\ injected \in [Beans -> Seq(Objects \cup {Null})]
  /\ \A b \in Beans : Len(injected[b]) = Len(fields[b])
  /\ created \in [Beans -> Nat] /\ processedBy \in [Beans -> Seq(Beans)]

\* No bean's creation is under way twice, and each call was made for a bean that the callers' beans use.
Calls ==
  /\ \A i, j \in DOMAIN stack : stack[i].bean = stack[j].bean => i = j
  /\ \A i, j \in DOMAIN stack : i < j => Reaches(stack[i].bean, stack[j].bean)
  /\ stack # <<>> /\ phase = "processors" => stack[1].bean \in processorBeans

\* A bean is in one of the two caches from its only instantiation on.
Caches ==
  \A b \in Beans : /\ ioc[b] # Null => loadingIoc[b] = Null
                   /\ created[b] = IF ioc[b] # Null \/ loadingIoc[b] # Null THEN 1 ELSE 0

\* What the two passes over the definitions have done so far.
Passes ==
  /\ phase = "processors" => \A i \in 1 .. at - 1 : Definitions[i] \in processorBeans => Definitions[i] \in ToSet(processors)
  /\ phase # "processors" => ToSet(processors) = processorBeans
  /\ phase = "beans" => \A i \in 1 .. at - 1 : ioc[Definitions[i]] # Null
  /\ phase = "done" => \A b \in Beans : ioc[b] # Null

\* What an injected field holds: the container's bean, or the object a bean of the same
\* circle was when it was under way.
Holds(b, i) ==
  LET d == fields[b][i] IN
  \/ ioc[d] # Null /\ injected[b][i] = ioc[d]
  \/ Reaches(d, b) /\ injected[b][i] = Raw(d) /\ (ioc[d] # Null \/ loadingIoc[d] # Null)

\* The fields of finished beans, and those the calls under way have passed.
Injected == \A b \in Beans : \A i \in DOMAIN fields[b] :
              ioc[b] # Null \/ (\E k \in DOMAIN stack : stack[k].bean = b /\ i < stack[k].field) => Holds(b, i)

\* A bean that missed a processor is one that a processor needed.
Processed == \A b \in Beans : ioc[b] # Null => \/ b \in processorBeans
                                               \/ \E p \in processorBeans : Reaches(p, b)
                                               \/ ToSet(processedBy[b]) = processorBeans

IInv == TypeOK /\ Shapes /\ Calls /\ Caches /\ Passes /\ Injected /\ Processed

-----------------------------------------------------------------------------
(* Definitions, objects and uses *)

\* The scan finds each bean, at one place.
LEMMA DefinitionFacts == /\ Len(Definitions) \in Nat \ {0} /\ Definitions \in [1 .. Len(Definitions) -> Beans]
                         /\ \A b \in Beans : \E i \in 1 .. Len(Definitions) : Definitions[i] = b
<1> DEFINE n == Cardinality(Beans)
<1>1. n \in Nat /\ n # 0
  BY BeansAssumption, FS_CardinalityType, FS_EmptySet
<1>2. ExistsBijection(1 .. n, Beans)
  <2>1. PICK m \in Nat : ExistsBijection(1 .. m, Beans)
    BY BeansAssumption, FS_NatBijection
  <2>2. m = n
    BY <2>1, FS_CountingElements
  <2>3. QED
    BY <2>1, <2>2
<1>3. \E f \in [1 .. n -> Beans] : IsInjective(f)
  BY <1>2 DEF ExistsBijection, Bijection, Injection, IsInjective
<1>4. Definitions \in [1 .. n -> Beans] /\ IsInjective(Definitions)
  BY <1>3 DEF Definitions, SetToSeq
<1>5. Len(Definitions) = n
  BY <1>1, <1>4
<1>6. \A b \in Beans : \E i \in 1 .. n : Definitions[i] = b
  <2>1. IsFiniteSet(1 .. n) /\ Cardinality(1 .. n) = n
    BY <1>1, FS_Interval
  <2>2. Definitions \in Injection(1 .. n, Beans)
    BY <1>4 DEF Injection
  <2>3. Definitions \in Surjection(1 .. n, Beans)
    BY <2>1, <2>2, BeansAssumption, FS_Injection
  <2>4. QED
    BY <2>3 DEF Surjection
<1>7. QED
  BY <1>1, <1>4, <1>5, <1>6

\* Objects are not Null, and an object no processor replaced is the one instantiated.
LEMMA ObjectFacts == /\ Null \notin Objects
                     /\ \A b \in Beans : Raw(b) \in Objects /\ Raw(b) # Null /\ Raw(b).bean = b
                     /\ \A o \in Objects : o.bean \in Beans /\ (o.replacedBy = {} => o = Raw(o.bean))
  BY BeansAssumption DEF Objects, Raw

\* Reaching is transitive along the fields.
LEMMA ReachFacts == ASSUME Shapes
                    PROVE  /\ \A b \in Beans : \A i \in DOMAIN fields[b] : fields[b][i] \in Beans /\ Reaches(b, fields[b][i])
                           /\ \A d, b \in Beans : \A i \in DOMAIN fields[b] : Reaches(d, b) => Reaches(d, fields[b][i])
<1>1. \A b \in Beans : fields[b] \in Seq(Beans)
  BY BeansAssumption DEF Shapes
<1>2. \A b \in Beans : \A i \in DOMAIN fields[b] : fields[b][i] \in Beans /\ fields[b][i] \in ToSet(fields[b])
  BY <1>1 DEF ToSet
<1>3. \A b \in Beans : \A i \in DOMAIN fields[b] : Reaches(b, fields[b][i])
  BY <1>2 DEF Reaches
<1>4. ASSUME NEW d \in Beans, NEW b \in Beans, NEW i \in DOMAIN fields[b], Reaches(d, b) PROVE Reaches(d, fields[b][i])
  BY <1>2, <1>4 DEF Reaches
<1>5. QED
  BY <1>2, <1>3, <1>4

\* The fields of a class do not change, so what reaches what does not.
LEMMA ReachStays == ASSUME fields' = fields PROVE \A d, b \in Beans : Reaches(d, b)' <=> Reaches(d, b)
  BY DEF Reaches

-----------------------------------------------------------------------------
(* The invariant *)

\* At first nothing was created.
LEMMA InitIInv == Init => IInv
<1> SUFFICES ASSUME Init PROVE IInv
  OBVIOUS
<1> USE DEF Init
<1>1. TypeOK
  BY DefinitionFacts DEF TypeOK, ToSet
<1>2. Shapes
  <2>1. \A b \in Beans : fields[b] \in Seq(Beans)
    BY BeansAssumption
  <2>2. injected \in [Beans -> Seq(Objects \cup {Null})] /\ \A b \in Beans : Len(injected[b]) = Len(fields[b])
    <3>1. ASSUME NEW b \in Beans PROVE injected[b] \in Seq(Objects \cup {Null}) /\ Len(injected[b]) = Len(fields[b])
      <4>1. injected[b] = [i \in 1 .. Len(fields[b]) |-> Null] /\ Len(fields[b]) \in Nat
        BY <2>1
      <4>2. QED
        BY <4>1
    <3>2. QED
      BY <3>1
  <2>3. QED
    BY <2>2 DEF Shapes
<1>3. Calls /\ Processed /\ Injected /\ Caches
  BY DEF Calls, Processed, Injected, Caches
<1>4. Passes
  BY DEF Passes
<1>5. QED
  BY <1>1, <1>2, <1>3, <1>4 DEF IInv

\* The calls under way, and the innermost of them.
LEMMA StackFacts == ASSUME IInv
                    PROVE  /\ Len(stack) \in Nat /\ DOMAIN stack = 1 .. Len(stack)
                           /\ \A i \in 1 .. Len(stack) : stack[i] \in Frames
                           /\ stack = <<>> <=> Len(stack) = 0
                           /\ stack # <<>> => /\ Len(stack) \in DOMAIN stack /\ Top = stack[Len(stack)] /\ Top.bean \in Beans
                                              /\ Top.field \in 1 .. Len(fields[Top.bean]) + 1
                                              /\ fields[Top.bean] \in Seq(Beans) /\ loadingIoc[Top.bean] # Null
                                              /\ ioc[Top.bean] = Null
<1>1. stack \in Seq(Frames) /\ \A b \in Beans : fields[b] \in Seq(Beans)
  BY BeansAssumption DEF IInv, Shapes
<1>2. /\ Len(stack) \in Nat /\ DOMAIN stack = 1 .. Len(stack) /\ (stack = <<>> <=> Len(stack) = 0)
      /\ \A i \in 1 .. Len(stack) : stack[i] \in Frames
  <2>1. Len(stack) \in Nat /\ DOMAIN stack = 1 .. Len(stack)
    BY <1>1
  <2>2. \A i \in 1 .. Len(stack) : stack[i] \in Frames
    BY <1>1
  <2>3. stack = <<>> <=> Len(stack) = 0
    BY <1>1
  <2>4. QED
    BY <2>1, <2>2, <2>3
<1>3. ASSUME stack # <<>>
      PROVE  /\ Len(stack) \in DOMAIN stack /\ Top = stack[Len(stack)] /\ Top.bean \in Beans
             /\ Top.field \in 1 .. Len(fields[Top.bean]) + 1
  BY <1>2, <1>3 DEF Top, Last, IInv, TypeOK
<1>4. ASSUME stack # <<>> PROVE loadingIoc[Top.bean] # Null /\ ioc[Top.bean] = Null
  BY <1>3, <1>4 DEF IInv, TypeOK, Caches
<1>5. QED
  BY <1>1, <1>2, <1>3, <1>4

\* What a step that leaves the calls and the objects alone keeps.
LEMMA PassStep == ASSUME IInv, UNCHANGED <<config, stack, ioc, loadingIoc, injected, created, processedBy>>,
                         processors' \in Seq(Beans), stack = <<>>
                  PROVE  Shapes' /\ Calls' /\ Caches' /\ Injected' /\ Processed'
<1>1. UNCHANGED <<fields, processorBeans, replacing>> /\ \A d, b \in Beans : Reaches(d, b)' <=> Reaches(d, b)
  BY ReachStays DEF config
<1>2. Shapes'
  BY <1>1 DEF IInv, Shapes
<1>3. Calls'
  BY StackFacts DEF Calls
<1>4. Caches'
  BY DEF IInv, Caches
<1>5. Processed'
  BY <1>1 DEF IInv, Processed, Shapes
<1>6. Injected'
  BY <1>1, ReachFacts DEF IInv, Injected, Holds
<1>7. QED
  BY <1>2, <1>3, <1>4, <1>5, <1>6

\* A definition that is left out in the first pass.
LEMMA SkipStep == ASSUME IInv, SkipDefinition PROVE IInv'
<1>1. /\ UNCHANGED <<config, stack, ioc, loadingIoc, processors, injected, created, processedBy>> /\ stack = <<>>
      /\ phase = "processors" /\ Definitions[at] \notin processorBeans /\ Step
  BY DEF SkipDefinition, Skip, Definition
<1>2. UNCHANGED <<fields, processorBeans, replacing>> /\ processors' \in Seq(Beans)
  BY <1>1 DEF config, IInv, Shapes
<1>3. Shapes' /\ Calls' /\ Caches' /\ Injected' /\ Processed'
  BY <1>1, <1>2, PassStep
<1>4. at \in 1 .. Len(Definitions) /\ Len(Definitions) \in Nat \ {0}
  BY DefinitionFacts DEF IInv, TypeOK
<1>5. \/ at < Len(Definitions) /\ at' = at + 1 /\ phase' = phase
      \/ at = Len(Definitions) /\ at' = 1 /\ phase' = "beans"
  BY <1>1, <1>4 DEF Step
<1>6. TypeOK'
  BY <1>1, <1>2, <1>4, <1>5 DEF IInv, TypeOK
<1>7. Passes'
  <2>1. \A i \in 1 .. at : Definitions[i] \in processorBeans => Definitions[i] \in ToSet(processors)
    BY <1>1, <1>4 DEF IInv, Passes
  <2>2. CASE at' = at + 1 /\ phase' = phase
    BY <1>1, <1>2, <1>4, <2>1, <2>2 DEF Passes
  <2>3. CASE at = Len(Definitions) /\ at' = 1 /\ phase' = "beans"
    <3>1. ToSet(processors) = processorBeans
      <4>1. ASSUME NEW p \in processorBeans PROVE p \in ToSet(processors)
        <5>1. PICK i \in 1 .. Len(Definitions) : Definitions[i] = p
          BY DefinitionFacts DEF IInv, Shapes
        <5>2. QED
          BY <2>1, <2>3, <5>1
      <4>2. QED
        BY <4>1 DEF IInv, TypeOK
    <3>2. QED
      BY <1>1, <1>2, <2>3, <3>1 DEF Passes
  <2>4. QED
    BY <1>5, <2>2, <2>3
<1>8. QED
  BY <1>3, <1>6, <1>7 DEF IInv

\* A definition whose bean exists: a processor joins the list in the first pass.
LEMMA CreatedStep == ASSUME IInv, DefinitionCreated PROVE IInv'
<1>1. /\ UNCHANGED <<config, stack, ioc, loadingIoc, injected, created, processedBy>> /\ stack = <<>> /\ phase # "done"
      /\ phase = "processors" => Definitions[at] \in processorBeans
      /\ ioc[Definitions[at]] # Null /\ Step
      /\ processors' = IF phase = "processors" THEN Append(processors, Definitions[at]) ELSE processors
  BY DEF DefinitionCreated, Skip, Definition
<1>2. at \in 1 .. Len(Definitions) /\ Len(Definitions) \in Nat \ {0} /\ Definitions[at] \in Beans
  BY DefinitionFacts DEF IInv, TypeOK
<1>3. UNCHANGED <<fields, processorBeans, replacing>> /\ processors \in Seq(Beans) /\ processors' \in Seq(Beans)
  BY <1>1, <1>2 DEF config, IInv, Shapes
<1>4. Shapes' /\ Calls' /\ Caches' /\ Injected' /\ Processed'
  BY <1>1, <1>3, PassStep
<1>5. \/ at < Len(Definitions) /\ at' = at + 1 /\ phase' = phase
      \/ at = Len(Definitions) /\ at' = 1 /\ phase' = IF phase = "processors" THEN "beans" ELSE "done"
  BY <1>1, <1>2 DEF Step
<1>6. ToSet(processors') = IF phase = "processors" THEN ToSet(processors) \cup {Definitions[at]} ELSE ToSet(processors)
  <2>1. CASE phase = "processors"
    <3>1. /\ Len(processors) \in Nat /\ DOMAIN processors = 1 .. Len(processors) /\ DOMAIN processors' = 1 .. Len(processors) + 1
          /\ \A i \in 1 .. Len(processors) : processors'[i] = processors[i]
          /\ processors'[Len(processors) + 1] = Definitions[at]
      BY <1>1, <1>2, <1>3, <2>1
    <3>2. \A i \in 1 .. Len(processors) + 1 : i \in 1 .. Len(processors) \/ i = Len(processors) + 1
      BY <3>1
    <3>3. ToSet(processors') \subseteq ToSet(processors) \cup {Definitions[at]}
      BY <3>1, <3>2 DEF ToSet
    <3>4. ToSet(processors) \subseteq ToSet(processors')
      BY <3>1 DEF ToSet
    <3>5. Definitions[at] \in ToSet(processors')
      BY <3>1 DEF ToSet
    <3>6. QED
      BY <2>1, <3>3, <3>4, <3>5
  <2>2. CASE phase # "processors"
    BY <1>1, <2>2
  <2>3. QED
    BY <2>1, <2>2
<1>7. TypeOK'
  <2>1. ToSet(processors') \subseteq processorBeans'
    BY <1>1, <1>3, <1>6 DEF IInv, TypeOK
  <2>2. phase' \in {"processors", "beans", "done"} /\ at' \in 1 .. Len(Definitions)
    BY <1>2, <1>5 DEF IInv, TypeOK
  <2>3. QED
    BY <1>1, <1>3, <2>1, <2>2 DEF IInv, TypeOK
<1>8. Passes'
  <2>1. phase = "processors" => \A i \in 1 .. at : Definitions[i] \in processorBeans => Definitions[i] \in ToSet(processors')
    BY <1>2, <1>6 DEF IInv, Passes
  <2>2. phase = "beans" => \A i \in 1 .. at : ioc[Definitions[i]] # Null
    BY <1>1, <1>2 DEF IInv, Passes
  <2>3. phase # "processors" => ToSet(processors') = processorBeans
    BY <1>6 DEF IInv, Passes
  <2>4. CASE at' = at + 1 /\ phase' = phase
    BY <1>1, <1>2, <1>3, <2>1, <2>2, <2>3, <2>4 DEF Passes
  <2>5. CASE at = Len(Definitions) /\ at' = 1 /\ phase = "processors" /\ phase' = "beans"
    <3>1. ToSet(processors') = processorBeans
      <4>1. ToSet(processors') \subseteq processorBeans
        BY <1>3, <1>7 DEF TypeOK
      <4>2. ASSUME NEW p \in processorBeans PROVE p \in ToSet(processors')
        <5>1. PICK i \in 1 .. Len(Definitions) : Definitions[i] = p
          BY DefinitionFacts DEF IInv, Shapes
        <5>2. QED
          BY <2>1, <2>5, <5>1
      <4>3. QED
        BY <4>1, <4>2
    <3>2. QED
      BY <1>3, <2>5, <3>1 DEF Passes
  <2>6. CASE at = Len(Definitions) /\ phase = "beans" /\ phase' = "done"
    <3>1. \A b \in Beans : ioc[b] # Null
      BY <2>2, <2>6, DefinitionFacts
    <3>2. QED
      BY <1>1, <1>3, <2>3, <2>6, <3>1 DEF Passes
  <2>7. QED
    BY <1>1, <1>5, <2>4, <2>5, <2>6 DEF IInv, TypeOK
<1>9. QED
  BY <1>4, <1>7, <1>8 DEF IInv

\* A new object, in the second cache: the bean's only one, on top of the calls that need it.
LEMMA InstantiateStep == ASSUME IInv, NEW b \in Beans, ioc[b] = Null, loadingIoc[b] = Null, Instantiate(b),
                                UNCHANGED <<config, phase, at, ioc, processors, injected, processedBy>>,
                                \A i \in DOMAIN stack : Reaches(stack[i].bean, b),
                                stack = <<>> /\ phase = "processors" => b \in processorBeans
                         PROVE  IInv'
<1> DEFINE call == [bean |-> b, field |-> 1]
<1>1. UNCHANGED <<fields, processorBeans, replacing>> /\ \A d, c \in Beans : Reaches(d, c)' <=> Reaches(d, c)
  BY ReachStays DEF config
<1>2. /\ stack' = Append(stack, call) /\ loadingIoc' = [loadingIoc EXCEPT ![b] = Raw(b)]
      /\ created' = [created EXCEPT ![b] = @ + 1]
  BY DEF Instantiate
<1>3. /\ stack \in Seq(Frames) /\ call \in Frames /\ Len(stack) \in Nat /\ fields[b] \in Seq(Beans)
      /\ loadingIoc \in [Beans -> Objects \cup {Null}] /\ created \in [Beans -> Nat]
  BY StackFacts, BeansAssumption DEF IInv, Shapes, Frames
<1> HIDE DEF call
<1>4. /\ stack' \in Seq(Frames) /\ DOMAIN stack' = 1 .. Len(stack) + 1 /\ DOMAIN stack = 1 .. Len(stack) /\ Len(stack') = Len(stack) + 1
      /\ \A i \in 1 .. Len(stack) + 1 : stack'[i] = IF i <= Len(stack) THEN stack[i] ELSE call
  BY <1>2, <1>3
<1>5. call.bean = b /\ call.field = 1
  BY DEF call
<1>6. /\ \A i \in DOMAIN stack : i \in DOMAIN stack' /\ stack'[i] = stack[i] /\ stack[i].bean # b /\ i <= Len(stack)
      /\ \A i \in DOMAIN stack' : i \in DOMAIN stack \/ i = Len(stack) + 1
      /\ Len(stack) + 1 \in DOMAIN stack' /\ stack'[Len(stack) + 1] = call /\ Len(stack) + 1 \notin DOMAIN stack
  <2>1. \A i \in DOMAIN stack : stack[i].bean # b
    BY DEF IInv, TypeOK
  <2>2. QED
    BY <1>3, <1>4, <2>1
<1>7. \A c \in Beans : loadingIoc'[c] = IF c = b THEN Raw(b) ELSE loadingIoc[c]
  BY <1>2, <1>3
<1>8. TypeOK'
  <2>1. \A i \in DOMAIN stack' : stack'[i].bean \in Beans /\ stack'[i].field \in 1 .. Len(fields'[stack'[i].bean]) + 1
    <3>1. \A i \in DOMAIN stack : stack[i].bean \in Beans /\ stack[i].field \in 1 .. Len(fields[stack[i].bean]) + 1
      BY DEF IInv, TypeOK
    <3>2. call.bean \in Beans /\ call.field \in 1 .. Len(fields[call.bean]) + 1
      BY <1>3, <1>5
    <3>3. QED
      BY <1>1, <1>6, <3>1, <3>2
  <2>2. \A c \in Beans : loadingIoc'[c] # Null <=> \E i \in DOMAIN stack' : stack'[i].bean = c
    <3>1. \A c \in Beans : loadingIoc[c] # Null <=> \E i \in DOMAIN stack : stack[i].bean = c
      BY DEF IInv, TypeOK
    <3>2. loadingIoc'[b] # Null /\ \E i \in DOMAIN stack' : stack'[i].bean = b
      BY <1>5, <1>6, <1>7, ObjectFacts
    <3>3. ASSUME NEW c \in Beans, c # b PROVE loadingIoc'[c] # Null <=> \E i \in DOMAIN stack' : stack'[i].bean = c
      BY <1>5, <1>6, <1>7, <3>1, <3>3
    <3>4. QED
      BY <3>2, <3>3
  <2>3. \A c \in Beans : loadingIoc'[c] \in {Null, Raw(c)}
    BY <1>7 DEF IInv, TypeOK
  <2>4. QED
    BY <1>1, <2>1, <2>2, <2>3 DEF IInv, TypeOK
<1>9. Shapes'
  BY <1>1, <1>2, <1>3, <1>4, ObjectFacts DEF IInv, Shapes
<1>10. Calls'
  <2>1. \A i, j \in DOMAIN stack' : stack'[i].bean = stack'[j].bean => i = j
    BY <1>5, <1>6 DEF IInv, Calls
  <2>2. ASSUME NEW i \in DOMAIN stack', NEW j \in DOMAIN stack', i < j PROVE Reaches(stack[i].bean, stack[j].bean)'
    <3>1. i \in DOMAIN stack /\ stack'[i] = stack[i] /\ stack[i].bean \in Beans
      BY <1>3, <1>4, <1>6, <2>2 DEF IInv, TypeOK
    <3>2. CASE j \in DOMAIN stack
      <4>1. Reaches(stack[i].bean, stack[j].bean) /\ stack'[j] = stack[j] /\ stack[j].bean \in Beans
        BY <1>6, <2>2, <3>1, <3>2 DEF IInv, Calls, TypeOK
      <4>2. QED
        BY <1>1, <3>1, <4>1
    <3>3. CASE j = Len(stack) + 1
      BY <1>1, <1>5, <1>6, <3>1, <3>3
    <3>4. QED
      BY <1>6, <3>2, <3>3
  <2>3. stack' # <<>> /\ phase' = "processors" => stack'[1].bean \in processorBeans'
    <3>1. CASE stack = <<>>
      BY <1>1, <1>5, <1>6, <3>1, StackFacts
    <3>2. CASE stack # <<>>
      <4>1. 1 \in DOMAIN stack
        BY <1>3, <1>4, <3>2, StackFacts
      <4>2. QED
        BY <1>1, <1>6, <3>2, <4>1 DEF IInv, Calls
    <3>3. QED
      BY <3>1, <3>2
  <2>4. QED
    BY <2>1, <2>2, <2>3 DEF Calls
<1>11. Caches' /\ Passes' /\ Processed'
  <2>1. Caches'
    BY <1>2, <1>3, <1>7, ObjectFacts DEF IInv, Caches
  <2>2. Passes'
    BY <1>1 DEF IInv, Passes
  <2>3. Processed'
    BY <1>1 DEF IInv, Processed, Shapes
  <2>4. QED
    BY <2>1, <2>2, <2>3
<1>12. Injected'
  <2> SUFFICES ASSUME NEW c \in Beans, NEW i \in DOMAIN fields[c],
                      ioc[c] # Null \/ \E k \in DOMAIN stack' : stack'[k].bean = c /\ i < stack'[k].field
               PROVE  Holds(c, i)'
    BY <1>1 DEF Injected
  <2>1. i \in Nat /\ i >= 1 /\ fields[c][i] \in Beans
    <3>1. fields[c] \in Seq(Beans)
      BY BeansAssumption DEF IInv, Shapes
    <3>2. QED
      BY <3>1
  <2>2. ioc[c] # Null \/ \E k \in DOMAIN stack : stack[k].bean = c /\ i < stack[k].field
    BY <1>5, <1>6, <2>1
  <2>3. Holds(c, i)
    BY <2>2 DEF IInv, Injected
  <2>4. loadingIoc[fields[c][i]] # Null => loadingIoc'[fields[c][i]] # Null
    BY <1>7, <2>1
  <2>5. QED
    BY <1>1, <2>1, <2>3, <2>4 DEF Holds
<1>13. QED
  BY <1>8, <1>9, <1>10, <1>11, <1>12 DEF IInv

\* The innermost call sets a field, to the container's bean or to an object under way.
LEMMA InjectStep == ASSUME IInv, Injecting, NEW object \in Objects, Inject(object),
                           \/ ioc[Wanted] # Null /\ object = ioc[Wanted]
                           \/ loadingIoc[Wanted] # Null /\ object = Raw(Wanted)
                    PROVE  IInv'
<1> DEFINE top == Top.bean
           at0 == Top.field
<1>1. /\ UNCHANGED <<config, phase, at, ioc, loadingIoc, processors, created, processedBy>> /\ stack # <<>>
      /\ injected' = [injected EXCEPT ![top] = [injected[top] EXCEPT ![at0] = object]]
      /\ stack' = [stack EXCEPT ![Len(stack)] = [stack[Len(stack)] EXCEPT !.field = @ + 1]]
      /\ at0 <= Len(fields[top]) /\ Wanted = fields[top][at0]
  BY DEF Inject, Injecting, Wanted
<1>2. UNCHANGED <<fields, processorBeans, replacing>> /\ \A d, c \in Beans : Reaches(d, c)' <=> Reaches(d, c)
  BY <1>1, ReachStays DEF config
<1>3. /\ Len(stack) \in DOMAIN stack /\ Top = stack[Len(stack)] /\ top \in Beans /\ fields[top] \in Seq(Beans)
      /\ at0 \in DOMAIN fields[top] /\ at0 \in Nat /\ DOMAIN stack = 1 .. Len(stack) /\ Len(stack) \in Nat
      /\ stack \in Seq(Frames) /\ stack[Len(stack)] \in Frames
  <2>1. /\ Len(stack) \in DOMAIN stack /\ Top = stack[Len(stack)] /\ top \in Beans /\ fields[top] \in Seq(Beans)
        /\ at0 \in 1 .. Len(fields[top]) + 1 /\ at0 <= Len(fields[top])
        /\ DOMAIN stack = 1 .. Len(stack) /\ Len(stack) \in Nat
    BY <1>1, StackFacts
  <2>2. stack \in Seq(Frames) /\ stack[Len(stack)] \in Frames
    BY <2>1, StackFacts DEF IInv, Shapes
  <2> HIDE DEF top, at0
  <2>3. at0 \in DOMAIN fields[top] /\ at0 \in Nat
    BY <2>1
  <2>4. QED
    BY <2>1, <2>2, <2>3
<1> DEFINE call == [bean |-> top, field |-> at0 + 1]
<1>4. /\ call \in Frames /\ call.bean = top /\ call.field = at0 + 1
      /\ [stack[Len(stack)] EXCEPT !.field = @ + 1] = call
  <2>1. PICK b \in Beans, f \in Nat : stack[Len(stack)] = [bean |-> b, field |-> f]
    BY <1>3 DEF Frames
  <2>2. b = top /\ f = at0
    BY <1>3, <2>1
  <2>3. [[bean |-> b, field |-> f] EXCEPT !.field = @ + 1] = [bean |-> b, field |-> f + 1]
    OBVIOUS
  <2>4. [stack[Len(stack)] EXCEPT !.field = @ + 1] = [bean |-> b, field |-> f + 1]
    BY <2>1, <2>3
  <2>5. [bean |-> b, field |-> f + 1] \in Frames
    BY DEF Frames
  <2>6. QED
    BY <2>2, <2>4, <2>5
<1> HIDE DEF top, at0, call
<1>5. /\ stack' = [stack EXCEPT ![Len(stack)] = call]
      /\ injected' = [injected EXCEPT ![top] = [injected[top] EXCEPT ![at0] = object]]
  BY <1>1, <1>4 DEF top, at0
<1>6. /\ stack' \in Seq(Frames) /\ DOMAIN stack' = DOMAIN stack /\ Len(stack') = Len(stack)
      /\ \A i \in DOMAIN stack : stack'[i] = IF i = Len(stack) THEN call ELSE stack[i]
  BY <1>3, <1>4, <1>5
<1>7. stack[Len(stack)].bean = top /\ stack[Len(stack)].field = at0
  BY <1>3 DEF top, at0
<1>8. /\ \A i \in DOMAIN stack : stack'[i].bean = stack[i].bean
      /\ \A i \in DOMAIN stack : stack'[i].field = IF i = Len(stack) THEN at0 + 1 ELSE stack[i].field
  BY <1>4, <1>6, <1>7
<1>9. \A b \in Beans : fields[b] \in Seq(Beans) /\ injected[b] \in Seq(Objects \cup {Null}) /\ Len(injected[b]) = Len(fields[b])
  BY BeansAssumption DEF IInv, Shapes
<1>10. /\ \A b \in Beans : DOMAIN injected[b] = DOMAIN fields[b]
       /\ injected \in [Beans -> Seq(Objects \cup {Null})]
  BY <1>9 DEF IInv, Shapes
<1>11. /\ \A b \in Beans : b # top => injected'[b] = injected[b]
       /\ injected'[top] = [injected[top] EXCEPT ![at0] = object]
       /\ \A i \in DOMAIN fields[top] : injected'[top][i] = IF i = at0 THEN object ELSE injected[top][i]
  BY <1>3, <1>5, <1>10
<1>12. injected' \in [Beans -> Seq(Objects \cup {Null})] /\ \A b \in Beans : Len(injected'[b]) = Len(fields[b])
  <2>1. injected'[top] \in Seq(Objects \cup {Null}) /\ Len(injected'[top]) = Len(fields[top])
    BY <1>3, <1>9, <1>11
  <2>2. QED
    BY <1>3, <1>5, <1>9, <1>10, <1>11, <2>1
<1>13. TypeOK'
  <2>1. \A i \in DOMAIN stack' : stack'[i].bean \in Beans /\ stack'[i].field \in 1 .. Len(fields[stack'[i].bean]) + 1
    <3>1. \A i \in DOMAIN stack : stack[i].bean \in Beans /\ stack[i].field \in 1 .. Len(fields[stack[i].bean]) + 1
      BY DEF IInv, TypeOK
    <3>2. at0 + 1 \in 1 .. Len(fields[top]) + 1
      BY <1>3
    <3>3. QED
      BY <1>3, <1>6, <1>7, <1>8, <3>1, <3>2
  <2>2. \A c \in Beans : loadingIoc[c] # Null <=> \E i \in DOMAIN stack' : stack'[i].bean = c
    BY <1>6, <1>8 DEF IInv, TypeOK
  <2>3. QED
    BY <1>1, <1>2, <2>1, <2>2 DEF IInv, TypeOK
<1>14. Shapes'
  BY <1>1, <1>2, <1>6, <1>12 DEF IInv, Shapes
<1>15. Calls'
  <2>1. \A i, j \in DOMAIN stack' : stack'[i].bean = stack'[j].bean => i = j
    BY <1>6, <1>8 DEF IInv, Calls
  <2>2. ASSUME NEW i \in DOMAIN stack', NEW j \in DOMAIN stack', i < j PROVE Reaches(stack[i].bean, stack[j].bean)'
    <3>1. /\ Reaches(stack[i].bean, stack[j].bean) /\ stack[i].bean \in Beans /\ stack[j].bean \in Beans
          /\ stack'[i].bean = stack[i].bean /\ stack'[j].bean = stack[j].bean
      BY <1>6, <1>8, <2>2 DEF IInv, Calls, TypeOK
    <3>2. QED
      BY <1>2, <3>1
  <2>3. stack' # <<>> /\ phase' = "processors" => stack'[1].bean \in processorBeans'
    <3>1. 1 \in DOMAIN stack
      BY <1>3
    <3>2. QED
      BY <1>1, <1>2, <1>8, <3>1 DEF IInv, Calls
  <2>4. QED
    BY <2>1, <2>2, <2>3 DEF Calls
<1>16. Caches' /\ Passes' /\ Processed'
  <2>1. Caches'
    BY <1>1 DEF IInv, Caches
  <2>2. Passes'
    BY <1>1, <1>2 DEF IInv, Passes
  <2>3. Processed'
    BY <1>1, <1>2 DEF IInv, Processed, Shapes
  <2>4. QED
    BY <2>1, <2>2, <2>3
<1>17. ASSUME NEW c \in Beans, NEW i \in DOMAIN fields[c], Holds(c, i), injected'[c][i] = injected[c][i] PROVE Holds(c, i)'
  <2>1. fields[c][i] \in Beans
    BY ReachFacts DEF IInv
  <2>2. QED
    BY <1>1, <1>2, <1>17, <2>1 DEF Holds
<1>18. ASSUME NEW c \in Beans, NEW i \in DOMAIN fields[c], c = top, i = at0 PROVE Holds(c, i)'
  <2>1. injected'[c][i] = object /\ Wanted = fields[c][i] /\ fields[c][i] \in Beans
    <3>1. fields[c][i] \in Beans
      BY ReachFacts DEF IInv
    <3>2. QED
      BY <1>1, <1>3, <1>11, <1>18, <3>1
  <2>2. CASE ioc[Wanted] # Null /\ object = ioc[Wanted]
    BY <1>1, <1>2, <2>1, <2>2 DEF Holds
  <2>3. CASE loadingIoc[Wanted] # Null /\ object = Raw(Wanted)
    <3>1. PICK j \in DOMAIN stack : stack[j].bean = fields[c][i]
      BY <2>1, <2>3 DEF IInv, TypeOK
    <3>2. Reaches(fields[c][i], c)
      <4>1. CASE j = Len(stack)
        <5>1. fields[c][i] = c
          BY <1>7, <1>18, <3>1, <4>1
        <5>2. Reaches(c, fields[c][i])
          BY ReachFacts DEF IInv
        <5>3. QED
          BY <5>1, <5>2
      <4>2. CASE j < Len(stack)
        BY <1>3, <1>7, <1>18, <3>1, <4>2 DEF IInv, Calls
      <4>3. QED
        BY <1>3, <3>1, <4>1, <4>2
    <3>3. Reaches(fields[c][i], c)'
      BY <1>2, <2>1, <3>2
    <3>4. QED
      BY <1>1, <1>2, <2>1, <2>3, <3>3 DEF Holds
  <2>4. QED
    <3>1. (ioc[Wanted] # Null /\ object = ioc[Wanted]) \/ (loadingIoc[Wanted] # Null /\ object = Raw(Wanted))
      OBVIOUS
    <3>2. QED
      BY <2>2, <2>3, <3>1
<1>19. Injected'
  <2> SUFFICES ASSUME NEW c \in Beans, NEW i \in DOMAIN fields[c],
                      ioc[c] # Null \/ \E k \in DOMAIN stack' : stack'[k].bean = c /\ i < stack'[k].field
               PROVE  Holds(c, i)'
    BY <1>1, <1>2 DEF Injected
  <2>1. CASE c = top /\ i = at0
    BY <1>18, <2>1
  <2>2. CASE ~(c = top /\ i = at0)
    <3>1. i \in Nat
      BY <1>9
    <3>2. ioc[c] # Null \/ \E k \in DOMAIN stack : stack[k].bean = c /\ i < stack[k].field
      <4>1. ASSUME NEW k \in DOMAIN stack', stack'[k].bean = c, i < stack'[k].field
            PROVE  stack[k].bean = c /\ i < stack[k].field
        <5>1. CASE k = Len(stack)
          BY <1>3, <1>6, <1>7, <1>8, <2>2, <3>1, <4>1, <5>1
        <5>2. CASE k # Len(stack)
          BY <1>6, <1>8, <4>1, <5>2
        <5>3. QED
          BY <5>1, <5>2
      <4>2. QED
        BY <1>6, <4>1
    <3>3. Holds(c, i)
      BY <3>2 DEF IInv, Injected
    <3>4. injected'[c][i] = injected[c][i]
      BY <1>11, <2>2
    <3>5. QED
      BY <1>17, <3>3, <3>4
  <2>3. QED
    BY <2>1, <2>2
<1>20. QED
  BY <1>13, <1>14, <1>15, <1>16, <1>19 DEF IInv

\* The innermost call has set all fields: its bean goes through the processors and into the container.
LEMMA FinishStep == ASSUME IInv, Finish PROVE IInv'
<1> DEFINE top == Top.bean
<1>1. /\ UNCHANGED <<config, phase, at, processors, injected, created>> /\ stack # <<>>
      /\ Top.field > Len(fields[top]) /\ stack' = SubSeq(stack, 1, Len(stack) - 1)
      /\ processedBy' = [processedBy EXCEPT ![top] = processors]
      /\ loadingIoc' = [loadingIoc EXCEPT ![top] = Null] /\ ioc' = [ioc EXCEPT ![top] = Finished(top)]
  <2>1. /\ UNCHANGED <<config, phase, at, processors, injected, created>> /\ stack # <<>> /\ ~Injecting
        /\ stack' = SubSeq(stack, 1, Len(stack) - 1)
        /\ processedBy' = [processedBy EXCEPT ![top] = processors]
        /\ loadingIoc' = [loadingIoc EXCEPT ![top] = Null] /\ ioc' = [ioc EXCEPT ![top] = Finished(top)]
    BY DEF Finish, Unloaded, Front
  <2>2. Top.field \in Int /\ Len(fields[top]) \in Int
    BY <2>1, StackFacts
  <2>3. QED
    BY <2>1, <2>2 DEF Injecting
<1>2. UNCHANGED <<fields, processorBeans, replacing>> /\ \A d, c \in Beans : Reaches(d, c)' <=> Reaches(d, c)
  BY <1>1, ReachStays DEF config
<1>3. /\ Len(stack) \in DOMAIN stack /\ Top = stack[Len(stack)] /\ top \in Beans /\ fields[top] \in Seq(Beans)
      /\ DOMAIN stack = 1 .. Len(stack) /\ Len(stack) \in Nat \ {0} /\ stack \in Seq(Frames)
      /\ ioc[top] = Null /\ loadingIoc[top] # Null /\ Top.field = Len(fields[top]) + 1
  <2>1. /\ Len(stack) \in DOMAIN stack /\ Top = stack[Len(stack)] /\ top \in Beans /\ fields[top] \in Seq(Beans)
        /\ DOMAIN stack = 1 .. Len(stack) /\ Len(stack) \in Nat
        /\ ioc[top] = Null /\ loadingIoc[top] # Null
        /\ Top.field \in 1 .. Len(fields[top]) + 1 /\ Top.field > Len(fields[top])
    BY <1>1, StackFacts
  <2> HIDE DEF top
  <2>2. Len(stack) \in Nat \ {0} /\ Top.field = Len(fields[top]) + 1
    BY <2>1
  <2>3. stack \in Seq(Frames)
    BY DEF IInv, Shapes
  <2>4. QED
    BY <2>1, <2>2, <2>3
<1>4. Finished(top) \in Objects /\ Finished(top) # Null /\ Finished(top).bean = top
  BY <1>3, ObjectFacts DEF Finished, Objects, IInv, TypeOK, Shapes
<1> HIDE DEF top
<1>5. stack[Len(stack)].bean = top /\ stack[Len(stack)].field = Len(fields[top]) + 1
  BY <1>3 DEF top
<1>6. /\ stack' \in Seq(Frames) /\ Len(stack') = Len(stack) - 1 /\ DOMAIN stack' = 1 .. Len(stack) - 1
      /\ \A i \in 1 .. Len(stack) - 1 : stack'[i] = stack[i]
  BY <1>1, <1>3
<1>7. /\ \A i \in DOMAIN stack' : i \in DOMAIN stack /\ i # Len(stack) /\ stack'[i] = stack[i] /\ stack[i].bean # top
      /\ \A i \in DOMAIN stack : i \in DOMAIN stack' \/ i = Len(stack)
  <2>1. \A i \in DOMAIN stack : i # Len(stack) => stack[i].bean # top
    BY <1>3, <1>5 DEF IInv, Calls
  <2>2. QED
    BY <1>3, <1>6, <2>1
<1>8. /\ \A c \in Beans : loadingIoc'[c] = IF c = top THEN Null ELSE loadingIoc[c]
      /\ \A c \in Beans : ioc'[c] = IF c = top THEN Finished(top) ELSE ioc[c]
      /\ \A c \in Beans : processedBy'[c] = IF c = top THEN processors ELSE processedBy[c]
  BY <1>1, <1>3 DEF top, IInv, Shapes
<1>9. TypeOK'
  <2>1. \A i \in DOMAIN stack' : stack'[i].bean \in Beans /\ stack'[i].field \in 1 .. Len(fields[stack'[i].bean]) + 1
    BY <1>7 DEF IInv, TypeOK
  <2>2. \A c \in Beans : loadingIoc'[c] # Null <=> \E i \in DOMAIN stack' : stack'[i].bean = c
    <3>1. \A c \in Beans : loadingIoc[c] # Null <=> \E i \in DOMAIN stack : stack[i].bean = c
      BY DEF IInv, TypeOK
    <3>2. ASSUME NEW c \in Beans, c # top PROVE loadingIoc'[c] # Null <=> \E i \in DOMAIN stack' : stack'[i].bean = c
      BY <1>5, <1>7, <1>8, <3>1, <3>2
    <3>3. QED
      BY <1>7, <1>8, <3>2
  <2>3. \A c \in Beans : loadingIoc'[c] \in {Null, Raw(c)} /\ (ioc'[c] # Null => ioc'[c].bean = c)
    BY <1>4, <1>8 DEF IInv, TypeOK
  <2>4. QED
    BY <1>1, <1>2, <2>1, <2>2, <2>3 DEF IInv, TypeOK
<1>10. Shapes'
  <2>1. processors \in Seq(Beans) /\ ioc \in [Beans -> Objects \cup {Null}] /\ loadingIoc \in [Beans -> Objects \cup {Null}]
        /\ processedBy \in [Beans -> Seq(Beans)]
    BY DEF IInv, Shapes
  <2>2. /\ ioc' \in [Beans -> Objects \cup {Null}] /\ loadingIoc' \in [Beans -> Objects \cup {Null}]
        /\ processedBy' \in [Beans -> Seq(Beans)]
    BY <1>1, <1>4, <2>1 DEF top
  <2>3. QED
    BY <1>1, <1>2, <1>6, <2>2 DEF IInv, Shapes
<1>11. Calls'
  <2>1. \A i, j \in DOMAIN stack' : stack'[i].bean = stack'[j].bean => i = j
    BY <1>7 DEF IInv, Calls
  <2>2. ASSUME NEW i \in DOMAIN stack', NEW j \in DOMAIN stack', i < j PROVE Reaches(stack[i].bean, stack[j].bean)'
    <3>1. /\ Reaches(stack[i].bean, stack[j].bean) /\ stack[i].bean \in Beans /\ stack[j].bean \in Beans
          /\ stack'[i].bean = stack[i].bean /\ stack'[j].bean = stack[j].bean
      BY <1>7, <2>2 DEF IInv, Calls, TypeOK
    <3>2. QED
      BY <1>2, <3>1
  <2>3. stack' # <<>> /\ phase' = "processors" => stack'[1].bean \in processorBeans'
    <3>1. stack' # <<>> => 1 \in DOMAIN stack'
      BY <1>3, <1>6
    <3>2. QED
      BY <1>1, <1>2, <1>7, <3>1 DEF IInv, Calls
  <2>4. QED
    BY <2>1, <2>2, <2>3 DEF Calls
<1>12. Caches'
  BY <1>1, <1>3, <1>4, <1>8 DEF IInv, Caches
<1>13. Passes'
  BY <1>1, <1>2, <1>4, <1>8, DefinitionFacts DEF IInv, Passes
<1>14. Processed'
  <2>1. \/ top \in processorBeans \/ \E p \in processorBeans : Reaches(p, top)
        \/ ToSet(processors) = processorBeans
    <3>1. CASE phase = "processors"
      <4>1. stack[1].bean \in processorBeans /\ 1 \in DOMAIN stack
        BY <1>1, <1>3, <3>1 DEF IInv, Calls
      <4>2. CASE Len(stack) = 1
        BY <1>5, <4>1, <4>2
      <4>3. CASE Len(stack) # 1
        <5>1. 1 < Len(stack)
          BY <1>3, <4>3
        <5>2. Reaches(stack[1].bean, top)
          BY <1>3, <1>5, <4>1, <5>1 DEF IInv, Calls
        <5>3. QED
          BY <4>1, <5>2
      <4>4. QED
        BY <4>2, <4>3
    <3>2. CASE phase # "processors"
      BY <3>2 DEF IInv, Passes
    <3>3. QED
      BY <3>1, <3>2
  <2>2. ASSUME NEW c \in Beans, ioc'[c] # Null
        PROVE  \/ c \in processorBeans \/ \E p \in processorBeans : Reaches(p, c)
               \/ ToSet(processedBy'[c]) = processorBeans
    <3>1. CASE c = top
      BY <1>8, <2>1, <3>1
    <3>2. CASE c # top
      BY <1>8, <2>2, <3>2 DEF IInv, Processed
    <3>3. QED
      BY <3>1, <3>2
  <2>3. \A p \in processorBeans : p \in Beans
    BY DEF IInv, Shapes
  <2>4. QED
    BY <1>2, <2>2, <2>3 DEF Processed
<1>15. Injected'
  <2> SUFFICES ASSUME NEW c \in Beans, NEW i \in DOMAIN fields[c],
                      ioc'[c] # Null \/ \E k \in DOMAIN stack' : stack'[k].bean = c /\ i < stack'[k].field
               PROVE  Holds(c, i)'
    BY <1>2 DEF Injected
  <2>1. fields[c] \in Seq(Beans) /\ i \in 1 .. Len(fields[c])
    BY BeansAssumption, SMTT(30) DEF IInv, Shapes
  <2>2. ioc[c] # Null \/ \E k \in DOMAIN stack : stack[k].bean = c /\ i < stack[k].field
    <3>1. CASE c = top
      <4>1. Len(stack) \in DOMAIN stack /\ stack[Len(stack)].bean = c /\ i < stack[Len(stack)].field
        BY <1>3, <1>5, <2>1, <3>1
      <4>2. QED
        BY <4>1
    <3>2. CASE c # top
      BY <1>7, <1>8, <3>2
    <3>3. QED
      BY <3>1, <3>2
  <2>3. Holds(c, i) /\ fields[c][i] \in Beans
    BY <2>1, <2>2 DEF IInv, Injected
  <2> DEFINE d == fields[c][i]
  <2>4. \/ ioc[d] # Null /\ injected[c][i] = ioc[d]
        \/ Reaches(d, c) /\ injected[c][i] = Raw(d) /\ (ioc[d] # Null \/ loadingIoc[d] # Null)
    BY <2>3 DEF Holds
  <2>5. ioc[d] # Null => ioc'[d] = ioc[d]
    BY <1>3, <1>8, <2>3 DEF top
  <2>6. loadingIoc[d] # Null => ioc'[d] # Null \/ loadingIoc'[d] # Null
    BY <1>4, <1>8, <2>3
  <2>7. Reaches(d, c) => Reaches(fields[c][i], c)'
    BY <1>2, <2>3
  <2>8. QED
    BY <1>1, <1>2, <2>4, <2>5, <2>6, <2>7 DEF Holds
<1>16. QED
  BY <1>9, <1>10, <1>11, <1>12, <1>13, <1>14, <1>15 DEF IInv

\* The invariant is inductive.
LEMMA NextIInv == IInv /\ [Next]_vars => IInv'
<1> SUFFICES ASSUME IInv, [Next]_vars PROVE IInv'
  OBVIOUS
<1>1. ASSUME InjectFinished PROVE IInv'
  <2>1. Injecting /\ ioc[Wanted] # Null /\ Inject(ioc[Wanted])
    BY <1>1 DEF InjectFinished
  <2>2. Wanted \in Beans
    BY <2>1, StackFacts DEF Injecting, Wanted
  <2>3. ioc[Wanted] \in Objects
    BY <2>1, <2>2 DEF IInv, Shapes
  <2>4. QED
    BY <2>1, <2>3, InjectStep
<1>2. ASSUME InjectEarly PROVE IInv'
  <2>1. Injecting /\ loadingIoc[Wanted] # Null /\ Inject(loadingIoc[Wanted])
    BY <1>2 DEF InjectEarly
  <2>2. Wanted \in Beans
    BY <2>1, StackFacts DEF Injecting, Wanted
  <2>3. loadingIoc[Wanted] = Raw(Wanted) /\ Raw(Wanted) \in Objects
    BY <2>1, <2>2, ObjectFacts DEF IInv, TypeOK
  <2>4. QED
    BY <2>1, <2>3, InjectStep
<1>3. ASSUME CreateDefinition PROVE IInv'
  <2>1. /\ stack = <<>> /\ ioc[Definition] = Null /\ Instantiate(Definition)
        /\ phase = "processors" => Definition \in processorBeans
    BY <1>3 DEF CreateDefinition, Skip
  <2>2. Definition \in Beans /\ DOMAIN stack = {}
    BY <2>1, DefinitionFacts DEF Definition, IInv, TypeOK
  <2>3. loadingIoc[Definition] = Null
    BY <2>2 DEF IInv, TypeOK
  <2>4. QED
    BY <1>3, <2>1, <2>2, <2>3, InstantiateStep DEF CreateDefinition
<1>4. ASSUME CreateWanted PROVE IInv'
  <2>1. /\ Injecting /\ ioc[Wanted] = Null /\ loadingIoc[Wanted] = Null /\ Instantiate(Wanted)
        /\ UNCHANGED <<config, phase, at, ioc, processors, injected, processedBy>>
    BY <1>4 DEF CreateWanted
  <2>2. /\ stack # <<>> /\ Len(stack) \in DOMAIN stack /\ Top = stack[Len(stack)] /\ Top.bean \in Beans
        /\ Top.field \in DOMAIN fields[Top.bean] /\ Wanted = fields[Top.bean][Top.field] /\ DOMAIN stack = 1 .. Len(stack)
        /\ Len(stack) \in Nat
    BY <2>1, StackFacts DEF Injecting, Wanted
  <2>3. Wanted \in Beans /\ Reaches(Top.bean, Wanted)
    BY <2>2, ReachFacts DEF IInv
  <2>4. ASSUME NEW i \in DOMAIN stack PROVE Reaches(stack[i].bean, Wanted)
    <3>1. CASE i = Len(stack)
      BY <2>2, <2>3, <3>1
    <3>2. CASE i # Len(stack)
      <4>1. Reaches(stack[i].bean, Top.bean) /\ stack[i].bean \in Beans
        BY <2>2, <3>2 DEF IInv, Calls, TypeOK
      <4>2. QED
        BY <2>2, <4>1, ReachFacts DEF IInv
    <3>3. QED
      BY <3>1, <3>2
  <2>5. QED
    BY <2>1, <2>2, <2>3, <2>4, InstantiateStep
<1>5. ASSUME UNCHANGED vars PROVE IInv'
  <2>1. UNCHANGED <<config, phase, at, stack, ioc, loadingIoc, processors, injected, created, processedBy>>
    BY <1>5 DEF vars
  <2>2. UNCHANGED <<fields, processorBeans, replacing>> /\ \A d, b \in Beans : Reaches(d, b)' <=> Reaches(d, b)
    BY <2>1, ReachStays DEF config
  <2>3. TypeOK' /\ Shapes' /\ Caches'
    BY <2>1, <2>2 DEF IInv, TypeOK, Shapes, Caches
  <2>4. Passes' /\ Processed'
    BY <2>1, <2>2 DEF IInv, Passes, Processed, Shapes
  <2>5. Calls'
    BY <2>1, <2>2 DEF IInv, Calls, TypeOK
  <2>6. Injected'
    BY <2>1, <2>2, ReachFacts DEF IInv, Injected, Holds
  <2>7. QED
    BY <2>3, <2>4, <2>5, <2>6 DEF IInv
<1>6. QED
  BY <1>1, <1>2, <1>3, <1>4, <1>5, SkipStep, CreatedStep, FinishStep DEF Next, Done

\* The invariant says that the context is well wired when it is ready.
LEMMA InvariantWires == IInv => WellWired /\ ProcessedByAll
<1> SUFFICES ASSUME IInv PROVE WellWired /\ ProcessedByAll
  OBVIOUS
<1>1. CreatedOnce
  BY DEF IInv, Caches, Passes, CreatedOnce
<1>2. Wired
  <2> SUFFICES ASSUME phase = "done", NEW b \in Beans, NEW i \in DOMAIN fields[b], NEW d, d = fields[b][i]
               PROVE  injected[b][i] = ioc[d] \/ (Reaches(d, b) /\ injected[b][i] = Raw(d) /\ ioc[d].replacedBy # {})
    BY DEF Wired
  <2>1. d \in Beans /\ ioc[b] # Null /\ ioc[d] # Null
    BY ReachFacts DEF IInv, Passes
  <2>2. ioc[d] \in Objects /\ ioc[d].bean = d
    BY <2>1 DEF IInv, Shapes, TypeOK
  <2>3. ioc[d].replacedBy = {} => ioc[d] = Raw(d)
    BY <2>2, ObjectFacts
  <2>4. Holds(b, i)
    BY <2>1 DEF IInv, Injected
  <2>5. injected[b][i] = ioc[d] \/ (Reaches(d, b) /\ injected[b][i] = Raw(d))
    BY <2>4 DEF Holds
  <2>6. QED
    BY <2>3, <2>5
<1>3. ProcessedByAll
  <2> SUFFICES ASSUME phase = "done", NEW b \in Beans \ processorBeans, \A p \in processorBeans : ~Reaches(p, b)
               PROVE  ToSet(processedBy[b]) = processorBeans
    BY DEF ProcessedByAll
  <2>1. ioc[b] # Null
    BY DEF IInv, Passes
  <2>2. QED
    BY <2>1 DEF IInv, Processed
<1>4. QED
  BY <1>1, <1>2, <1>3 DEF IInv, WellWired

\* The invariant holds in every state of the constructor.
LEMMA InvariantHolds == Spec => []IInv
<1>1. QED
  BY InitIInv, NextIInv, PTL DEF Spec

\* For any beans, fields and processors: each bean is made exactly once, and when the context
\* is ready each field holds the container's bean, or, in a circle through a bean that a
\* processor replaced, the object instantiated for it.
THEOREM ContextIsWired == Spec => []WellWired
<1>1. QED
  BY InvariantWires, InvariantHolds, PTL

\* For any beans, fields and processors: a bean that no processor needs goes through all of them.
THEOREM ProcessorsMissNoOther == Spec => []ProcessedByAll
<1>1. QED
  BY InvariantWires, InvariantHolds, PTL
=============================================================================

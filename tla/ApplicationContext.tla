-------------------------- MODULE ApplicationContext --------------------------
(***************************************************************************)
(* handTearing/spring/framework/ApplicationContext.java: the constructor,  *)
(* which creates all beans.  createBean calls itself through the injected  *)
(* fields; the calls under way are a stack.  Every field's type has one    *)
(* bean.  A processor may replace the bean it is given.                    *)
(***************************************************************************)
EXTENDS Naturals, Sequences, FiniteSets, SequencesExt

CONSTANTS Beans,       \* the beans the scan finds
          FieldLists,  \* what a class may declare: its autowired fields, by type
          Null

\* A bean object: instantiated, or what the processors in "replacedBy" made of it.
Objects == [bean : Beans, replacedBy : SUBSET Beans]
Raw(b)  == [bean |-> b, replacedBy |-> {}]

ASSUME BeansAssumption == IsFiniteSet(Beans) /\ Beans # {} /\ FieldLists \subseteq Seq(Beans) /\ Null \notin Objects

\* The lists TLC goes through: any fields of different types, in any order.
DifferentTypes == {f \in BoundedSeq(Beans, Cardinality(Beans)) : IsInjective(f)}

\* initContext, L112-117: the beans in the order in which the scan finds them
Definitions == SetToSeq(Beans)

VARIABLES fields,       \* [Beans -> FieldLists]: the autowired fields
          processorBeans, replacing,  \* the beans that are processors; those that replace beans
          phase, at,    \* of initContext: "processors", "beans" or "done", and the definition
          stack,        \* the calls of doCreateBean: the bean and the field to inject
          ioc, loadingIoc, processors,
          injected,     \* what the fields of each bean hold
          created,      \* auxiliary: how often each bean was instantiated
          processedBy   \* auxiliary: the processors each bean went through

config == <<fields, processorBeans, replacing>>
vars == <<config, phase, at, stack, ioc, loadingIoc, processors, injected, created, processedBy>>

Init == /\ processorBeans \in SUBSET Beans /\ replacing \in SUBSET processorBeans
        /\ fields \in [Beans -> FieldLists]
        /\ phase = "processors" /\ at = 1 /\ stack = <<>>
        /\ ioc = [b \in Beans |-> Null] /\ loadingIoc = [b \in Beans |-> Null]
        /\ processors = <<>>
        /\ injected = [b \in Beans |-> [i \in DOMAIN fields[b] |-> Null]]
        /\ created = [b \in Beans |-> 0]
        /\ processedBy = [b \in Beans |-> <<>>]

-----------------------------------------------------------------------------
(* initContext *)

Definition == Definitions[at]
Step == IF at < Len(Definitions) THEN at' = at + 1 /\ UNCHANGED phase
        ELSE at' = 1 /\ phase' = IF phase = "processors" THEN "beans" ELSE "done"

\* doCreateBean, up to the fields: the new object becomes visible in loadingIoc.
Instantiate(b) == /\ created' = [created EXCEPT ![b] = @ + 1]
                  /\ loadingIoc' = [loadingIoc EXCEPT ![b] = Raw(b)]
                  /\ stack' = Append(stack, [bean |-> b, field |-> 1])

\* Mutant: the beans that are processors are not created ahead.
Skip_All == phase = "processors"

\* The first pass is only for the processors.
Skip == phase = "processors" /\ Definition \notin processorBeans

SkipDefinition == /\ phase # "done" /\ stack = <<>> /\ Skip
                  /\ Step
                  /\ UNCHANGED <<config, stack, ioc, loadingIoc, processors, injected,
                                 created, processedBy>>

CreateDefinition == /\ phase # "done" /\ stack = <<>> /\ ~Skip
                    /\ ioc[Definition] = Null
                    /\ Instantiate(Definition)
                    /\ UNCHANGED <<config, phase, at, ioc, processors, injected, processedBy>>

\* createBean has returned, or found the bean in ioc: a processor joins the list.
DefinitionCreated == /\ phase # "done" /\ stack = <<>> /\ ~Skip
                     /\ ioc[Definition] # Null
                     /\ Step
                     /\ processors' = IF phase = "processors"
                                      THEN Append(processors, Definition) ELSE processors
                     /\ UNCHANGED <<config, stack, ioc, loadingIoc, injected, created, processedBy>>

-----------------------------------------------------------------------------
(* createBean, for the innermost call *)

Top == Last(stack)
Wanted == fields[Top.bean][Top.field]
Injecting == stack # <<>> /\ Top.field <= Len(fields[Top.bean])

Inject(object) ==
  /\ injected' = [injected EXCEPT ![Top.bean][Top.field] = object]
  /\ stack' = [stack EXCEPT ![Len(stack)].field = @ + 1]
  /\ UNCHANGED <<config, phase, at, ioc, loadingIoc, processors, created, processedBy>>

\* Mutant: doCreateBean returns the object it instantiated.
InjectFinished_Raw == Injecting /\ ioc[Wanted] # Null /\ Inject(Raw(Wanted))

\* The first cache holds what is finished, the second what is under way.
InjectFinished == Injecting /\ ioc[Wanted] # Null /\ Inject(ioc[Wanted])

InjectEarly == Injecting /\ ioc[Wanted] = Null /\ loadingIoc[Wanted] # Null
               /\ Inject(loadingIoc[Wanted])

\* In neither: the field has to wait for another call.
CreateWanted == /\ Injecting /\ ioc[Wanted] = Null /\ loadingIoc[Wanted] = Null
                /\ Instantiate(Wanted)
                /\ UNCHANGED <<config, phase, at, ioc, processors, injected, processedBy>>

\* initializingBean: all processors, each replacing the bean or not.
Finished(b) == [bean |-> b, replacedBy |-> ToSet(processors) \cap replacing]

Unloaded(b) == [loadingIoc EXCEPT ![b] = Null]

\* The end of doCreateBean.  The call it returns to, if any, injects the
\* object with its next step, from ioc.
Finish == /\ stack # <<>> /\ ~Injecting
          /\ LET b == Top.bean IN
             /\ processedBy' = [processedBy EXCEPT ![b] = processors]
             /\ loadingIoc' = Unloaded(b)
             /\ ioc' = [ioc EXCEPT ![b] = Finished(b)]
          /\ stack' = Front(stack)
          /\ UNCHANGED <<config, phase, at, processors, injected, created>>

\* The constructor has returned.
Done == phase = "done" /\ UNCHANGED vars

Next == \/ SkipDefinition \/ CreateDefinition \/ DefinitionCreated
        \/ InjectFinished \/ InjectEarly \/ CreateWanted \/ Finish
        \/ Done

Spec == Init /\ [][Next]_vars

-----------------------------------------------------------------------------
(* Properties *)

\* The shape of the state; the second cache holds exactly the beans whose
\* creation is under way (L157, L163).
TypeOK == /\ phase \in {"processors", "beans", "done"} /\ at \in 1 .. Len(Definitions)
          /\ \A i \in DOMAIN stack : /\ stack[i].bean \in Beans
                                     /\ stack[i].field \in 1 .. Len(fields[stack[i].bean]) + 1
          /\ ToSet(processors) \subseteq processorBeans
          /\ \A b \in Beans : /\ loadingIoc[b] \in {Null, Raw(b)}
                              /\ loadingIoc[b] # Null <=> \E i \in DOMAIN stack : stack[i].bean = b
                              /\ ioc[b] # Null => ioc[b].bean = b

\* Every bean is instantiated once, however the fields refer to each other:
\* the two caches (L136-143) break every circle.
CreatedOnce == /\ \A b \in Beans : created[b] <= 1
               /\ phase = "done" => \A b \in Beans : created[b] = 1 /\ ioc[b] # Null

\* b is used by d, or by a bean that d uses, or so on: it is in every set of
\* beans that has what d uses and what its own beans use.
Reaches(d, b) == \A S \in SUBSET Beans :
                   (\A x \in S \cup {d} : ToSet(fields[x]) \subseteq S) => b \in S

\* When the context is ready every field holds the bean of the container,
\* except where beans use each other in a circle and a processor replaced
\* the one that was under way: then the field keeps the raw object (L142, L165).
Wired == phase = "done" =>
           \A b \in Beans : \A i \in DOMAIN fields[b] :
             LET d == fields[b][i] IN
             \/ injected[b][i] = ioc[d]
             \/ Reaches(d, b) /\ injected[b][i] = Raw(d) /\ ioc[d].replacedBy # {}

\* Whatever the graph of fields, each bean is made once and the fields are wired.
WellWired == TypeOK /\ CreatedOnce /\ Wired

\* Every bean that no processor needs goes through all the processors: that is
\* what the first pass of initContext (L118-123) is for.
ProcessedByAll == phase = "done" =>
                    \A b \in Beans \ processorBeans :
                      (\A p \in processorBeans : ~Reaches(p, b)) =>
                        ToSet(processedBy[b]) = processorBeans
=============================================================================

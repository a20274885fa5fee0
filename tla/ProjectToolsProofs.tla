------------------------- MODULE ProjectToolsProofs -------------------------
(***************************************************************************)
(* Theorems about the review tools, for projects with any number of nodes,  *)
(* tracks and cues, any filters and any limits.                             *)
(***************************************************************************)
EXTENDS ProjectTools, FiniteSetTheorems, TLAPS

-----------------------------------------------------------------------------
(* Finite sets *)

\* A finite set of integers that is not empty has a smallest and a largest
\* element (a smallest set without them would have one after losing an element).
LEMMA IntegersHaveExtremes ==
    ASSUME NEW S, S \subseteq Int, IsFiniteSet(S), S # {}
    PROVE  /\ \E low \in S : \A x \in S : low <= x
           /\ \E high \in S : \A x \in S : high >= x
  <1> DEFINE Extremes(T) == /\ \E low \in T : \A x \in T : low <= x
                            /\ \E high \in T : \A x \in T : high >= x
             Bad == {T \in FiniteSubsetsOf(S) : T # {} /\ ~Extremes(T)}
  <1>1. SUFFICES ASSUME Bad # {}
                 PROVE  FALSE
    BY DEF FiniteSubsetsOf
  <1>2. PICK T \in Bad : \A U \in Bad : ~(<<U, T>> \in StrictSubsetOrdering(S))
    <2>1. Bad \subseteq FiniteSubsetsOf(S)
      OBVIOUS
    <2> HIDE DEF Bad
    <2>2. QED
      BY <1>1, <2>1, FS_StrictSubsetOrderingWellFounded, WFMin
  <1>3. T \subseteq S /\ IsFiniteSet(T) /\ T # {} /\ ~Extremes(T)
    BY <1>2 DEF FiniteSubsetsOf
  <1>4. PICK x \in T : TRUE
    BY <1>3
  <1>5. T \ {x} \in FiniteSubsetsOf(S) /\ <<T \ {x}, T>> \in StrictSubsetOrdering(S)
    BY <1>3, <1>4, FS_RemoveElement DEF FiniteSubsetsOf, StrictSubsetOrdering
  <1>6. T \ {x} = {} \/ Extremes(T \ {x})
    BY <1>2, <1>5
  <1>7. CASE T \ {x} = {}
    <2>1. T = {x}
      BY <1>4, <1>7
    <2>2. x \in Int
      BY <1>3, <1>4
    <2>3. Extremes({x})
      BY <2>2
    <2>4. QED
      BY <1>3, <2>1, <2>3
  <1>8. CASE Extremes(T \ {x})
    <2>1. PICK low \in T \ {x} : \A y \in T \ {x} : low <= y
      BY <1>8
    <2>2. PICK high \in T \ {x} : \A y \in T \ {x} : high >= y
      BY <1>8
    <2>3. \A y \in T : y \in Int
      BY <1>3
    <2>4. \E l \in T : \A y \in T : l <= y
      <3>1. CASE low <= x
        BY <1>4, <2>1, <3>1
      <3>2. CASE ~(low <= x)
        <4>1. \A y \in T : x <= y
          BY <1>4, <2>1, <2>3, <3>2
        <4>2. QED
          BY <1>4, <4>1
      <3>3. QED
        BY <3>1, <3>2
    <2>5. \E h \in T : \A y \in T : h >= y
      <3>1. CASE high >= x
        BY <1>4, <2>2, <3>1
      <3>2. CASE ~(high >= x)
        <4>1. \A y \in T : x >= y
          BY <1>4, <2>2, <2>3, <3>2
        <4>2. QED
          BY <1>4, <4>1
      <3>3. QED
        BY <3>1, <3>2
    <2>6. QED
      BY <1>3, <2>4, <2>5
  <1>9. QED
    BY <1>6, <1>7, <1>8

\* Min and Max of such a set are what their names say.
LEMMA MinAndMax ==
    ASSUME NEW S, S \subseteq Int, IsFiniteSet(S), S # {}
    PROVE  /\ Min(S) \in S /\ \A x \in S : Min(S) <= x
           /\ Max(S) \in S /\ \A x \in S : Max(S) >= x
  BY IntegersHaveExtremes DEF Min, Max

\* The values of a function on a finite set are finite, and as many as the
\* arguments when they differ.
LEMMA Image ==
    ASSUME NEW D, IsFiniteSet(D), NEW f, f = [d \in D |-> f[d]]
    PROVE  /\ IsFiniteSet({f[d] : d \in D})
           /\ (\A c, d \in D : f[c] = f[d] => c = d) =>
                 Cardinality({f[d] : d \in D}) = Cardinality(D)
  <1> DEFINE T == {f[d] : d \in D}
  <1>1. f \in Surjection(D, T)
    BY DEF Surjection
  <1>2. /\ IsFiniteSet(T)
        /\ Cardinality(T) = Cardinality(D) <=> f \in Injection(D, T)
    BY <1>1, FS_Surjection
  <1>3. (\A c, d \in D : f[c] = f[d] => c = d) => f \in Injection(D, T)
    BY DEF Injection, IsInjective
  <1>4. QED
    BY <1>2, <1>3

\* Two sets without a common element have as many elements as both together.
LEMMA DisjointUnion ==
    ASSUME NEW S, IsFiniteSet(S), NEW T, IsFiniteSet(T), S \cap T = {}
    PROVE  /\ IsFiniteSet(S \cup T)
           /\ Cardinality(S \cup T) = Cardinality(S) + Cardinality(T)
  <1>1. Cardinality(S) \in Nat /\ Cardinality(T) \in Nat
    BY FS_CardinalityType
  <1>2. Cardinality(S \cap T) = 0
    BY FS_EmptySet
  <1>3. /\ IsFiniteSet(S \cup T)
        /\ Cardinality(S \cup T) = Cardinality(S) + Cardinality(T) - Cardinality(S \cap T)
    BY FS_Union
  <1>4. QED
    BY <1>1, <1>2, <1>3

-----------------------------------------------------------------------------
(* What the tools work on *)

\* loadProjectInput gives one of the projects.
LEMMA ProjectIsKnown ==
    ASSUME NEW in \in Inputs
    PROVE  Project(in) \in Projects /\ Project(in) \in RawProject
  BY ToolsAssumption DEF Project, Inputs

\* The arrays of a project are finite.
LEMMA ArraysAreFinite ==
    ASSUME NEW raw \in RawProject
    PROVE  /\ DOMAIN raw.nodes \subseteq Nat /\ IsFiniteSet(DOMAIN raw.nodes)
           /\ DOMAIN raw.tracks \subseteq Nat /\ IsFiniteSet(DOMAIN raw.tracks)
           /\ DOMAIN raw.cues = 1..Len(raw.cues) /\ Len(raw.cues) \in Nat
           /\ IsFiniteSet(DOMAIN raw.cues) /\ Cardinality(DOMAIN raw.cues) = Len(raw.cues)
  <1>1. ASSUME NEW S, NEW s \in Seq(S)
        PROVE  /\ DOMAIN s \subseteq Nat /\ DOMAIN s = 1..Len(s) /\ Len(s) \in Nat
               /\ IsFiniteSet(DOMAIN s) /\ Cardinality(DOMAIN s) = Len(s)
    <2>1. DOMAIN s = 1..Len(s) /\ Len(s) \in Nat
      OBVIOUS
    <2>2. IsFiniteSet(1..Len(s)) /\ Cardinality(1..Len(s)) = Len(s)
      BY <2>1, FS_Interval
    <2>3. QED
      BY <2>1, <2>2
  <1>2. /\ raw.nodes \in Seq({Null} \cup Node)
        /\ raw.tracks \in Seq({Null} \cup STRING)
        /\ raw.cues \in Seq({Null} \cup Cue)
    BY DEF RawProject
  <1>3. QED
    BY <1>1, <1>2

\* What is normalized did not throw, and is made of the project's parts.
LEMMA NormalizedParts ==
    ASSUME NEW in \in Inputs, Normalized(in).ok
    PROVE  /\ HasProject(in)
           /\ Parse(Project(in)) = "ok" /\ ~NormalizeThrows(Project(in))
           /\ Normalized(in).annotations = NormalizeAnnotations(Project(in).nodes)
           /\ Normalized(in).subtitles = NormalizeSubtitles(Project(in).tracks, Project(in).cues)
           /\ Normalized(in).source = NormalizeSource(Project(in))
           /\ Normalized(in).oddSource = KeepsOdd(Project(in))
           /\ Normalized(in).warnings =
                 SourceWarnings(Project(in)) \cup Skipped(Project(in).nodes)
                 \cup When("IMPLICIT_TIMELINE", 0, ImplicitTimeline(Project(in).nodes))
  <1>1. \A error : ~Fails(error).ok
    BY DEF Fails
  <1>2. HasProject(in) /\ Normalized(in) = Normalize(Project(in))
    BY <1>1 DEF Normalized
  <1>3. Parse(Project(in)) = "ok" /\ ~NormalizeThrows(Project(in))
    BY <1>1, <1>2 DEF Normalize
  <1>4. QED
    BY <1>2, <1>3 DEF Normalize

\* The nodes and tracks of what was normalized are not null.
LEMMA NormalizedElements ==
    ASSUME NEW in \in Inputs, Normalized(in).ok
    PROVE  /\ \A i \in DOMAIN Project(in).nodes :
                 Project(in).nodes[i] \in Node /\ Project(in).nodes[i].label \in AnyLabel
           /\ \A k \in DOMAIN Project(in).tracks : Project(in).tracks[k] \in STRING
  <1> DEFINE raw == Project(in)
  <1>1. raw \in Projects /\ raw \in RawProject
    BY ProjectIsKnown
  <1>2. ~HasNull(raw.nodes) /\ ~HasNull(raw.tracks)
    BY NormalizedParts DEF NormalizeThrows
  <1>3. ASSUME NEW i \in DOMAIN raw.nodes
        PROVE  raw.nodes[i] \in Node /\ raw.nodes[i].label \in AnyLabel
    <2>1. raw.nodes[i] # Null
      BY <1>2 DEF HasNull
    <2>2. raw.nodes \in Seq({Null} \cup Node)
      BY <1>1 DEF RawProject
    <2>3. raw.nodes[i] \in {Null} \cup Node
      BY <2>2
    <2>4. raw.nodes[i].label \in AnyLabel
      BY <1>1, <2>1, ToolsAssumption
    <2>5. QED
      BY <2>1, <2>3, <2>4
  <1>4. ASSUME NEW k \in DOMAIN raw.tracks
        PROVE  raw.tracks[k] \in STRING
    <2>1. raw.tracks[k] # Null
      BY <1>2 DEF HasNull
    <2>2. raw.tracks \in Seq({Null} \cup STRING)
      BY <1>1 DEF RawProject
    <2>3. raw.tracks[k] \in {Null} \cup STRING
      BY <2>2
    <2>4. QED
      BY <2>1, <2>3
  <1>5. QED
    BY <1>3, <1>4

\* The annotations are indexed by the nodes they are made from.
LEMMA AnnotationsOfNodes ==
    ASSUME NEW in \in Inputs, Normalized(in).ok
    PROVE  LET as    == Normalized(in).annotations
               nodes == Project(in).nodes IN
           /\ DOMAIN as = {i \in DOMAIN nodes : Candidate(nodes[i]) /\ Complete(nodes[i])}
           /\ IsFiniteSet(DOMAIN as)
           /\ \A i \in DOMAIN as :
                 /\ nodes[i] \in Node
                 /\ as[i].id = nodes[i].id
                 /\ as[i].label \in AnyLabel /\ as[i].label = nodes[i].label
                 /\ as[i].open = nodes[i].open
                 /\ as[i].nan = IF nodes[i].open THEN nodes[i].nan \ {"end"} ELSE nodes[i].nan
                 /\ as[i].parentId = nodes[i].parentId
                 /\ as[i].startMs = SecondsToMs(nodes[i].start) /\ as[i].startMs \in Int
                 /\ as[i].endMs = SecondsToMs(nodes[i].end) /\ as[i].endMs \in Int
  <1> DEFINE nodes == Project(in).nodes
             as    == NormalizeAnnotations(nodes)
  <1>1. Normalized(in).annotations = as
    BY NormalizedParts
  <1>2. DOMAIN as = {i \in DOMAIN nodes : Candidate(nodes[i]) /\ Complete(nodes[i])}
    BY DEF NormalizeAnnotations
  <1>3. IsFiniteSet(DOMAIN nodes)
    BY ProjectIsKnown, ArraysAreFinite
  <1>4. IsFiniteSet(DOMAIN as)
    BY <1>2, <1>3, FS_Subset
  <1>5. ASSUME NEW i \in DOMAIN as
        PROVE  /\ nodes[i] \in Node
               /\ as[i].id = nodes[i].id
               /\ as[i].label \in AnyLabel /\ as[i].label = nodes[i].label
               /\ as[i].open = nodes[i].open
               /\ as[i].nan = IF nodes[i].open THEN nodes[i].nan \ {"end"} ELSE nodes[i].nan
               /\ as[i].parentId = nodes[i].parentId
               /\ as[i].startMs = SecondsToMs(nodes[i].start) /\ as[i].startMs \in Int
               /\ as[i].endMs = SecondsToMs(nodes[i].end) /\ as[i].endMs \in Int
    <2>1. nodes[i] \in Node /\ nodes[i].label \in AnyLabel
      BY <1>2, NormalizedElements
    <2>2. as[i] = NormalizeAnnotation(nodes[i])
      BY <1>2 DEF NormalizeAnnotations
    <2>3. /\ as[i].id = nodes[i].id /\ as[i].label = nodes[i].label /\ as[i].open = nodes[i].open
          /\ as[i].nan = IF nodes[i].open THEN nodes[i].nan \ {"end"} ELSE nodes[i].nan
          /\ as[i].parentId = nodes[i].parentId
          /\ as[i].startMs = SecondsToMs(nodes[i].start) /\ as[i].endMs = SecondsToMs(nodes[i].end)
      BY <2>2 DEF NormalizeAnnotation
    <2>4. SecondsToMs(nodes[i].start) \in Int /\ SecondsToMs(nodes[i].end) \in Int
      BY <2>1 DEF SecondsToMs, Node
    <2>5. QED
      BY <2>1, <2>3, <2>4
  <1>6. QED
    BY <1>1, <1>2, <1>4, <1>5

-----------------------------------------------------------------------------
(* The inductive invariant *)

\* Each tool answers with what it makes of the client's input, whatever was
\* called before.
THEOREM Invariant == Spec => []IInv
  <1>1. Init => IInv
    BY DEF Init, IInv, IsAnswer
  <1>2. IInv /\ [Next]_vars => IInv'
    <2> SUFFICES ASSUME IInv, [Next]_vars
                 PROVE  IInv'
      OBVIOUS
    <2>1. CASE CallInspect
      BY <2>1 DEF CallInspect, Call, IInv, IsAnswer
    <2>2. CASE CallValidate
      BY <2>2 DEF CallValidate, Call, IInv, IsAnswer
    <2>3. CASE CallSummarize
      BY <2>3 DEF CallSummarize, Call, IInv, IsAnswer
    <2>4. CASE CallFind
      BY <2>4 DEF CallFind, Call, IInv, IsAnswer
    <2>5. CASE CallSuggest
      BY <2>5 DEF CallSuggest, Call, IInv, IsAnswer
    <2>6. CASE CallPlan
      BY <2>6 DEF CallPlan, Call, IInv, IsAnswer
    <2>7. CASE CallExport
      BY <2>7 DEF CallExport, Call, IInv, IsAnswer
    <2>8. CASE UNCHANGED vars
      BY <2>8 DEF vars, IInv
    <2>9. QED
      BY <2>1, <2>2, <2>3, <2>4, <2>5, <2>6, <2>7, <2>8 DEF Next
  <1>3. QED
    BY <1>1, <1>2, PTL DEF Spec

\* The last answer is that of its tool.
LEMMA AnswerOfTool ==
    ASSUME IInv
    PROVE  /\ input \in Inputs
           /\ answer.tool = "inspect_project" =>
                 answer.result = Sent(answer.tool, InspectProject(input))
           /\ answer.tool = "validate_project" =>
                 answer.result = Sent(answer.tool, ValidateProject(input))
           /\ answer.tool = "summarize_annotations" =>
                 answer.result = Sent(answer.tool, SummarizeAnnotations(input))
           /\ answer.tool = "find_annotations" =>
                 /\ answer.args.filters \in Filters
                 /\ answer.result = Sent(answer.tool,
                        FindAnnotations(input, answer.args.filters, answer.args.limit))
           /\ answer.tool = "suggest_labels" =>
                 answer.result = Sent(answer.tool, SuggestLabels(input, answer.args.all))
           /\ answer.tool = "create_review_plan" =>
                 answer.result = Sent(answer.tool, CreateReviewPlan(input, answer.args.focus))
           /\ answer.tool = "export_chatgpt_report" =>
                 answer.result = Sent(answer.tool, ExportReport(input, answer.args.format))
           /\ answer.tool \in {"none", "inspect_project", "validate_project",
                               "summarize_annotations", "find_annotations", "suggest_labels",
                               "create_review_plan", "export_chatgpt_report"}
  BY DEF IInv, IsAnswer, Answer

\* A successful answer is the one its handler gave.
LEMMA SentOk ==
    ASSUME NEW tool, NEW result, Sent(tool, result).ok
    PROVE  Sent(tool, result) = result
  BY DEF Sent, Fails

\* A refusal comes from the handler or from the output schema.
LEMMA SentRefused ==
    ASSUME NEW tool, NEW result, ~Sent(tool, result).ok
    PROVE  ~result.ok \/ (result.ok /\ ~Fits(tool, result))
  BY DEF Sent, Fails

\* What a successful answer is.
LEMMA AnsweredOk ==
    ASSUME IInv
    PROVE  /\ Answered("inspect_project") => answer.result = InspectProject(input)
           /\ Answered("validate_project") => answer.result = ValidateProject(input)
           /\ Answered("summarize_annotations") => answer.result = SummarizeAnnotations(input)
           /\ Answered("find_annotations") =>
                 answer.result = FindAnnotations(input, answer.args.filters, answer.args.limit)
           /\ Answered("export_chatgpt_report") =>
                 answer.result = ExportReport(input, answer.args.format)
  BY AnswerOfTool, SentOk DEF Answered

-----------------------------------------------------------------------------
(* Refusals *)

\* A handler refuses only what normalize() or validate() refuses.
LEMMA HandlerRefuses ==
    ASSUME NEW f, NEW limit, NEW all, NEW focus, NEW format
    PROVE  /\ ~InspectProject(input).ok => ~Normalized(input).ok
           /\ ~SummarizeAnnotations(input).ok => ~Normalized(input).ok
           /\ ~FindAnnotations(input, f, limit).ok => ~Normalized(input).ok
           /\ ~SuggestLabels(input, all).ok => ~Normalized(input).ok
           /\ ~CreateReviewPlan(input, focus).ok => ~Normalized(input).ok \/ ~ValidateProject(input).ok
           /\ ~ExportReport(input, format).ok => ~Normalized(input).ok \/ ~ValidateProject(input).ok
  BY DEF InspectProject, SummarizeAnnotations, FindAnnotations, SuggestLabels,
         CreateReviewPlan, ExportReport

\* What the output schema refuses of a normalized project is what validate()
\* does not look at.
LEMMA SchemaRefuses ==
    ASSUME NEW in \in Inputs, Normalized(in).ok,
           NEW f, NEW limit, NEW all
    PROVE  LET raw == Project(in) IN
           /\ ~Fits("inspect_project", InspectProject(in)) =>
                 UncheckedByValidate("inspect_project", raw)
           /\ ~Fits("summarize_annotations", SummarizeAnnotations(in)) =>
                 UncheckedByValidate("summarize_annotations", raw)
           /\ ~Fits("find_annotations", FindAnnotations(in, f, limit)) =>
                 UncheckedByValidate("find_annotations", raw)
           /\ ~Fits("suggest_labels", SuggestLabels(in, all)) =>
                 UncheckedByValidate("suggest_labels", raw)
  <1> DEFINE raw == Project(in)
             as  == Normalized(in).annotations
  <1>1. /\ DOMAIN as = Shown(raw)
        /\ \A k \in DOMAIN as :
              /\ as[k].id = raw.nodes[k].id /\ as[k].parentId = raw.nodes[k].parentId
              /\ as[k].nan # {} => raw.nodes[k].nan # {}
    <2>1. /\ DOMAIN as = {i \in DOMAIN raw.nodes : Candidate(raw.nodes[i]) /\ Complete(raw.nodes[i])}
          /\ \A k \in DOMAIN as :
                /\ as[k].id = raw.nodes[k].id /\ as[k].parentId = raw.nodes[k].parentId
                /\ as[k].nan = IF raw.nodes[k].open THEN raw.nodes[k].nan \ {"end"} ELSE raw.nodes[k].nan
      BY AnnotationsOfNodes
    <2> HIDE DEF as
    <2>2. QED
      BY <2>1 DEF Shown
  <1>2. ~Fits("inspect_project", InspectProject(in)) => UncheckedByValidate("inspect_project", raw)
    <2>1. InspectProject(in).oddSource = KeepsOdd(raw)
      BY NormalizedParts DEF InspectProject
    <2>2. QED
      BY <2>1 DEF Fits, KeepsOdd, UncheckedByValidate
  <1>3. ~Fits("summarize_annotations", SummarizeAnnotations(in)) =>
           UncheckedByValidate("summarize_annotations", raw)
    <2>1. SummarizeAnnotations(in).nan = HasNaN(as)
      BY DEF SummarizeAnnotations
    <2> HIDE DEF as
    <2>2. QED
      BY <1>1, <2>1 DEF Fits, HasNaN, UncheckedByValidate
  <1>4. ~Fits("find_annotations", FindAnnotations(in, f, limit)) =>
           UncheckedByValidate("find_annotations", raw)
    <2> DEFINE matches == FindAnnotations(in, f, limit).matches
    <2>1. \A k \in DOMAIN matches : k \in DOMAIN as /\ matches[k] = as[k]
      BY DEF FindAnnotations, FilterAnnotations, FirstOf, RestrictDomain, Restrict
    <2>2. SUFFICES ASSUME NEW k \in DOMAIN matches, ~AnnotationFits(matches[k])
                   PROVE  UncheckedByValidate("find_annotations", raw)
      BY DEF Fits
    <2> HIDE DEF as, matches
    <2>3. k \in Shown(raw) /\ matches[k] = as[k] /\ k \in DOMAIN as
      BY <1>1, <2>1
    <2>4. \/ ~IsText(raw.nodes[k].id) \/ ~IsText(raw.nodes[k].parentId)
          \/ raw.nodes[k].nan # {}
      BY <1>1, <2>2, <2>3 DEF AnnotationFits
    <2>5. QED
      BY <2>3, <2>4 DEF UncheckedByValidate
  <1>5. ~Fits("suggest_labels", SuggestLabels(in, all)) => UncheckedByValidate("suggest_labels", raw)
    <2> DEFINE suggestions == SuggestLabels(in, all).suggestions
    <2>1. \A k \in DOMAIN suggestions : k \in DOMAIN as /\ suggestions[k] = as[k]
      BY DEF SuggestLabels, RestrictDomain, Restrict
    <2>2. SUFFICES ASSUME NEW k \in DOMAIN suggestions, ~IsText(suggestions[k].id)
                   PROVE  UncheckedByValidate("suggest_labels", raw)
      BY DEF Fits
    <2> HIDE DEF as, suggestions
    <2>3. k \in Shown(raw) /\ ~IsText(raw.nodes[k].id)
      BY <1>1, <2>1, <2>2
    <2>4. QED
      BY <2>3 DEF UncheckedByValidate
  <1>6. QED
    BY <1>2, <1>3, <1>4, <1>5

\* A tool refuses what its handler refuses, or what its schema does not admit.
LEMMA RefusalHasReason ==
    ASSUME IInv, answer.tool # "none", ~answer.result.ok
    PROVE  \/ ~Normalized(input).ok
           \/ ~ValidateProject(input).ok
           \/ UncheckedByValidate(answer.tool, Project(input))
  <1>1. SUFFICES ASSUME Normalized(input).ok, ValidateProject(input).ok
                 PROVE  UncheckedByValidate(answer.tool, Project(input))
    OBVIOUS
  <1>2. input \in Inputs
    BY AnswerOfTool
  <1>3. CASE answer.tool = "inspect_project"
    <2>1. ~Fits(answer.tool, InspectProject(input))
      BY <1>1, <1>3, AnswerOfTool, SentRefused, HandlerRefuses
    <2>2. QED
      BY <1>1, <1>2, <1>3, <2>1, SchemaRefuses
  <1>4. CASE answer.tool = "summarize_annotations"
    <2>1. ~Fits(answer.tool, SummarizeAnnotations(input))
      BY <1>1, <1>4, AnswerOfTool, SentRefused, HandlerRefuses
    <2>2. QED
      BY <1>1, <1>2, <1>4, <2>1, SchemaRefuses
  <1>5. CASE answer.tool = "find_annotations"
    <2>1. ~Fits(answer.tool, FindAnnotations(input, answer.args.filters, answer.args.limit))
      BY <1>1, <1>5, AnswerOfTool, SentRefused, HandlerRefuses
    <2>2. QED
      BY <1>1, <1>2, <1>5, <2>1, SchemaRefuses
  <1>6. CASE answer.tool = "suggest_labels"
    <2>1. ~Fits(answer.tool, SuggestLabels(input, answer.args.all))
      BY <1>1, <1>6, AnswerOfTool, SentRefused, HandlerRefuses
    <2>2. QED
      BY <1>1, <1>2, <1>6, <2>1, SchemaRefuses
  <1>7. CASE answer.tool \in {"validate_project", "create_review_plan", "export_chatgpt_report"}
    <2>1. \A result : Fits(answer.tool, result)
      BY <1>7 DEF Fits
    <2>2. \A result : answer.result = Sent(answer.tool, result) => ~result.ok
      BY <1>1, <2>1, SentRefused
    <2>3. QED
      BY <1>1, <1>7, <2>2, AnswerOfTool, HandlerRefuses
  <1>8. QED
    BY <1>3, <1>4, <1>5, <1>6, <1>7, AnswerOfTool

\* No project that some tool refuses is called valid by validate_project, but
\* for the values that validate() does not look at: those normalize() throws at
\* and those the output schema of the tool does not admit.
THEOREM RefusedIsNotValidHolds == Spec => []RefusedIsNotValid
  <1>1. IInv => RefusedIsNotValid
    <2> SUFFICES ASSUME IInv, answer.tool # "none", ~answer.result.ok,
                        ValidateProject(input).ok
                 PROVE  \/ ~ValidateProject(input).valid
                        \/ HasProject(input) /\ UncheckedByValidate(answer.tool, Project(input))
      BY DEF RefusedIsNotValid
    <2> DEFINE raw == Project(input)
    <2>1. \A error : ~Fails(error).ok /\ ~ParseError(error).valid
      BY DEF Fails, ParseError, Report
    <2>2. HasProject(input) /\ ValidateProject(input) = Validate(raw)
      BY <2>1 DEF ValidateProject
    <2>3. ~Normalize(raw).ok \/ UncheckedByValidate(answer.tool, raw)
      BY <2>2, RefusalHasReason DEF Normalized
    <2>4. CASE Parse(raw) # "ok"
      BY <2>1, <2>2, <2>4 DEF Validate
    <2>5. CASE Parse(raw) = "ok"
      <3>1. NormalizeThrows(raw) \/ UncheckedByValidate(answer.tool, raw)
        BY <2>3, <2>5 DEF Normalize
      <3>2. ~ValidateThrows(raw)
        BY <2>1, <2>2, <2>5 DEF Validate
      <3>3. QED
        BY <2>2, <3>1, <3>2 DEF NormalizeThrows, ValidateThrows, UncheckedByValidate
    <2>6. QED
      BY <2>4, <2>5
  <1>2. QED
    BY <1>1, Invariant, PTL

-----------------------------------------------------------------------------
(* Every node and every cue is accounted for *)

\* The warnings of one code about some indices are as many as the indices.
LEMMA OneWarningEach ==
    ASSUME NEW code, NEW I, IsFiniteSet(I)
    PROVE  /\ IsFiniteSet({Warning(code, i) : i \in I})
           /\ Cardinality({Warning(code, i) : i \in I}) = Cardinality(I)
  <1> DEFINE f == [i \in I |-> Warning(code, i)]
  <1>1. f = [i \in I |-> f[i]]
    OBVIOUS
  <1>2. \A i, j \in I : f[i] = f[j] => i = j
    BY DEF Warning
  <1>3. {f[i] : i \in I} = {Warning(code, i) : i \in I}
    OBVIOUS
  <1> HIDE DEF f
  <1>4. IsFiniteSet({f[i] : i \in I}) /\ Cardinality({f[i] : i \in I}) = Cardinality(I)
    BY <1>1, <1>2, Image
  <1>5. QED
    BY <1>3, <1>4

\* What validate() reports of a project that parses.
LEMMA ValidationParts ==
    ASSUME NEW in \in Inputs, ValidateProject(in).ok, Parse(Project(in)) = "ok"
    PROVE  LET raw == Project(in) IN
           /\ ValidateProject(in).valid <=> ValidateProject(in).errors = {}
           /\ ValidateProject(in).errors =
                 (UNION {NodeErrors(raw.nodes, i) : i \in DOMAIN raw.nodes}) \cup CueErrors(raw)
           /\ ValidateProject(in).warnings =
                 (UNION {NodeWarnings(raw.nodes, i) : i \in DOMAIN raw.nodes}) \cup CueWarnings(raw)
                 \cup When("UNKNOWN_VERSION", 0, raw.version # "24.0.0")
                 \cup When("MISSING_SOURCE_METADATA", 0, NoSource(raw))
  <1>1. \A error : ~Fails(error).ok
    BY DEF Fails
  <1>2. ValidateProject(in) = Validate(Project(in))
    BY <1>1 DEF ValidateProject
  <1>3. ~ValidateThrows(Project(in))
    BY <1>1, <1>2 DEF Validate
  <1> DEFINE raw == Project(in)
             E == (UNION {NodeErrors(raw.nodes, i) : i \in DOMAIN raw.nodes}) \cup CueErrors(raw)
             W == (UNION {NodeWarnings(raw.nodes, i) : i \in DOMAIN raw.nodes}) \cup CueWarnings(raw)
                  \cup When("UNKNOWN_VERSION", 0, raw.version # "24.0.0")
                  \cup When("MISSING_SOURCE_METADATA", 0, NoSource(raw))
  <1>4. ValidateProject(in) = Report(E, W)
    BY <1>2, <1>3, Zenon DEF Validate
  <1> HIDE DEF E, W
  <1>5. /\ ValidateProject(in).valid <=> ValidateProject(in).errors = {}
        /\ ValidateProject(in).errors = E
        /\ ValidateProject(in).warnings = W
    <2>1. ValidateProject(in).errors = E /\ ValidateProject(in).warnings = W
      BY <1>4 DEF Report
    <2>2. Report(E, W).valid = (E = {})
      BY DEF Report
    <2>3. ValidateProject(in).valid <=> E = {}
      BY <1>4, <2>2, Zenon
    <2>4. QED
      BY <2>1, <2>3, Zenon
  <1>6. QED
    BY <1>5 DEF E, W

\* A warning carries the code it was made with.
LEMMA WarningCode ==
    \A code, at, condition : \A w \in When(code, at, condition) : w.code = code
  BY DEF When, Warning

\* The live annotation nodes are those inspect_project counts and those it
\* warns about, each exactly once.
THEOREM NothingLostSilentlyHolds == Spec => []NothingLostSilently
  <1>1. IInv => NothingLostSilently
    <2> SUFFICES ASSUME IInv, Answered("inspect_project")
                 PROVE  answer.result.stats.annotationCount
                        + Cardinality({w \in answer.result.warnings : w.code = "ANNOTATION_SKIPPED"})
                        = Cardinality({i \in DOMAIN Project(input).nodes : Candidate(Project(input).nodes[i])})
      BY DEF NothingLostSilently
    <2> DEFINE nodes == Project(input).nodes
               project == Normalized(input)
               Live    == {i \in DOMAIN nodes : Candidate(nodes[i])}
               Kept    == {i \in Live : Complete(nodes[i])}
               Left    == {i \in Live : ~Complete(nodes[i])}
    <2>1. input \in Inputs /\ answer.result = InspectProject(input) /\ answer.result.ok
      BY AnswerOfTool, AnsweredOk DEF Answered
    <2>2. project.ok
      BY <2>1 DEF InspectProject
    <2>3. answer.result = [ok |-> TRUE, stats |-> ProjectStats(project),
                           oddSource |-> project.oddSource,
                           warnings |-> project.source.warnings \cup project.warnings]
      BY <2>1, <2>2 DEF InspectProject
    <2>4. answer.result.stats.annotationCount = Cardinality(Kept)
      <3>1. DOMAIN project.annotations = Kept
        BY <2>1, <2>2, AnnotationsOfNodes
      <3>2. QED
        BY <2>3, <3>1 DEF ProjectStats, Count
    <2>5. {w \in answer.result.warnings : w.code = "ANNOTATION_SKIPPED"}
            = {Warning("ANNOTATION_SKIPPED", i) : i \in Left}
      <3>1. answer.result.warnings
              = NormalizeSource(Project(input)).warnings \cup SourceWarnings(Project(input))
                \cup Skipped(nodes) \cup When("IMPLICIT_TIMELINE", 0, ImplicitTimeline(nodes))
        BY <2>1, <2>2, <2>3, NormalizedParts
      <3>2. \A w \in NormalizeSource(Project(input)).warnings : w.code # "ANNOTATION_SKIPPED"
        <4>1. \/ NormalizeSource(Project(input)) = Warned("none", "NO_SOURCE")
              \/ NormalizeSource(Project(input)) = Known("local")
              \/ NormalizeSource(Project(input)) = Warned("local", "LOCAL_BLOB_NOT_PORTABLE")
              \/ NormalizeSource(Project(input)) = Known("direct-url")
              \/ NormalizeSource(Project(input)) = Known("youtube")
              \/ NormalizeSource(Project(input)) = Warned("youtube", "INFERRED_SOURCE")
              \/ NormalizeSource(Project(input)) = Warned("direct-url", "INFERRED_SOURCE")
              \/ NormalizeSource(Project(input)) = Known("unknown")
          BY DEF NormalizeSource, NoSource
        <4>2. QED
          BY <4>1 DEF Known, Warned, Warning
      <3>3. \A w \in SourceWarnings(Project(input))
                     \cup When("IMPLICIT_TIMELINE", 0, ImplicitTimeline(nodes)) :
               w.code # "ANNOTATION_SKIPPED"
        BY WarningCode DEF SourceWarnings
      <3>4. Skipped(nodes) = {Warning("ANNOTATION_SKIPPED", i) : i \in Left}
        BY DEF Skipped
      <3>5. \A w \in Skipped(nodes) : w.code = "ANNOTATION_SKIPPED"
        BY DEF Skipped, Warning
      <3>6. QED
        BY <3>1, <3>2, <3>3, <3>4, <3>5
    <2>6. IsFiniteSet(Kept) /\ IsFiniteSet(Left)
      <3>1. IsFiniteSet(DOMAIN nodes)
        BY <2>1, ProjectIsKnown, ArraysAreFinite
      <3>2. QED
        BY <3>1, FS_Subset
    <2>7. Live = Kept \cup Left /\ Kept \cap Left = {}
      OBVIOUS
    <2> HIDE DEF Live, Kept, Left
    <2>8. Cardinality(Live) = Cardinality(Kept) + Cardinality(Left)
      BY <2>6, <2>7, DisjointUnion
    <2>9. Cardinality({Warning("ANNOTATION_SKIPPED", i) : i \in Left}) = Cardinality(Left)
      BY <2>6, OneWarningEach
    <2>10. QED
      BY <2>4, <2>5, <2>8, <2>9 DEF Live
  <1>2. QED
    BY <1>1, Invariant, PTL

\* The cues on the tracks and those reported as orphans are all the cues, each
\* once, as long as track ids are told apart.
THEOREM CuesAccountedHolds == Spec => []CuesAccounted
  <1>1. IInv => CuesAccounted
    <2> DEFINE raw    == Project(input)
               tracks == raw.tracks
               cues   == raw.cues
               On  == {i \in DOMAIN cues : ~Orphan(raw, i)}
               Off == {i \in DOMAIN cues : Orphan(raw, i)}
               Orphaned(w) == w.code = "ORPHANED_SUBTITLE_CUE"
    <2> SUFFICES ASSUME IInv, Answered("export_chatgpt_report"),
                        \A j, k \in DOMAIN tracks : tracks[j] = tracks[k] => j = k
                 PROVE  answer.result.stats.subtitleCueCount
                        + Cardinality({w \in answer.result.validation.warnings : Orphaned(w)})
                        = Len(cues)
      BY DEF CuesAccounted
    <2>1. input \in Inputs /\ answer.result = ExportReport(input, answer.args.format) /\ answer.result.ok
      BY AnswerOfTool, AnsweredOk DEF Answered
    <2>2. Normalized(input).ok /\ ValidateProject(input).ok
      BY <2>1 DEF ExportReport, FirstError
    <2>3. /\ answer.result.stats = ProjectStats(Normalized(input))
          /\ answer.result.validation = ValidateProject(input)
      BY <2>1, <2>2 DEF ExportReport
    <2>4. raw \in RawProject
      BY <2>1, ProjectIsKnown
    <2>5. /\ IsFiniteSet(DOMAIN cues) /\ Cardinality(DOMAIN cues) = Len(cues)
          /\ IsFiniteSet(On) /\ IsFiniteSet(Off)
      BY <2>4, ArraysAreFinite, FS_Subset
    <2>6. answer.result.stats.subtitleCueCount = Cardinality(On)
      <3> DEFINE Track(i) == CHOOSE k \in DOMAIN tracks : tracks[k] = cues[i].track
                 f == [i \in On |-> <<Track(i), i>>]
                 subtitles == NormalizeSubtitles(tracks, cues)
      <3>1. answer.result.stats.subtitleCueCount = Cardinality(TrackCues(subtitles))
        BY <2>1, <2>2, <2>3, NormalizedParts DEF ProjectStats
      <3>2. \A i \in On : Track(i) \in DOMAIN tracks /\ tracks[Track(i)] = cues[i].track
        BY DEF Orphan
      <3>3. \A i \in On, k \in DOMAIN tracks : tracks[k] = cues[i].track => k = Track(i)
        BY <3>2
      <3>4. \A p : p \in TrackCues(subtitles) <=>
                     \E k \in DOMAIN tracks, i \in DOMAIN cues :
                        cues[i].track = tracks[k] /\ p = <<k, i>>
        <4>1. /\ DOMAIN subtitles = DOMAIN tracks
              /\ \A k \in DOMAIN tracks :
                    subtitles[k].cues = {i \in DOMAIN cues : cues[i].track = tracks[k]}
          BY DEF NormalizeSubtitles
        <4> HIDE DEF subtitles
        <4>2. \A p : p \in TrackCues(subtitles) <=>
                       \E k \in DOMAIN tracks : p \in {<<k, i>> : i \in subtitles[k].cues}
          BY <4>1 DEF TrackCues
        <4>3. QED
          BY <4>1, <4>2
      <3>5. \A i \in DOMAIN cues, k \in DOMAIN tracks : cues[i].track = tracks[k] => i \in On
        BY DEF Orphan
      <3>6. \A p : p \in TrackCues(subtitles) <=> \E i \in On : p = <<Track(i), i>>
        <4> HIDE DEF Track, On, subtitles
        <4>1. On \subseteq DOMAIN cues
          BY DEF On
        <4>2. QED
          BY <3>2, <3>3, <3>4, <3>5, <4>1
      <3>7. TrackCues(subtitles) = {f[i] : i \in On}
        <4> HIDE DEF Track, On, subtitles
        <4>1. \A i \in On : f[i] = <<Track(i), i>>
          OBVIOUS
        <4> HIDE DEF f
        <4>2. QED
          BY <3>6, <4>1
      <3>8. \A i, j \in On : f[i] = f[j] => i = j
        OBVIOUS
      <3>9. f = [i \in On |-> f[i]]
        OBVIOUS
      <3>10. Cardinality({f[i] : i \in On}) = Cardinality(On)
        <4> HIDE DEF f, On
        <4>1. QED
          BY <2>5, <3>8, <3>9, Image
      <3>11. QED
        BY <3>1, <3>7, <3>10
    <2>7. {w \in answer.result.validation.warnings : Orphaned(w)}
            = {Warning("ORPHANED_SUBTITLE_CUE", i) : i \in Off}
      <3>1. answer.result.validation.warnings =
              (UNION {NodeWarnings(raw.nodes, i) : i \in DOMAIN raw.nodes}) \cup CueWarnings(raw)
              \cup When("UNKNOWN_VERSION", 0, raw.version # "24.0.0")
              \cup When("MISSING_SOURCE_METADATA", 0, NoSource(raw))
        BY <2>1, <2>2, <2>3, NormalizedParts, ValidationParts
      <3>2. \A i \in DOMAIN raw.nodes : \A w \in NodeWarnings(raw.nodes, i) : ~Orphaned(w)
        <4>1. ASSUME NEW i \in DOMAIN raw.nodes, NEW w \in NodeWarnings(raw.nodes, i)
              PROVE  w.code \in {"UNKNOWN_NODE_TYPE", "INVALID_SPATIAL_RANGE", "BROKEN_TIME_RANGE",
                                 "UNKNOWN_ANNOTATION_TYPE"}
          <5> DEFINE node == raw.nodes[i]
          <5>1. \/ w \in When("UNKNOWN_NODE_TYPE", i,
                              node.type \notin {"", "annotation", "element", "clip", "track"})
                \/ w \in When("INVALID_SPATIAL_RANGE", i, node.spatial = "outside")
                \/ w \in When("BROKEN_TIME_RANGE", i, BrokenRange(node))
                \/ w \in When("UNKNOWN_ANNOTATION_TYPE", i,
                              node.annotationType \notin SUPPORTED_ANNOTATION_TYPES \cup {""})
            BY <4>1, Zenon DEF NodeWarnings
          <5>2. QED
            BY <5>1, WarningCode, Zenon
        <4>2. QED
          BY <4>1
      <3>3. \A w \in When("UNKNOWN_VERSION", 0, raw.version # "24.0.0")
                     \cup When("MISSING_SOURCE_METADATA", 0, NoSource(raw)) : ~Orphaned(w)
        BY WarningCode
      <3>4. CueWarnings(raw) = {Warning("ORPHANED_SUBTITLE_CUE", i) : i \in Off}
        BY DEF CueWarnings
      <3>5. \A w \in CueWarnings(raw) : Orphaned(w)
        BY DEF CueWarnings, Warning
      <3>6. {w \in answer.result.validation.warnings : Orphaned(w)} = CueWarnings(raw)
        <4> HIDE DEF Orphaned
        <4>1. \A w : w \in answer.result.validation.warnings <=>
                       \/ \E i \in DOMAIN raw.nodes : w \in NodeWarnings(raw.nodes, i)
                       \/ w \in CueWarnings(raw)
                       \/ w \in When("UNKNOWN_VERSION", 0, raw.version # "24.0.0")
                       \/ w \in When("MISSING_SOURCE_METADATA", 0, NoSource(raw))
          BY <3>1
        <4>2. QED
          BY <3>2, <3>3, <3>5, <4>1
      <3>7. QED
        BY <3>4, <3>6
    <2>8. Cardinality(On) + Cardinality(Off) = Len(cues)
      <3>1. DOMAIN cues = On \cup Off /\ On \cap Off = {}
        OBVIOUS
      <3> HIDE DEF On, Off
      <3>2. QED
        BY <2>5, <3>1, DisjointUnion
    <2>9. Cardinality({Warning("ORPHANED_SUBTITLE_CUE", i) : i \in Off}) = Cardinality(Off)
      BY <2>5, OneWarningEach
    <2>10. QED
      BY <2>6, <2>7, <2>8, <2>9
  <1>2. QED
    BY <1>1, Invariant, PTL

-----------------------------------------------------------------------------
(* What is valid is shown *)

\* A node without an error has an id of its own, a place and a time.
LEMMA NoNodeErrors ==
    ASSUME NEW nodes, NEW i, NodeErrors(nodes, i) = {}
    PROVE  /\ nodes[i].id # "" /\ ~Duplicate(nodes, i)
           /\ nodes[i].spatial # "missing" /\ nodes[i].timed
  <1> DEFINE node == nodes[i]
  <1>1. /\ When("MISSING_ID", i, node.id = "") = {}
        /\ When("DUPLICATE_ID", i, node.id # "" /\ Duplicate(nodes, i)) = {}
        /\ When("MISSING_SPATIAL", i, node.spatial = "missing") = {}
        /\ When("MISSING_TEMPORAL", i, ~node.timed) = {}
    BY Zenon DEF NodeErrors
  <1>2. node.id # "" /\ ~Duplicate(nodes, i)
    BY <1>1 DEF When
  <1>3. node.spatial # "missing" /\ node.timed
    BY <1>1 DEF When
  <1>4. QED
    BY <1>2, <1>3

\* What validate_project calls valid has annotations with ids of their own, and
\* no node is skipped but for its visual data.
THEOREM ValidIsShownHolds == Spec => []ValidIsShown
  <1>1. IInv => ValidIsShown
    <2> DEFINE as    == Normalized(input).annotations
               nodes == Project(input).nodes
    <2> SUFFICES ASSUME IInv, Answered("validate_project"), answer.result.valid,
                        Normalized(input).ok
                 PROVE  /\ \A k, l \in DOMAIN as : as[k].id = as[l].id => k = l
                        /\ \A i \in DOMAIN nodes : Candidate(nodes[i]) /\ nodes[i].visual =>
                              \E k \in DOMAIN as : as[k].id = nodes[i].id
      BY DEF ValidIsShown
    <2>1. /\ input \in Inputs
          /\ ValidateProject(input).ok /\ ValidateProject(input).valid
      BY AnswerOfTool, AnsweredOk DEF Answered
    <2>2. \A i \in DOMAIN nodes : NodeErrors(nodes, i) = {}
      <3>1. (UNION {NodeErrors(nodes, i) : i \in DOMAIN nodes}) \cup CueErrors(Project(input)) = {}
        BY <2>1, NormalizedParts, ValidationParts
      <3>2. QED
        BY <3>1
    <2>3. \A i \in DOMAIN nodes :
             /\ nodes[i].id # "" /\ ~Duplicate(nodes, i)
             /\ nodes[i].spatial # "missing" /\ nodes[i].timed
      BY <2>2, NoNodeErrors
    <2>4. /\ DOMAIN as = {i \in DOMAIN nodes : Candidate(nodes[i]) /\ Complete(nodes[i])}
          /\ \A i \in DOMAIN as : as[i].id = nodes[i].id
      BY <2>1, AnnotationsOfNodes
    <2>5. \A j, i \in DOMAIN nodes : nodes[j].id = nodes[i].id => j = i
      <3>1. DOMAIN nodes \subseteq Nat /\ \A i \in DOMAIN nodes : i >= 1
        <4>1. nodes \in Seq({Null} \cup Node)
          BY <2>1, ProjectIsKnown DEF RawProject
        <4>2. QED
          BY <4>1
      <3>2. \A j, i \in DOMAIN nodes : j < i => nodes[j].id # nodes[i].id
        <4>1. ASSUME NEW j \in DOMAIN nodes, NEW i \in DOMAIN nodes, j < i
              PROVE  nodes[j].id # nodes[i].id
          <5>1. j \in 1..i - 1
            BY <3>1, <4>1
          <5>2. ~\E k \in 1..i - 1 : nodes[k].id = nodes[i].id
            BY <2>3 DEF Duplicate
          <5>3. QED
            BY <5>1, <5>2
        <4>2. QED
          BY <4>1
      <3>3. QED
        BY <3>1, <3>2
    <2>6. ASSUME NEW i \in DOMAIN nodes, Candidate(nodes[i]), nodes[i].visual
          PROVE  i \in DOMAIN as /\ as[i].id = nodes[i].id
      BY <2>3, <2>4, <2>6 DEF Complete
    <2>7. QED
      BY <2>4, <2>5, <2>6
  <1>2. QED
    BY <1>1, Invariant, PTL

-----------------------------------------------------------------------------
(* Searches *)

\* How many annotations a search finds.
LEMMA FoundTotal ==
    ASSUME NEW in \in Inputs, NEW f, NEW limit, Normalized(in).ok
    PROVE  LET as == Normalized(in).annotations IN
           FindAnnotations(in, f, limit).total = Cardinality({k \in DOMAIN as : Matches(as[k], f)})
  BY DEF FindAnnotations, FilterAnnotations, Count, RestrictDomain, Restrict

\* What find_annotations needs to have answered.
LEMMA FoundAnswer ==
    ASSUME IInv, Answered("find_annotations")
    PROVE  LET as == Normalized(input).annotations
               f  == answer.args.filters IN
           /\ input \in Inputs /\ Normalized(input).ok /\ f \in Filter
           /\ answer.result.total = Cardinality({k \in DOMAIN as : Matches(as[k], f)})
  <1> DEFINE f == answer.args.filters
  <1>1. /\ input \in Inputs /\ f \in Filters
        /\ answer.result = FindAnnotations(input, f, answer.args.limit)
        /\ answer.result.ok
    BY AnswerOfTool, AnsweredOk DEF Answered
  <1>2. Normalized(input).ok
    BY <1>1 DEF FindAnnotations
  <1>3. f \in Filter
    BY <1>1, ToolsAssumption
  <1>4. FindAnnotations(input, f, answer.args.limit).total
          = Cardinality({k \in DOMAIN Normalized(input).annotations :
                            Matches(Normalized(input).annotations[k], f)})
    BY <1>1, <1>2, FoundTotal
  <1>5. QED
    BY <1>1, <1>2, <1>3, <1>4

\* A search by type finds as many annotations as the summary counts of it.
THEOREM SearchAgreesWithSummaryHolds == Spec => []SearchAgreesWithSummary
  <1>1. IInv => SearchAgreesWithSummary
    <2> DEFINE as == Normalized(input).annotations
               f  == answer.args.filters
               byType == SummarizeAnnotations(input).byType
               OfIt(type) == {k \in DOMAIN as : as[k].type = type}
    <2> SUFFICES ASSUME IInv, Answered("find_annotations"),
                        f.label = AnyLabel, ~f.confidence, f.timeRange = Undefined, f.type # ""
                 PROVE  answer.result.total = IF f.type \in DOMAIN byType THEN byType[f.type] ELSE 0
      BY DEF SearchAgreesWithSummary
    <2>1. input \in Inputs /\ Normalized(input).ok
      BY FoundAnswer
    <2>2. answer.result.total = Cardinality({k \in DOMAIN as : Matches(as[k], f)})
      BY FoundAnswer
    <2>3. \A k \in DOMAIN as : Matches(as[k], f) <=> as[k].type = f.type
      BY <2>1, AnnotationsOfNodes DEF Matches, OfType
    <2>4. answer.result.total = Cardinality(OfIt(f.type))
      BY <2>2, <2>3
    <2>5. byType = Tally(as, "type")
      BY <2>1 DEF SummarizeAnnotations
    <2>6. /\ DOMAIN byType = {as[k].type : k \in DOMAIN as}
          /\ \A v \in DOMAIN byType : byType[v] = Cardinality(OfIt(v))
      BY <2>5 DEF Tally
    <2>7. CASE f.type \in DOMAIN byType
      BY <2>4, <2>6, <2>7
    <2>8. CASE f.type \notin DOMAIN byType
      <3>1. OfIt(f.type) = {}
        BY <2>6, <2>8
      <3>2. QED
        BY <2>4, <2>8, <3>1, FS_EmptySet
    <2>9. QED
      BY <2>7, <2>8
  <1>2. QED
    BY <1>1, Invariant, PTL

\* An annotation overlaps a range when they share an instant, if neither ends
\* before it begins.
LEMMA OverlapIsASharedInstant ==
    ASSUME NEW a, a.startMs \in Int, a.endMs \in Int, a.open \/ a.startMs <= a.endMs, a.nan = {},
           NEW range, range.startMs \in Int, range.endMs \in Int, range.startMs <= range.endMs
    PROVE  Overlaps(a, range) <=>
              \E t \in range.startMs..range.endMs : a.startMs <= t /\ (a.open \/ t <= a.endMs)
  <1>1. ASSUME Overlaps(a, range)
        PROVE  \E t \in range.startMs..range.endMs : a.startMs <= t /\ (a.open \/ t <= a.endMs)
    <2>1. a.startMs <= range.endMs /\ (a.open \/ a.endMs >= range.startMs)
      BY <1>1 DEF Overlaps
    <2>2. CASE a.startMs <= range.startMs
      <3>1. range.startMs \in range.startMs..range.endMs
        OBVIOUS
      <3>2. QED
        BY <2>1, <2>2, <3>1
    <2>3. CASE ~(a.startMs <= range.startMs)
      <3>1. a.startMs \in range.startMs..range.endMs
        BY <2>1, <2>3
      <3>2. QED
        BY <3>1
    <2>4. QED
      BY <2>2, <2>3
  <1>2. ASSUME NEW t \in range.startMs..range.endMs,
               a.startMs <= t, a.open \/ t <= a.endMs
        PROVE  Overlaps(a, range)
    BY <1>2 DEF Overlaps
  <1>3. QED
    BY <1>1, <1>2

\* A search by time finds exactly the annotations that share an instant with
\* the range.
THEOREM SearchSharesAnInstantHolds == Spec => []SearchSharesAnInstant
  <1>1. IInv => SearchSharesAnInstant
    <2> DEFINE as == Normalized(input).annotations
               f  == answer.args.filters
               range == f.timeRange
               During(a) ==
                   \E t \in range.startMs..range.endMs : a.startMs <= t /\ (a.open \/ t <= a.endMs)
    <2> SUFFICES ASSUME IInv, Answered("find_annotations"),
                        f.type = "", f.label = AnyLabel, ~f.confidence,
                        range # Undefined, range.startMs <= range.endMs,
                        \A k \in DOMAIN as :
                            as[k].nan = {} /\ (as[k].open \/ as[k].startMs <= as[k].endMs)
                 PROVE  answer.result.total = Cardinality({k \in DOMAIN as : During(as[k])})
      BY DEF SearchSharesAnInstant
    <2>1. /\ input \in Inputs /\ Normalized(input).ok
          /\ range.startMs \in Int /\ range.endMs \in Int
      BY FoundAnswer DEF Filter, TimeRange
    <2>2. ASSUME NEW k \in DOMAIN as
          PROVE  Matches(as[k], f) <=> During(as[k])
      <3> DEFINE a == as[k]
      <3>1. a.label \in AnyLabel /\ a.startMs \in Int /\ a.endMs \in Int
        BY <2>1, <2>2, AnnotationsOfNodes
      <3>2. Matches(a, f) <=> Overlaps(a, range)
        BY <3>1 DEF Matches, OfType
      <3>3. a.nan = {} /\ (a.open \/ a.startMs <= a.endMs)
        OBVIOUS
      <3>4. Overlaps(a, range) <=> During(a)
        BY <2>1, <3>1, <3>3, OverlapIsASharedInstant
      <3>5. QED
        BY <3>2, <3>4
    <2>3. {k \in DOMAIN as : Matches(as[k], f)} = {k \in DOMAIN as : During(as[k])}
      BY <2>2
    <2>4. QED
      BY <2>3, FoundAnswer
  <1>2. QED
    BY <1>1, Invariant, PTL

\* The span that summarize_annotations reports begins no later than any
\* annotation and ends no earlier.
LEMMA SummarySpan ==
    ASSUME NEW in \in Inputs, Normalized(in).ok
    PROVE  LET as == Normalized(in).annotations
               summary == SummarizeAnnotations(in) IN
           /\ summary.total = Cardinality(DOMAIN as)
           /\ \A k \in DOMAIN as :
                 /\ summary.startMs \in Int /\ summary.startMs <= as[k].startMs
                 /\ summary.endMs \in Int /\ EndOrStart(as[k]) <= summary.endMs
  <1> DEFINE as     == Normalized(in).annotations
             summary == SummarizeAnnotations(in)
             Starts == {as[k].startMs : k \in DOMAIN as}
             Ends   == {EndOrStart(as[k]) : k \in DOMAIN as}
  <1>1. /\ IsFiniteSet(DOMAIN as)
        /\ \A k \in DOMAIN as : as[k].startMs \in Int /\ as[k].endMs \in Int
    BY AnnotationsOfNodes
  <1>2. /\ summary.total = Cardinality(DOMAIN as)
        /\ summary.startMs = IF DOMAIN as = {} THEN 0 ELSE Min(Starts)
        /\ summary.endMs = Max({0} \cup Ends)
    BY DEF SummarizeAnnotations, Count
  <1>3. Starts \subseteq Int /\ IsFiniteSet(Starts)
    <2> DEFINE g == [k \in DOMAIN as |-> as[k].startMs]
    <2>1. IsFiniteSet({g[k] : k \in DOMAIN as})
      <3>1. g = [k \in DOMAIN as |-> g[k]]
        OBVIOUS
      <3> HIDE DEF g
      <3>2. QED
        BY <1>1, <3>1, Image
    <2>2. {g[k] : k \in DOMAIN as} = Starts
      OBVIOUS
    <2>3. QED
      BY <1>1, <2>1, <2>2
  <1>4. Ends \subseteq Int /\ IsFiniteSet(Ends)
    <2> DEFINE g == [k \in DOMAIN as |-> EndOrStart(as[k])]
    <2>1. IsFiniteSet({g[k] : k \in DOMAIN as})
      <3>1. g = [k \in DOMAIN as |-> g[k]]
        OBVIOUS
      <3> HIDE DEF g
      <3>2. QED
        BY <1>1, <3>1, Image
    <2>2. {g[k] : k \in DOMAIN as} = Ends
      OBVIOUS
    <2>3. \A k \in DOMAIN as : EndOrStart(as[k]) \in Int
      BY <1>1 DEF EndOrStart
    <2>4. QED
      BY <2>1, <2>2, <2>3
  <1>5. ASSUME NEW k \in DOMAIN as
        PROVE  summary.startMs \in Int /\ summary.startMs <= as[k].startMs
    <2>1. as[k].startMs \in Starts
      OBVIOUS
    <2> HIDE DEF Starts
    <2>2. Min(Starts) \in Starts /\ \A x \in Starts : Min(Starts) <= x
      BY <1>3, <2>1, MinAndMax
    <2>3. summary.startMs = Min(Starts)
      BY <1>2, <1>5
    <2>4. QED
      BY <1>3, <2>1, <2>2, <2>3
  <1>6. ASSUME NEW k \in DOMAIN as
        PROVE  summary.endMs \in Int /\ EndOrStart(as[k]) <= summary.endMs
    <2> DEFINE S == {0} \cup Ends
    <2>1. EndOrStart(as[k]) \in S
      OBVIOUS
    <2>2. S \subseteq Int /\ IsFiniteSet(S) /\ S # {}
      BY <1>4, FS_AddElement
    <2> HIDE DEF S
    <2>3. Max(S) \in S /\ \A x \in S : Max(S) >= x
      BY <2>2, MinAndMax
    <2>4. summary.endMs = Max(S)
      BY <1>2 DEF S
    <2>5. QED
      BY <2>1, <2>2, <2>3, <2>4
  <1>7. QED
    BY <1>2, <1>5, <1>6

\* Who searches the span that summarize_annotations reports finds every
\* annotation, unless validate_project warns of one that ends before it begins.
THEOREM SummarySpanFindsAllHolds == Spec => []SummarySpanFindsAll
  <1>1. IInv => SummarySpanFindsAll
    <2> DEFINE as    == Normalized(input).annotations
               nodes == Project(input).nodes
               span  == [startMs |-> answer.result.startMs, endMs |-> answer.result.endMs]
               f     == [type |-> "", label |-> AnyLabel, confidence |-> FALSE, timeRange |-> span]
    <2> SUFFICES ASSUME IInv, Answered("summarize_annotations"),
                        ValidateProject(input).ok,
                        \A w \in ValidateProject(input).warnings : w.code # "BROKEN_TIME_RANGE"
                 PROVE  FindAnnotations(input, f, 1).total = answer.result.total
      BY DEF SummarySpanFindsAll
    <2>1. /\ input \in Inputs /\ Normalized(input).ok
          /\ answer.result = SummarizeAnnotations(input)
          /\ \A k \in DOMAIN as : as[k].nan = {}
      <3>1. /\ input \in Inputs /\ answer.result.ok /\ answer.tool = "summarize_annotations"
            /\ answer.result = SummarizeAnnotations(input)
            /\ answer.result = Sent("summarize_annotations", SummarizeAnnotations(input))
        BY AnswerOfTool, AnsweredOk DEF Answered
      <3>2. Normalized(input).ok
        BY <3>1 DEF SummarizeAnnotations
      <3>3. ~SummarizeAnnotations(input).nan
        BY <3>1 DEF Sent, Fits, Fails
      <3>4. QED
        BY <3>1, <3>2, <3>3 DEF SummarizeAnnotations, HasNaN
    <2>2. ASSUME NEW k \in DOMAIN as
          PROVE  Matches(as[k], f)
      <3> DEFINE a == as[k]
                 node == nodes[k]
      <3>1. /\ k \in DOMAIN nodes /\ node \in Node /\ node.timed
            /\ a.label \in AnyLabel /\ a.open = node.open
            /\ a.nan = IF node.open THEN node.nan \ {"end"} ELSE node.nan
            /\ a.startMs = SecondsToMs(node.start) /\ a.startMs \in Int
            /\ a.endMs = SecondsToMs(node.end) /\ a.endMs \in Int
        BY <2>1, <2>2, AnnotationsOfNodes DEF Complete
      <3>2. node.open \/ node.start <= node.end
        <4>1. When("BROKEN_TIME_RANGE", k, BrokenRange(node)) \subseteq ValidateProject(input).warnings
          <5>1. NodeWarnings(nodes, k) \subseteq ValidateProject(input).warnings
            BY <2>1, <3>1, NormalizedParts, ValidationParts
          <5>2. When("BROKEN_TIME_RANGE", k, BrokenRange(node)) \subseteq NodeWarnings(nodes, k)
            BY Zenon DEF NodeWarnings
          <5>3. QED
            BY <5>1, <5>2
        <4>2. SUFFICES ASSUME ~node.open, node.end < node.start
                       PROVE  FALSE
          BY <3>1 DEF Node
        <4>3. Warning("BROKEN_TIME_RANGE", k) \in ValidateProject(input).warnings
          <5>1. node.nan = {}
            BY <2>1, <3>1, <4>2
          <5>2. BrokenRange(node)
            BY <3>1, <4>2, <5>1 DEF BrokenRange
          <5>3. QED
            BY <4>1, <5>2 DEF When
        <4>4. QED
          BY <4>3 DEF Warning
      <3>3. a.open \/ a.startMs <= a.endMs
        BY <3>1, <3>2 DEF SecondsToMs, Node
      <3>4. /\ answer.result.startMs \in Int /\ answer.result.startMs <= a.startMs
            /\ answer.result.endMs \in Int /\ EndOrStart(a) <= answer.result.endMs
        BY <2>1, <2>2, SummarySpan
      <3>5. Overlaps(a, span)
        <4>1. CASE a.open
          BY <3>1, <3>4, <4>1 DEF Overlaps, EndOrStart
        <4>2. CASE ~a.open
          BY <3>1, <3>3, <3>4, <4>2 DEF Overlaps, EndOrStart
        <4>3. QED
          BY <4>1, <4>2
      <3>6. QED
        BY <3>1, <3>5 DEF Matches, OfType
    <2>3. FindAnnotations(input, f, 1).total = Cardinality({k \in DOMAIN as : Matches(as[k], f)})
      BY <2>1, FoundTotal
    <2>4. {k \in DOMAIN as : Matches(as[k], f)} = DOMAIN as
      BY <2>2
    <2>5. QED
      BY <2>1, <2>3, <2>4, SummarySpan
  <1>2. QED
    BY <1>1, Invariant, PTL
=============================================================================

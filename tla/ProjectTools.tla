---------------------------- MODULE ProjectTools ----------------------------
(***************************************************************************)
(* The read-only MCP tools of src/src/server/tools: each loads the project  *)
(* it is given (storage.ts), runs the adapter over it and answers.  What    *)
(* the handler throws becomes an answer with its code (wrapTool).           *)
(*                                                                          *)
(* The SDK then holds a successful answer against the output schema of the  *)
(* tool (schemas.ts, registered in app.ts:80) and refuses the call if it    *)
(* does not fit.                                                            *)
(*                                                                          *)
(* A client holds one input and calls the tools on it in any order.         *)
(*                                                                          *)
(* A substring a filter asks for is the set of the labels that contain it:  *)
(* the label and the text of a normalized annotation are the same string,   *)
(* one filter stands for both.                                              *)
(***************************************************************************)
EXTENDS Anotator8Adapter

CONSTANTS Projects,     \* the projects looked at
          Fixture,      \* the built-in one, fixtureId = "sample-project"
          Labels,       \* the labels of nodes, "" is none
          Filters,      \* the filters asked for; type "" is any
          Limits,       \* the limits asked for
          Undefined

AnyLabel == Labels \cup {""}

TimeRange == [startMs : Int, endMs : Int]

Filter == [type : STRING, label : SUBSET AnyLabel, confidence : BOOLEAN,
           timeRange : {Undefined} \cup TimeRange]

ASSUME ToolsAssumption ==
    /\ Projects \subseteq RawProject
    /\ NumericIds \subseteq STRING \ {""}
    /\ Undefined \notin Projects
    /\ Fixture \in Projects
    /\ \A raw \in Projects : \A i \in DOMAIN raw.nodes :
          raw.nodes[i] # Null => raw.nodes[i].label \in AnyLabel
    /\ Limits \subseteq 1..100
    /\ Filters \subseteq Filter

VARIABLES input,    \* the project arguments of the client
          answer    \* the last answer

vars == <<input, answer>>

Inputs == [projectData : Projects \cup {Undefined}, fixture : BOOLEAN]

Focuses == {"all", "annotations", "subtitles", "timeline", "source"}

-----------------------------------------------------------------------------
\* loadProjectInput: the data wins over the fixture.
HasProject(in) == in.projectData # Undefined \/ in.fixture
Project(in)    == IF in.projectData # Undefined THEN in.projectData ELSE Fixture

\* The normalized project, or the error that a handler then answers with.
Normalized(in) == IF HasProject(in) THEN Normalize(Project(in)) ELSE Fails("missing_field")

\* validate_project
ValidateProject(in) == IF HasProject(in) THEN Validate(Project(in)) ELSE Fails("missing_field")

\* How many annotations have each value of a field.
Tally(annotations, field) ==
    [v \in {annotations[k][field] : k \in DOMAIN annotations} |->
        Cardinality({k \in DOMAIN annotations : annotations[k][field] = v})]

\* The cues of each track: as many as the sum of the tracks' cue counts.
TrackCues(subtitles) ==
    UNION {{<<k, i>> : i \in subtitles[k].cues} : k \in DOMAIN subtitles}

ProjectStats(project) ==
    [annotationCount    |-> Count(project.annotations),
     annotationTypes    |-> Tally(project.annotations, "type"),
     shapeTypes         |-> Tally(project.annotations, "shapeType"),
     subtitleTrackCount |-> Len(project.subtitles),
     subtitleCueCount   |-> Cardinality(TrackCues(project.subtitles)),
     timelineTrackCount |-> Count(project.timeline.annotation) + Count(project.timeline.subtitle),
     warningCount       |-> Cardinality(project.warnings) + Cardinality(project.source.warnings),
     unknownFieldCount  |-> project.unknown]

InspectProject(in) ==
    LET project == Normalized(in) IN
    IF ~project.ok THEN project ELSE
        [ok |-> TRUE, stats |-> ProjectStats(project), oddSource |-> project.oddSource,
         warnings |-> project.source.warnings \cup project.warnings]

\* Mutant: an annotation without an end ends at 0.
EndOrZero(a) == IF a.open THEN 0 ELSE a.endMs

\* endMs ?? startMs
EndOrStart(a) == IF a.open THEN a.startMs ELSE a.endMs

\* Some time is NaN, and so is the smallest or the largest of them.
HasNaN(annotations) == \E k \in DOMAIN annotations : annotations[k].nan # {}

SummarizeAnnotations(in) ==
    LET project == Normalized(in) IN
    IF ~project.ok THEN project ELSE
        LET as    == project.annotations
            first == IF DOMAIN as = {} THEN 0 ELSE Min({as[k].startMs : k \in DOMAIN as})
            last  == Max({0} \cup {EndOrStart(as[k]) : k \in DOMAIN as}) IN
        [ok |-> TRUE, total |-> Count(as),
         byType  |-> Tally(as, "type"),
         byShape |-> Tally(as, "shapeType"),
         labeled |-> Cardinality({k \in DOMAIN as : as[k].label # ""}),
         startMs |-> first, endMs |-> last, rangeMs |-> Max({0, last - first}),
         nan |-> HasNaN(as),
         warnings |-> project.warnings]

\* Mutant: touching is not overlapping.
OverlapsStrictly(a, range) ==
    /\ "start" \in a.nan \/ a.startMs < range.endMs
    /\ a.open \/ "end" \in a.nan \/ a.endMs > range.startMs

\* Neither begins after the range nor ends before it: NaN does neither.
Overlaps(a, range) ==
    /\ "start" \in a.nan \/ a.startMs <= range.endMs
    /\ a.open \/ "end" \in a.nan \/ a.endMs >= range.startMs

\* Mutant: the type is compared with the shape.
OfShape(a, type) == type = "" \/ a.shapeType = type

OfType(a, type) == type = "" \/ a.type = type

\* No normalized annotation has a confidence.
Matches(a, f) ==
    /\ OfType(a, f.type)
    /\ a.label \in f.label
    /\ ~f.confidence
    /\ f.timeRange # Undefined => Overlaps(a, f.timeRange)

FilterAnnotations(annotations, f) ==
    RestrictDomain(annotations, LAMBDA k : Matches(annotations[k], f))

\* slice(0, n) of what was kept of an array.
FirstOf(kept, n) ==
    RestrictDomain(kept, LAMBDA k : Cardinality({j \in DOMAIN kept : j < k}) < n)

FindAnnotations(in, f, limit) ==
    LET project == Normalized(in) IN
    IF ~project.ok THEN project ELSE
        LET found == FilterAnnotations(project.annotations, f) IN
        [ok |-> TRUE, matches |-> FirstOf(found, limit),
         total |-> Count(found), truncated |-> Count(found) > limit]

\* The label of a normalized annotation is trimmed: none is ever proposed.
SuggestLabels(in, includeAlreadyLabeled) ==
    LET project == Normalized(in) IN
    IF ~project.ok THEN project ELSE
        LET as == project.annotations IN
        [ok |-> TRUE,
         suggestions |-> RestrictDomain(as, LAMBDA k : includeAlreadyLabeled \/ as[k].label = "")]

ChecklistItem(area, priority, problem) == [area |-> area, priority |-> priority, problem |-> problem]

Checklist(project, validation, focus) ==
    LET On(area)  == focus \in {"all", area}
        unlabeled == \E k \in DOMAIN project.annotations : project.annotations[k].label = ""
        noSource  == project.source.kind = "none"
        orphans   == \E w \in validation.warnings : w.code = "ORPHANED_SUBTITLE_CUE" IN
    {item \in {ChecklistItem("source", IF noSource THEN "high" ELSE "medium", noSource)} : On("source")}
    \cup {ChecklistItem("annotations", "medium", problem) :
            problem \in {p \in BOOLEAN : On("annotations") /\ (p => unlabeled)}}
    \cup {item \in {ChecklistItem("subtitles", IF orphans THEN "high" ELSE "low", orphans)} : On("subtitles")}
    \cup {item \in {ChecklistItem("timeline", "low", FALSE)} : On("timeline")}

\* The first of two answers that is an error, if any.
FirstError(project, validation) == IF ~project.ok THEN project ELSE validation

CreateReviewPlan(in, focus) ==
    LET project    == Normalized(in)
        validation == ValidateProject(in) IN
    IF ~project.ok \/ ~validation.ok THEN FirstError(project, validation) ELSE
        [ok |-> TRUE, focus |-> focus,
         detectedProblems |-> validation.errors \cup validation.warnings,
         checklist |-> Checklist(project, validation, focus)]

ExportReport(in, format) ==
    LET project    == Normalized(in)
        validation == ValidateProject(in) IN
    IF ~project.ok \/ ~validation.ok THEN FirstError(project, validation) ELSE
        [ok |-> TRUE, format |-> format, stats |-> ProjectStats(project),
         validation |-> validation]

-----------------------------------------------------------------------------
(* The output schemas *)

IsText(id) == id \notin NumericIds

\* normalizedAnnotationSchema
AnnotationFits(a) == IsText(a.id) /\ IsText(a.parentId) /\ a.nan = {}

\* The answer of a handler fits the output schema of its tool.  What the other
\* tools answer with is text and counts of their own making.
Fits(tool, result) ==
    CASE tool = "inspect_project"       -> ~result.oddSource
      [] tool = "summarize_annotations" -> ~result.nan
      [] tool = "find_annotations" ->
            \A k \in DOMAIN result.matches : AnnotationFits(result.matches[k])
      [] tool = "suggest_labels" ->
            \A k \in DOMAIN result.suggestions : IsText(result.suggestions[k].id)
      [] OTHER -> TRUE

\* What the client gets of a handler's answer: an error is sent as it is.
Sent(tool, result) ==
    IF result.ok /\ ~Fits(tool, result) THEN Fails("invalid_output") ELSE result

-----------------------------------------------------------------------------
Init ==
    /\ input \in Inputs
    /\ answer = [tool |-> "none"]

Answer(tool, args, result) == [tool |-> tool, args |-> args, result |-> Sent(tool, result)]

\* The call of a tool, with its own arguments, is answered.
Call(tool, args, result) ==
    /\ answer' = Answer(tool, args, result)
    /\ UNCHANGED input

CallInspect   == Call("inspect_project", <<>>, InspectProject(input))
CallValidate  == Call("validate_project", <<>>, ValidateProject(input))
CallSummarize == Call("summarize_annotations", <<>>, SummarizeAnnotations(input))
CallFind ==
    \E f \in Filters, limit \in Limits :
        Call("find_annotations", [filters |-> f, limit |-> limit], FindAnnotations(input, f, limit))
CallSuggest ==
    \E all \in BOOLEAN : Call("suggest_labels", [all |-> all], SuggestLabels(input, all))
CallPlan ==
    \E focus \in Focuses : Call("create_review_plan", [focus |-> focus], CreateReviewPlan(input, focus))
CallExport ==
    \E format \in {"markdown", "json"} :
        Call("export_chatgpt_report", [format |-> format], ExportReport(input, format))

Next ==
    \/ CallInspect \/ CallValidate \/ CallSummarize \/ CallFind
    \/ CallSuggest \/ CallPlan \/ CallExport

Spec == Init /\ [][Next]_vars

-----------------------------------------------------------------------------
(* The inductive invariant: an answer is what its tool makes of the client's *)
(* one input, whatever was called before, as far as it fits the schema.      *)

\* a is the answer of some tool to the input in, or there was none yet.
IsAnswer(a, in) ==
    \/ a = [tool |-> "none"]
    \/ a = Answer("inspect_project", <<>>, InspectProject(in))
    \/ a = Answer("validate_project", <<>>, ValidateProject(in))
    \/ a = Answer("summarize_annotations", <<>>, SummarizeAnnotations(in))
    \/ \E f \in Filters, limit \in Limits :
          a = Answer("find_annotations", [filters |-> f, limit |-> limit], FindAnnotations(in, f, limit))
    \/ \E all \in BOOLEAN :
          a = Answer("suggest_labels", [all |-> all], SuggestLabels(in, all))
    \/ \E focus \in Focuses :
          a = Answer("create_review_plan", [focus |-> focus], CreateReviewPlan(in, focus))
    \/ \E format \in {"markdown", "json"} :
          a = Answer("export_chatgpt_report", [format |-> format], ExportReport(in, format))

IInv == input \in Inputs /\ IsAnswer(answer, input)

-----------------------------------------------------------------------------
(* Properties *)

Answered(tool) == answer.tool = tool /\ answer.result.ok

\* No annotation is lost without a word: the live annotation nodes are those
\* inspect_project counts and those it warns about, each exactly once.
NothingLostSilently ==
    Answered("inspect_project") =>
        LET nodes == Project(input).nodes IN
        answer.result.stats.annotationCount
        + Cardinality({w \in answer.result.warnings : w.code = "ANNOTATION_SKIPPED"})
        = Cardinality({i \in DOMAIN nodes : Candidate(nodes[i])})

\* What validate_project calls valid, normalize() keeps for the other tools:
\* annotation ids are told apart, and no node is skipped but for its visual
\* data (which validate() does not look at).  Whether a tool may show it is
\* the matter of RefusedIsNotValid.
ValidIsShown ==
    Answered("validate_project") /\ answer.result.valid /\ Normalized(input).ok =>
        LET as    == Normalized(input).annotations
            nodes == Project(input).nodes IN
        /\ \A k, l \in DOMAIN as : as[k].id = as[l].id => k = l
        /\ \A i \in DOMAIN nodes : Candidate(nodes[i]) /\ nodes[i].visual =>
              \E k \in DOMAIN as : as[k].id = nodes[i].id

\* Every cue is on the track it names or is reported as an orphan, once: the
\* cues the report counts and the orphans it lists are all there are, as long
\* as track ids are told apart (validate() does not check them).
CuesAccounted ==
    Answered("export_chatgpt_report") =>
        LET raw == Project(input) IN
        (\A j, k \in DOMAIN raw.tracks : raw.tracks[j] = raw.tracks[k] => j = k) =>
            answer.result.stats.subtitleCueCount
            + Cardinality({w \in answer.result.validation.warnings : w.code = "ORPHANED_SUBTITLE_CUE"})
            = Len(raw.cues)

\* Who searches the span that summarize_annotations reports finds every
\* annotation, unless validate_project warns that one ends before it begins,
\* or cannot tell.
SummarySpanFindsAll ==
    Answered("summarize_annotations") =>
        LET span == [startMs |-> answer.result.startMs, endMs |-> answer.result.endMs]
            f    == [type |-> "", label |-> AnyLabel, confidence |-> FALSE, timeRange |-> span] IN
        (ValidateProject(input).ok /\
         \A w \in ValidateProject(input).warnings : w.code # "BROKEN_TIME_RANGE") =>
            FindAnnotations(input, f, 1).total = answer.result.total

\* A search by type finds as many annotations as the summary counts of it.
SearchAgreesWithSummary ==
    Answered("find_annotations") =>
        LET f == answer.args.filters
            byType == SummarizeAnnotations(input).byType IN
        (f.label = AnyLabel /\ ~f.confidence /\ f.timeRange = Undefined /\ f.type # "") =>
            answer.result.total = IF f.type \in DOMAIN byType THEN byType[f.type] ELSE 0

\* A search by time finds exactly the annotations that share an instant with
\* the range, an annotation without an end lasting for ever.  (A range that
\* ends before it starts is not refused, and may find an annotation around it;
\* an annotation with a time that is NaN is found by too many ranges.)
SearchSharesAnInstant ==
    Answered("find_annotations") =>
        LET f  == answer.args.filters
            as == Normalized(input).annotations
            During(a, range) ==
                \E t \in range.startMs..range.endMs : a.startMs <= t /\ (a.open \/ t <= a.endMs) IN
        (/\ f.type = "" /\ f.label = AnyLabel /\ ~f.confidence
         /\ f.timeRange # Undefined /\ f.timeRange.startMs <= f.timeRange.endMs
         /\ \A k \in DOMAIN as :
               as[k].nan = {} /\ (as[k].open \/ as[k].startMs <= as[k].endMs)) =>
            answer.result.total = Cardinality({k \in DOMAIN as : During(as[k], f.timeRange)})

\* The live annotations of a project.
Shown(raw) == {i \in DOMAIN raw.nodes : Candidate(raw.nodes[i]) /\ Complete(raw.nodes[i])}

\* What a tool refuses of a project that validate() has nothing against.
UncheckedByValidate(tool, raw) ==
    \/ raw.source = "local-odd" \/ raw.opaque
    \/ tool = "inspect_project" /\ raw.oddSource
    \/ tool \in {"find_annotations", "suggest_labels"} /\ \E i \in Shown(raw) : ~IsText(raw.nodes[i].id)
    \/ tool = "find_annotations" /\ \E i \in Shown(raw) : ~IsText(raw.nodes[i].parentId)
    \/ tool \in {"find_annotations", "summarize_annotations"} /\ \E i \in Shown(raw) : raw.nodes[i].nan # {}

\* No project that some tool refuses is called valid by validate_project, but
\* for the values that validate() does not look at: an objectUrl that is not a
\* string or a text that is not convertible, which normalize() throws at, and
\* what the output schema of that tool does not admit: a number for an id or a
\* parent's, a time that is no number, an odd name or duration of the source.
\* The plan and the report, all text, are refused only when normalize() throws.
RefusedIsNotValid ==
    answer.tool # "none" /\ ~answer.result.ok =>
        \/ ~ValidateProject(input).ok
        \/ ~ValidateProject(input).valid
        \/ HasProject(input) /\ UncheckedByValidate(answer.tool, Project(input))
=============================================================================

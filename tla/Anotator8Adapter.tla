-------------------------- MODULE Anotator8Adapter --------------------------
(***************************************************************************)
(* The pure core of the review tools: how a raw Anotator8 project is        *)
(* parsed, normalized and validated (src/src/server/anotator8-adapter.ts).  *)
(*                                                                          *)
(* A project is what the tools tell apart of it:                            *)
(*   shape     whether parse() accepts it, or why not                       *)
(*   version   "24.0.0", or another                                         *)
(*   source    the kind of videoSource; "local-odd" has an objectUrl that   *)
(*             is not a string                                              *)
(*   oddSource whether a name, an address or a duration of videoSource is   *)
(*             of the wrong type                                            *)
(*   opaque    whether a colour or a cue's text is an object that String()  *)
(*             cannot convert (it hides toString)                           *)
(*   videoUrl  "" is none                                                   *)
(*   nodes     a sequence; an element may be null                           *)
(*   tracks    the ids of the subtitle tracks, or null                      *)
(*   cues      track id and times, or null                                  *)
(*   unknown   how many top-level fields are not known ones                 *)
(*                                                                          *)
(* What the code keeps of an array (filter, push in a loop) is a function   *)
(* on the indices it keeps, in whose order the code has them: its length is *)
(* the number of those indices.                                             *)
(*                                                                          *)
(* The input schema takes any JSON, and so a node may have a number for its *)
(* id or its parent's (NumericIds), and a start or an end that is no number *)
(* (nan): secondsToMs() makes it NaN, which no comparison holds of.         *)
(*                                                                          *)
(* Raw times are in seconds; the model counts them in half milliseconds, so *)
(* that rounding them shows.  A warning is its code and the index it is     *)
(* about (0 for none); the code's arrays hold each once, so sets stand for  *)
(* them.                                                                    *)
(***************************************************************************)
EXTENDS Integers, Sequences, FiniteSets, FiniteSetsExt

CONSTANTS Null,
          NumericIds    \* the ids that are numbers in the document

Node == [id : STRING, type : STRING, deleted : BOOLEAN, spatial : STRING, timed : BOOLEAN,
         start : Int, open : BOOLEAN, end : Int, nan : SUBSET {"start", "end"}, visual : BOOLEAN, parentId : STRING,
         shape : STRING, annotationType : STRING, label : STRING]

Cue == [track : STRING, start : Int, end : Int]

RawProject ==
    [shape : {"too_large", "not_object", "no_nodes", "project"}, version : STRING,
     source : STRING, oddSource : BOOLEAN, videoUrl : STRING, opaque : BOOLEAN,
     nodes : Seq({Null} \cup Node),
     tracks : Seq({Null} \cup STRING), cues : Seq({Null} \cup Cue), unknown : Nat]

\* How many elements the code kept of an array.
Count(kept) == Cardinality(DOMAIN kept)

SUPPORTED_ANNOTATION_TYPES ==
    {"box", "polygon", "point", "arrow", "text", "image", "ellipse", "chapter",
     "highlight", "comment", "tag"}

SUPPORTED_SHAPES == {"rect", "circle", "polygon", "arrow", "freehand"}

Warning(code, at) == [code |-> code, at |-> at]

\* The warning, if the condition holds.
When(code, at, condition) == IF condition THEN {Warning(code, at)} ELSE {}

\* Math.round(seconds * 1000): halves go up.
SecondsToMs(time) == (time + 1) \div 2

\* The a ?? b of JavaScript for strings; "" is an absent field.
Default(a, b) == IF a # "" THEN a ELSE b

Fails(error) == [ok |-> FALSE, error |-> error]

\* parse(): "ok" or the code of what it throws.
Parse(raw) ==
    CASE raw.shape = "too_large"  -> "too_large_input"
      [] raw.shape = "not_object" -> "invalid_input"
      [] raw.shape = "no_nodes"   -> "missing_field"
      [] raw.shape = "project"    -> "ok"

\* Reading a field of a null element throws.
HasNull(elements) == \E i \in DOMAIN elements : elements[i] = Null

\* normalize() reads every node and track, and the cues once per track.
NormalizeThrows(raw) ==
    \/ raw.source = "local-odd" \/ raw.opaque
    \/ HasNull(raw.nodes) \/ HasNull(raw.tracks)
    \/ raw.tracks # <<>> /\ HasNull(raw.cues)

\* validate() reads everything.
ValidateThrows(raw) == HasNull(raw.nodes) \/ HasNull(raw.tracks) \/ HasNull(raw.cues)

NoSource(raw) == raw.source = "" /\ raw.videoUrl = ""

-----------------------------------------------------------------------------
(* normalize *)

Known(kind)    == [kind |-> kind, warnings |-> {}]
Warned(kind, code) == [kind |-> kind, warnings |-> {Warning(code, 0)}]

NormalizeSource(raw) ==
    CASE NoSource(raw)              -> Warned("none", "NO_SOURCE")
      [] raw.source = "local"       -> Known("local")
      [] raw.source = "local-blob"  -> Warned("local", "LOCAL_BLOB_NOT_PORTABLE")
      [] raw.source = "direct-url"  -> Known("direct-url")
      [] raw.source = "youtube"     -> Known("youtube")
      [] raw.source = "demo"        -> Known("direct-url")
      [] raw.source \in {"", "odd"} /\ raw.videoUrl # "" ->
            Warned(IF raw.videoUrl = "youtube" THEN "youtube" ELSE "direct-url", "INFERRED_SOURCE")
      [] OTHER                      -> Known("unknown")

\* The normalized source keeps what is of the wrong type.
KeepsOdd(raw) ==
    raw.oddSource /\ raw.source \in {"local", "local-blob", "direct-url", "youtube", "demo"}

SourceWarnings(raw) ==
    When("UNKNOWN_SOURCE", 0, raw.source = "odd" /\ raw.videoUrl = "")

TypeFromShape(shape) ==
    CASE shape = "circle"   -> "ellipse"
      [] shape = "polygon"  -> "polygon"
      [] shape = "arrow"    -> "arrow"
      [] shape = "freehand" -> "highlight"
      [] OTHER              -> "box"

\* A node the annotations are made from: not deleted, and an annotation or
\* without a type.
Candidate(node) == ~node.deleted /\ node.type \in {"", "annotation"}

Complete(node) == node.id # "" /\ node.spatial # "missing" /\ node.timed /\ node.visual

NormalizeAnnotation(node) ==
    LET rawShape == Default(node.shape, "rect")
        rawType  == Default(node.annotationType, TypeFromShape(rawShape)) IN
    [id        |-> node.id,
     type      |-> IF rawType \in SUPPORTED_ANNOTATION_TYPES THEN rawType ELSE "unknown",
     shapeType |-> IF rawShape \in SUPPORTED_SHAPES THEN rawShape ELSE "unknown",
     label     |-> node.label,
     startMs   |-> SecondsToMs(node.start),
     open      |-> node.open,
     endMs     |-> SecondsToMs(node.end),
     nan       |-> IF node.open THEN node.nan \ {"end"} ELSE node.nan,
     parentId  |-> node.parentId]

NormalizeAnnotations(nodes) ==
    [i \in {j \in DOMAIN nodes : Candidate(nodes[j]) /\ Complete(nodes[j])} |->
        NormalizeAnnotation(nodes[i])]

\* Mutant: a node without an id is dropped without a word.
SkippedWithId(nodes) ==
    {Warning("ANNOTATION_SKIPPED", i) :
        i \in {j \in DOMAIN nodes : Candidate(nodes[j]) /\ ~Complete(nodes[j]) /\ nodes[j].id # ""}}

\* A warning for each candidate that is left out.
Skipped(nodes) ==
    {Warning("ANNOTATION_SKIPPED", i) :
        i \in {j \in DOMAIN nodes : Candidate(nodes[j]) /\ ~Complete(nodes[j])}}

NormalizeSubtitles(tracks, cues) ==
    [k \in DOMAIN tracks |->
        [id |-> tracks[k],
         cues |-> {i \in DOMAIN cues : cues[i].track = tracks[k]}]]

Item(type, id, count) == [type |-> type, id |-> id, itemCount |-> count]

ExplicitTracks(nodes) ==
    [i \in {j \in DOMAIN nodes : nodes[j].type = "track" /\ nodes[j].id # ""} |->
        Item("annotation", nodes[i].id,
             Cardinality({j \in DOMAIN nodes : nodes[j].parentId = nodes[i].id}))]

\* No track node, but some node says it is an annotation.
ImplicitTimeline(nodes) ==
    Count(ExplicitTracks(nodes)) = 0 /\ \E i \in DOMAIN nodes : nodes[i].type = "annotation"

\* The tracks of nodes, or the implicit one, come before those of subtitles.
NormalizeTimeline(nodes, subtitles) ==
    [annotation |->
        IF ImplicitTimeline(nodes)
        THEN <<Item("annotation", "annotations",
                    Cardinality({i \in DOMAIN nodes : nodes[i].type = "annotation"}))>>
        ELSE ExplicitTracks(nodes),
     subtitle |->
        [k \in DOMAIN subtitles |->
            Item("subtitle", subtitles[k].id, Cardinality(subtitles[k].cues))]]

\* normalize(): what it throws, or the normalized project.
Normalize(raw) ==
    IF Parse(raw) # "ok" THEN Fails(Parse(raw))
    ELSE IF NormalizeThrows(raw) THEN Fails("internal_error")
    ELSE LET subtitles == NormalizeSubtitles(raw.tracks, raw.cues) IN
        [ok          |-> TRUE,
         version     |-> raw.version,
         source      |-> NormalizeSource(raw),
         oddSource   |-> KeepsOdd(raw),
         annotations |-> NormalizeAnnotations(raw.nodes),
         subtitles   |-> subtitles,
         timeline    |-> NormalizeTimeline(raw.nodes, subtitles),
         unknown     |-> raw.unknown,
         warnings    |-> SourceWarnings(raw) \cup Skipped(raw.nodes)
                         \cup When("IMPLICIT_TIMELINE", 0, ImplicitTimeline(raw.nodes))]

-----------------------------------------------------------------------------
(* validate *)

\* Mutant: only the previous node is compared.
DuplicateOfPrevious(nodes, i) == i > 1 /\ nodes[i - 1].id = nodes[i].id

\* An earlier node has this id.
Duplicate(nodes, i) == \E j \in 1..i - 1 : nodes[j].id = nodes[i].id

\* What is an error about node i.
NodeErrors(nodes, i) ==
    LET node == nodes[i] IN
    When("MISSING_ID", i, node.id = "")
    \cup When("DUPLICATE_ID", i, node.id # "" /\ Duplicate(nodes, i))
    \cup When("MISSING_SPATIAL", i, node.spatial = "missing")
    \cup When("MISSING_TEMPORAL", i, ~node.timed)

\* The node ends before it starts.
BrokenRange(node) ==
    node.timed /\ ~node.open /\ node.nan = {} /\ node.end < node.start

NodeWarnings(nodes, i) ==
    LET node == nodes[i] IN
    When("UNKNOWN_NODE_TYPE", i, node.type \notin {"", "annotation", "element", "clip", "track"})
    \cup When("INVALID_SPATIAL_RANGE", i, node.spatial = "outside")
    \cup When("BROKEN_TIME_RANGE", i, BrokenRange(node))
    \cup When("UNKNOWN_ANNOTATION_TYPE", i, node.annotationType \notin SUPPORTED_ANNOTATION_TYPES \cup {""})

\* Mutant: only the first track is looked up.
OrphanOfFirst(raw, i) == raw.tracks = <<>> \/ raw.tracks[1] # raw.cues[i].track

\* Cue i names a track that is not there.
Orphan(raw, i) == \A k \in DOMAIN raw.tracks : raw.tracks[k] # raw.cues[i].track

CueErrors(raw) ==
    {Warning("INVALID_CUE_RANGE", i) :
        i \in {j \in DOMAIN raw.cues : raw.cues[j].end <= raw.cues[j].start}}

CueWarnings(raw) ==
    {Warning("ORPHANED_SUBTITLE_CUE", i) : i \in {j \in DOMAIN raw.cues : Orphan(raw, j)}}

Report(errors, warnings) ==
    [ok |-> TRUE, valid |-> errors = {}, errors |-> errors, warnings |-> warnings]

\* Mutant: the caught error is reported as a warning.
ParseWarning(error) == Report({}, {Warning("PARSE_ERROR", 0)})

ParseError(error) == Report({Warning("PARSE_ERROR", 0)}, {})

\* validate(): a project that does not parse is invalid, not refused.
Validate(raw) ==
    IF Parse(raw) # "ok" THEN ParseError(Parse(raw))
    ELSE IF ValidateThrows(raw) THEN Fails("internal_error")
    ELSE Report(
        (UNION {NodeErrors(raw.nodes, i) : i \in DOMAIN raw.nodes}) \cup CueErrors(raw),
        (UNION {NodeWarnings(raw.nodes, i) : i \in DOMAIN raw.nodes}) \cup CueWarnings(raw)
        \cup When("UNKNOWN_VERSION", 0, raw.version # "24.0.0")
        \cup When("MISSING_SOURCE_METADATA", 0, NoSource(raw)))
=============================================================================

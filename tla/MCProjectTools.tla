--------------------------- MODULE MCProjectTools ---------------------------
(* Small projects for TLC: up to two nodes of every interesting kind with   *)
(* plain subtitles, and up to two cues and tracks with one node.            *)
EXTENDS ProjectTools

\* A proper annotation; the nodes below differ from it in a field or two.
Box ==
    [id |-> "n1", type |-> "annotation", deleted |-> FALSE, spatial |-> "inside", timed |-> TRUE,
     start |-> 1, open |-> FALSE, end |-> 6, nan |-> {}, visual |-> TRUE, parentId |-> "",
     shape |-> "rect", annotationType |-> "box", label |-> "cat"]

MCNodes ==
    {Box, Null,
     [Box EXCEPT !.id = "n2", !.type = "", !.start = 4, !.open = TRUE, !.label = ""],
     [Box EXCEPT !.id = "n2", !.deleted = TRUE],
     [Box EXCEPT !.id = "", !.type = ""],
     [Box EXCEPT !.spatial = "missing"],
     [Box EXCEPT !.spatial = "outside", !.timed = FALSE],
     [Box EXCEPT !.visual = FALSE],
     [Box EXCEPT !.type = "track", !.visual = FALSE],
     [Box EXCEPT !.id = "n2", !.parentId = "n1", !.shape = "circle", !.annotationType = ""],
     [Box EXCEPT !.id = "n3", !.start = 8, !.end = 2, !.shape = "star", !.annotationType = "doodle"],
     [Box EXCEPT !.id = "n3", !.type = "gadget"],
     [Box EXCEPT !.id = "7"],
     [Box EXCEPT !.id = "n2", !.parentId = "7"],
     [Box EXCEPT !.id = "n3", !.nan = {"start"}],
     [Box EXCEPT !.id = "n3", !.start = 8, !.end = 0, !.nan = {"end"}]}

SeqsUpTo2(S) == {<<>>} \cup {<<s>> : s \in S} \cup {<<s, t>> : s, t \in S}

MCCues ==
    {Null,
     [track |-> "t1", start |-> 0, end |-> 4],
     [track |-> "t2", start |-> 5, end |-> 5],
     [track |-> "t3", start |-> 2, end |-> 3]}

Plain ==
    [shape |-> "project", version |-> "24.0.0", source |-> "direct-url", oddSource |-> FALSE,
     videoUrl |-> "", opaque |-> FALSE, nodes |-> <<>>, tracks |-> <<"t1">>, cues |-> <<>>, unknown |-> 1]

MCProjects ==
    {[Plain EXCEPT !.nodes = ns] : ns \in SeqsUpTo2(MCNodes) \cup {<<Box, n, Box>> : n \in MCNodes}}
    \cup {[Plain EXCEPT !.nodes = <<Box>>, !.tracks = ts, !.cues = cs] :
            ts \in SeqsUpTo2({"t1", "t2", Null}), cs \in SeqsUpTo2(MCCues)}
    \cup {[Plain EXCEPT !.source = s, !.videoUrl = u, !.version = "25"] :
            s \in {"", "local", "local-blob", "local-odd", "youtube", "demo", "odd"},
            u \in {"", "plain", "youtube"}}
    \cup {[Plain EXCEPT !.source = s, !.oddSource = TRUE, !.videoUrl = u] :
            s \in {"local", "local-blob", "youtube", "demo", "odd"}, u \in {"", "plain"}}
    \cup {[Plain EXCEPT !.opaque = TRUE]}
    \cup {[Plain EXCEPT !.shape = s] : s \in {"too_large", "not_object", "no_nodes"}}

MCFixture == [Plain EXCEPT !.nodes = <<Box>>]

MCRange(s, e) == [startMs |-> s, endMs |-> e]

NoFilter == [type |-> "", label |-> AnyLabel, confidence |-> FALSE, timeRange |-> Undefined]

MCFilters ==
    {[NoFilter EXCEPT !.type = t] : t \in {"", "box", "ellipse", "unknown"}}
    \cup {[NoFilter EXCEPT !.timeRange = MCRange(s, e)] : s, e \in {0, 1, 3, 4}}
    \cup {[NoFilter EXCEPT !.label = {"cat"}, !.type = t] : t \in {"", "box"}}
    \cup {[NoFilter EXCEPT !.label = {}], [NoFilter EXCEPT !.confidence = TRUE]}
=============================================================================

---------------------------- MODULE WorkAnswers ----------------------------
(***************************************************************************)
(* What a client is told of work: activities with the snapshots of their   *)
(* edges, jobs with their claims and results, dependency sets.  Each is    *)
(* read from its tables, carried by the C ABI and rebuilt by the binding.  *)
(***************************************************************************)
EXTENDS Answers

LOCAL INSTANCE SequencesExt

(* A tool has a name; an agent a name, an identifier, or both.             *)
ToolFrom(name, version, uri) ==
    IF name = Null THEN Null ELSE [name |-> name, version |-> version, uri |-> uri]
AgentFrom(name, scheme, value, qualifier) ==
    IF name = Null /\ scheme = Null THEN Null
    ELSE [name |-> name,
          identifier |-> IF scheme = Null THEN Null
                         ELSE [scheme |-> scheme, value |-> value, qualifier |-> qualifier]]

AbiTool(t)  == [name |-> Part(t, "name"), version |-> Part(t, "version"), uri |-> Part(t, "uri")]
AbiAgent(a) ==
    LET identifier == Part(a, "identifier") IN
    [name |-> Part(a, "name"), scheme |-> Part(identifier, "scheme"),
     value |-> Part(identifier, "value"), qualifier |-> Part(identifier, "qualifier")]
PyTool(v)   == ToolFrom(v.name, v.version, v.uri)
PyAgent(v)  == AgentFrom(v.name, v.scheme, v.value, v.qualifier)

WorkTexts(tool, agent) ==
    LET t == AbiTool(tool)  a == AbiAgent(agent) IN
    {t[f] : f \in DOMAIN t} \cup {a[f] : f \in DOMAIN a}
-----------------------------------------------------------------------------
(* Activities: one row, edges that carry the sequence of the activity's    *)
(* own revision, and per edge the fingerprints its representation had.     *)
ActivityRows(details, past) ==
    {[id |-> d.event.activity, kind |-> d.event.kind,
      started_at |-> Maybe(details, 0), finished_at |-> IF details = "full" THEN 0 ELSE Null,
      tool_name |-> Maybe(details, "tool"), tool_version |-> Maybe(details, "1"), tool_uri |-> Null,
      agent_name |-> IF details = "odd" THEN "agent" ELSE Null,
      agent_scheme |-> IF details = "full" THEN "scheme" ELSE Null,
      agent_value |-> IF details = "full" THEN "value" ELSE Null, agent_qualifier |-> Null]
        : d \in {Of(past, {"ActivityCreated"})[i] : i \in DOMAIN Of(past, {"ActivityCreated"})}}

EdgeRows(details, past, type) ==
    Each(LAMBDA d : [activity |-> d.event.activity, representation |-> d.event.representation,
                     role |-> d.event.role, snapshot |-> Maybe(details, d.at)],
         Of(past, {type}))

PrintsAt(details, past, d) ==
    LET before == SelectSeq(past, LAMBDA p : p.nth < d.nth) IN
    Each(LAMBDA p : [algorithm |-> p.event.algorithm, version |-> p.event.version,
                     value |-> PrintValue(p),
                     observed |-> IF details = "odd" THEN Null ELSE p.at],
         CurrentPrints(before, "RepresentationFingerprintObserved", "representation",
                       d.event.representation))

PrintRows(details, past, type) == Each(LAMBDA d : PrintsAt(details, past, d), Of(past, {type}))

(* The edges of an activity, joined with the fingerprints read before them.*)
EdgesOf(activity, edges, prints) ==
    LET mine == SelectSeq([i \in DOMAIN edges |-> [row |-> i, edge |-> edges[i]]],
                          LAMBDA r : r.edge.activity = activity)
        FingerprintsOf(r) == IF r.row \in DOMAIN prints THEN prints[r.row] ELSE <<>>
    IN Each(LAMBDA r :
              [representation |-> r.edge.representation, role |-> r.edge.role,
               snapshot |-> IF r.edge.snapshot = Null THEN Null
                            ELSE [sequence |-> r.edge.snapshot, fingerprints |-> FingerprintsOf(r)]],
            mine)

DecodedActivity(row, inputs, outputs) ==
    [id |-> row.id, kind |-> row.kind, started_at |-> row.started_at,
     finished_at |-> row.finished_at, inputs |-> inputs, outputs |-> outputs,
     tool |-> ToolFrom(row.tool_name, row.tool_version, row.tool_uri),
     agent |-> AgentFrom(row.agent_name, row.agent_scheme, row.agent_value, row.agent_qualifier)]

(* Rows joined with edges; an activity without outputs is an error of the  *)
(* store, and so is, in activities(), an edge without its row.             *)
Assembled(rows, t) ==
    LET Whole(row) == DecodedActivity(row, EdgesOf(row.id, t.inputs, t.inputPrints),
                                           EdgesOf(row.id, t.outputs, t.outputPrints))
    IN IF \E row \in rows : Whole(row).outputs = <<>>
       THEN Failed ELSE Found(ById({Whole(row) : row \in rows}))

Stray(rows, edges) == \E i \in DOMAIN edges : \A row \in rows : row.id # edges[i].activity

EdgeTables(details, p, inPrints, ins, outPrints, outs) ==
    [inputs       |-> EdgeRows(details, p[ins], "ActivityInputAdded"),
     inputPrints  |-> PrintRows(details, p[inPrints], "ActivityInputAdded"),
     outputs      |-> EdgeRows(details, p[outs], "ActivityOutputAdded"),
     outputPrints |-> PrintRows(details, p[outPrints], "ActivityOutputAdded")]

(* activities(): five statements, and nothing that holds them together.    *)
Activities(details, p) ==
    LET rows == ActivityRows(details, p[1])
        t == EdgeTables(details, p, 2, 3, 4, 5)
    IN IF Stray(rows, t.inputs) \/ Stray(rows, t.outputs) THEN Failed ELSE Assembled(rows, t)

(* activities_producing_page: the identities in one statement, then each   *)
(* activity by its own; p[2] stands for the statements after the first.    *)
ActivitiesProducing(details, p, representation) ==
    LET outputs == Of(p[1], {"ActivityOutputAdded"})
        ids == {outputs[i].event.activity : i \in {j \in DOMAIN outputs :
                    outputs[j].event.representation = representation}}
    IN Assembled({row \in ActivityRows(details, p[2]) : row.id \in ids},
                 EdgeTables(details, p, 2, 2, 2, 2))

EdgeTexts(x)   == {x.role} \cup (IF x.snapshot = Null THEN {}
                    ELSE {f.algorithm : f \in ToSet(x.snapshot.fingerprints)})
ActivityTexts(x) == {x.kind} \cup WorkTexts(x.tool, x.agent)
                    \cup UNION {EdgeTexts(e) : e \in ToSet(x.inputs \o x.outputs)}

AbiPrint(f) == [algorithm |-> f.algorithm, version |-> f.version, value |-> f.value,
                has_observed |-> Flag(f.observed), observed |-> OrZero(f.observed)]
AbiSnapshot(s) ==
    IF s = Null THEN [has |-> 0, sequence |-> 0, fingerprints |-> <<>>]
    ELSE [has |-> 1, sequence |-> s.sequence, fingerprints |-> Each(AbiPrint, s.fingerprints)]
AbiEdge(x) == [representation |-> Bytes(x.representation), role |-> x.role,
               snapshot |-> AbiSnapshot(x.snapshot)]
AbiActivity(x) ==
    [id |-> Bytes(x.id), kind |-> x.kind,
     has_started_at |-> Flag(x.started_at), started_at |-> OrZero(x.started_at),
     has_finished_at |-> Flag(x.finished_at), finished_at |-> OrZero(x.finished_at),
     tool |-> AbiTool(x.tool), agent |-> AbiAgent(x.agent),
     inputs |-> Each(AbiEdge, x.inputs), outputs |-> Each(AbiEdge, x.outputs)]

PyPrint(v) == [algorithm |-> v.algorithm, version |-> v.version, value |-> v.value,
               observed |-> Given(v.has_observed, v.observed)]
PySnapshot(v) ==
    IF v.has = 0 THEN Null
    ELSE [sequence |-> v.sequence, fingerprints |-> Each(PyPrint, v.fingerprints)]
PyEdge(v) == [representation |-> Id("representation", v.representation), role |-> v.role,
              snapshot |-> PySnapshot(v.snapshot)]
PyActivity(v) ==
    [id |-> Id("activity", v.id), kind |-> v.kind,
     started_at |-> Given(v.has_started_at, v.started_at),
     finished_at |-> Given(v.has_finished_at, v.finished_at),
     tool |-> PyTool(v.tool), agent |-> PyAgent(v.agent),
     inputs |-> Each(PyEdge, v.inputs), outputs |-> Each(PyEdge, v.outputs)]

ActivitySet(answer)  == Carried(answer, ActivityTexts, AbiActivity)
ActivitiesIn(native) == Each(PyActivity, native)
-----------------------------------------------------------------------------
(* Jobs.  The state of a row and what it keeps beside it.                  *)
States == <<"requested", "claimed", "succeeded", "failed", "cancelled">>

StateAfter(type) ==
    CASE type \in {"JobRequested", "JobClaimReleased"} -> "requested"
      [] type \in {"JobClaimed", "JobClaimRenewed"}    -> "claimed"
      [] type = "JobSucceeded" -> "succeeded"
      [] type = "JobFailed"    -> "failed"
      [] type = "JobCancelled" -> "cancelled"

JobHistory(past, job) == About(past, JobEvent, "job", job)

(* The output and the activity of a success are announced beside it.       *)
Beside(past, d, type, field) ==
    LET same == SelectSeq(Of(past, {type}), LAMBDA o : o.at = d.at) IN same[1].event[field]

JobRow(details, past, job) ==
    LET latest == Last(JobHistory(past, job))
        state == StateAfter(latest.event.type)
        claimed == state = "claimed"
        succeeded == state = "succeeded"
        Claim(x) == IF claimed THEN x ELSE Null
    IN [id |-> job, kind |-> "kind", state |-> Code(States, state),
        asset |-> Id("asset", 1), representation_kind |-> Code(Kinds, "proxy") - 1,
        target_root |-> Maybe(details, "root"),
        claim_id |-> Claim(Id("claim", latest.at)), claim_expires_at |-> Claim(0),
        tool_name |-> Claim("worker"), tool_version |-> Claim(Maybe(details, "1")),
        tool_uri |-> Null, agent_name |-> Claim(IF details = "odd" THEN "agent" ELSE Null),
        agent_scheme |-> Claim(IF details = "full" THEN "scheme" ELSE Null),
        agent_value |-> Claim(IF details = "full" THEN "value" ELSE Null),
        agent_qualifier |-> Null,
        activity |-> IF succeeded THEN Beside(past, latest, "ActivityCreated", "activity")
                     ELSE Null,
        output |-> IF succeeded
                   THEN Beside(past, latest, "RepresentationAdded", "representation") ELSE Null,
        diagnostic |-> IF state = "failed" THEN "diagnostic" ELSE Null]

ClaimColumns == {"claim_id", "claim_expires_at", "tool_name", "tool_version", "tool_uri",
                 "agent_name", "agent_scheme", "agent_value", "agent_qualifier"}
ResultColumns == {"activity", "output"}

(* decode_job: a state forbids the columns of the others.                  *)
Forbidden(state) ==
    CASE state \in {"requested", "cancelled"} -> ClaimColumns \cup ResultColumns \cup {"diagnostic"}
      [] state = "claimed"   -> ResultColumns \cup {"diagnostic"}
      [] state = "succeeded" -> ClaimColumns \cup {"diagnostic"}
      [] state = "failed"    -> ClaimColumns \cup ResultColumns

WellFormed(row) == \A c \in Forbidden(States[row.state]) : row[c] = Null

DecodedJob(row, inputs) ==
    LET state == States[row.state] IN
    [id |-> row.id, kind |-> row.kind, inputs |-> inputs, asset |-> row.asset,
     representation_kind |-> Kinds[row.representation_kind + 1], target_root |-> row.target_root,
     state |-> state,
     claim |-> IF state # "claimed" THEN Null
               ELSE [id |-> row.claim_id, expires_at |-> row.claim_expires_at,
                     tool |-> ToolFrom(row.tool_name, row.tool_version, row.tool_uri),
                     agent |-> AgentFrom(row.agent_name, row.agent_scheme, row.agent_value,
                                         row.agent_qualifier)],
     completion |-> IF state # "succeeded" THEN Null
                    ELSE [activity |-> row.activity, output |-> row.output],
     failure |-> row.diagnostic]

(* jobs(): the page of rows, then the inputs of each, which never change.  *)
Jobs(details, p) ==
    LET requested == Of(p[1], {"JobRequested"})
        rows == {JobRow(details, p[1], requested[i].event.job) : i \in DOMAIN requested}
        Inputs(row) == <<Id("representation", 1)>>
    IN IF \A row \in rows : WellFormed(row)
       THEN Found(ById({DecodedJob(row, Inputs(row)) : row \in rows})) ELSE Failed

JobTexts(x) == {x.kind, x.target_root, x.failure}
               \cup (IF x.claim = Null THEN {} ELSE WorkTexts(x.claim.tool, x.claim.agent))

AbiJob(x) ==
    [id |-> Bytes(x.id), kind |-> x.kind, asset |-> Bytes(x.asset),
     representation_kind |-> Code(Kinds, x.representation_kind),
     target_root |-> x.target_root, state |-> Code(States, x.state),
     inputs |-> Each(Bytes, x.inputs),
     claim_id |-> OptBytes(Part(x.claim, "id")),
     claim_expires_at |-> OrZero(Part(x.claim, "expires_at")),
     tool |-> AbiTool(Part(x.claim, "tool")), agent |-> AbiAgent(Part(x.claim, "agent")),
     activity |-> OptBytes(Part(x.completion, "activity")),
     output |-> OptBytes(Part(x.completion, "output")), diagnostic |-> x.failure]

PyJob(v) ==
    LET state == States[v.state] IN
    [id |-> Id("job", v.id), kind |-> v.kind, asset |-> Id("asset", v.asset),
     inputs |-> Each(LAMBDA b : Id("representation", b), v.inputs),
     representation_kind |-> Kinds[v.representation_kind], target_root |-> v.target_root,
     state |-> state,
     claim |-> IF state # "claimed" THEN Null
               ELSE [id |-> Id("claim", v.claim_id), expires_at |-> v.claim_expires_at,
                     tool |-> PyTool(v.tool), agent |-> PyAgent(v.agent)],
     completion |-> IF state # "succeeded" THEN Null
                    ELSE [activity |-> Id("activity", v.activity),
                          output |-> Id("representation", v.output)],
     failure |-> v.diagnostic]

JobSet(answer) == Carried(answer, JobTexts, AbiJob)
JobsIn(native) == Each(PyJob, native)
-----------------------------------------------------------------------------
(* Dependency sets.  A fingerprint recorded after a set marks it for a new *)
(* extraction.                                                             *)
Recordings(past, representation) ==
    About(past, {"DependencySetRecorded"}, "representation", representation)

DependencyHeader(past, representation) ==
    LET sets == Recordings(past, representation) IN
    IF sets = <<>> THEN Null
    ELSE [recorded_at |-> Last(sets).at,
          needs_extraction |-> \E d \in ToSet(About(past, {"RepresentationFingerprintObserved"},
                                                    "representation", representation)) :
              d.nth > Last(sets).nth]

(* The entries of the last recording: its first extraction left the target *)
(* open, the ones after it resolve it.                                     *)
DependencyRows(past, representation) ==
    LET n == Len(Recordings(past, representation))
        again == n > 1
    IN IF n = 0 THEN <<>>
       ELSE <<[source |-> IF again THEN 1 ELSE Null, kind |-> "kind",
               target_kind |-> 1, target |-> 1,
               resolved |-> IF again THEN 2 ELSE Null, required |-> IF again THEN 0 ELSE 1,
               authored |-> "reference"]>>

DecodedDependency(row) ==
    [source |-> IF row.source = Null THEN Null ELSE Id("resource", row.source),
     kind |-> row.kind, target |-> Target(row.target_kind, row.target),
     resolved |-> IF row.resolved = Null THEN Null ELSE Id("representation", row.resolved),
     required |-> row.required = 1, authored |-> row.authored]

(* load_dependency_set: the header, then the entries of its source, by two *)
(* statements that nothing holds together.                                 *)
SetOf(header, representation, rows) ==
    Found(IF header = Null THEN <<>>
          ELSE <<[id |-> representation, recorded_at |-> header.recorded_at,
                  needs_extraction |-> header.needs_extraction,
                  dependencies |-> Each(DecodedDependency, rows)]>>)

(* Variant: the entries are read first.                                    *)
DependencySet_RowsFirst(p, representation) ==
    SetOf(DependencyHeader(p[2], representation), representation,
          DependencyRows(p[1], representation))

DependencySet(p, representation) ==
    SetOf(DependencyHeader(p[1], representation), representation,
          DependencyRows(p[2], representation))

DependencyTexts(x) == UNION {{d.kind, d.authored} : d \in ToSet(x.dependencies)}

AbiDependency(d) ==
    [has_source |-> Flag(d.source), source |-> OptBytes(d.source), kind |-> d.kind,
     target |-> AbiObject(d.target), has_resolved |-> Flag(d.resolved),
     resolved |-> OptBytes(d.resolved), required |-> IF d.required THEN 1 ELSE 0,
     authored |-> d.authored]
AbiDependencySet(x) ==
    [id |-> Bytes(x.id), recorded_at |-> x.recorded_at,
     status |-> IF x.needs_extraction THEN 2 ELSE 1,
     dependencies |-> Each(AbiDependency, x.dependencies)]

PyDependency(v) ==
    [source |-> IF v.has_source = 0 THEN Null ELSE Id("resource", v.source), kind |-> v.kind,
     target |-> PyObject(v.target),
     resolved |-> IF v.has_resolved = 0 THEN Null ELSE Id("representation", v.resolved),
     required |-> v.required # 0, authored |-> v.authored]
PyDependencySet(v) ==
    [id |-> Id("representation", v.id), recorded_at |-> v.recorded_at,
     needs_extraction |-> v.status = 2, dependencies |-> Each(PyDependency, v.dependencies)]

DependenciesSet(answer)  == Carried(answer, DependencyTexts, AbiDependencySet)
DependencySetIn(native)  == Each(PyDependencySet, native)
=============================================================================

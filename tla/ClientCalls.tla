----------------------------- MODULE ClientCalls -----------------------------
(***************************************************************************)
(* A client of the Python binding asks the production a question while     *)
(* other processes commit.  A query of the library runs its statements one *)
(* after the other, and most of them without a read transaction: each sees *)
(* the commits there are.  The answer is then converted for the C ABI, at  *)
(* once and as a whole, read by the binding value by value, and released.  *)
(*                                                                         *)
(* The client that follows the feed (RevisionFeed) and the one that asks   *)
(* do not affect each other: a behaviour has one of them.                  *)
(***************************************************************************)
EXTENDS RevisionFeed, MediaAnswers, WorkAnswers, NoteAnswers

CONSTANTS
    Call,      \* what is asked: records of family, subject and details
    History    \* what others commit in the meantime, by family

CallSeq == INSTANCE SequencesExt

VARIABLE call

callVars == <<vars, call>>

(* The statements of each query: those that nothing holds together.        *)
Statements(family) ==
    CASE family \in {"activities", "representations"} -> 5
      [] family \in {"producing", "dependencies", "events"} -> 2
      [] OTHER -> 1

NoCall == [family |-> "none"]
Asking == call # NoCall

Idle(c, commits) ==
    [pc |-> "idle", family |-> c.family, subject |-> c.subject, details |-> c.details,
     commits |-> commits, at |-> <<>>, answer |-> Failed, native |-> <<>>, value |-> Failed]

CallInit ==
    /\ Init
    /\ \/ call = NoCall
       \/ /\ wanted = {}
          /\ \E c \in Call : \E commits \in History[c.family] : call = Idle(c, commits)
-----------------------------------------------------------------------------
(* What had been committed by a revision, event by event.                  *)
Dated(s) == [i \in DOMAIN feed[s] |-> [at |-> s, nth |-> 100 * s + i, event |-> feed[s][i]]]
Past(n)  == CallSeq!FlattenSeq([s \in 1..n |-> Dated(s)])

(* The answer of a query whose statements ran when so much was committed.  *)
AnswerAt(at) ==
    LET p == [i \in DOMAIN at |-> Past(at[i])]
        f == call.family  details == call.details  subject == call.subject
    IN CASE f = "assets"          -> Assets(details, p)
         [] f = "roots"           -> MediaRootsOf(details, p)
         [] f = "representations" -> Representations(details, p, subject)
         [] f = "identifiers"     -> Identifiers(p, subject)
         [] f = "found"           -> TargetsOf(p, subject[1], subject[2])
         [] f = "metadata"        -> Metadata(details, p, subject)
         [] f = "activities"      -> Activities(details, p)
         [] f = "producing"       -> ActivitiesProducing(details, p, subject)
         [] f = "jobs"            -> Jobs(details, p)
         [] f = "dependencies"    -> DependencySet(p, subject)
         [] f = "revisions"       -> ChangesSince(details, p, subject)
         [] f = "events"          -> EventsOf(p, subject)

(* The result set that the ABI makes of an answer, and the values that the *)
(* binding makes of a result set.                                          *)
Native(answer) ==
    LET f == call.family IN
    CASE f = "assets"          -> AssetSet(answer)
      [] f = "roots"           -> RootSet(answer)
      [] f = "representations" -> RepresentationSet(answer)
      [] f = "identifiers"     -> IdentifierSet(answer)
      [] f = "found"           -> FoundSet(answer)
      [] f = "metadata"        -> MetadataSet(answer)
      [] f \in {"activities", "producing"} -> ActivitySet(answer)
      [] f = "jobs"            -> JobSet(answer)
      [] f = "dependencies"    -> DependenciesSet(answer)
      [] f = "revisions"       -> RevisionSet(answer)
      [] f = "events"          -> EventSet(answer)

Rebuilt(native) ==
    LET f == call.family IN
    CASE f = "assets"          -> AssetsIn(native)
      [] f = "roots"           -> RootsIn(native)
      [] f = "representations" -> RepresentationsIn(native)
      [] f = "identifiers"     -> IdentifiersIn(native)
      [] f = "found"           -> FoundIn(native)
      [] f = "metadata"        -> MetadataIn(native)
      [] f \in {"activities", "producing"} -> ActivitiesIn(native)
      [] f = "jobs"            -> JobsIn(native)
      [] f = "dependencies"    -> DependencySetIn(native)
      [] f = "revisions"       -> RevisionsIn(native)
      [] f = "events"          -> EventsIn(native)
-----------------------------------------------------------------------------
Others == UNCHANGED <<wanted, cancelled, saved, observer, error, told, scan>>

(* Another process commits the next revision of its plan.                  *)
OtherCommits ==
    /\ Asking /\ call.pc # "done" /\ Len(feed) < Len(call.commits)
    /\ feed' = Append(feed, call.commits[Len(feed) + 1])
    /\ UNCHANGED call /\ Others

Step(c) == call' = c /\ UNCHANGED feed /\ Others

(* One statement.  The media roots are those of the connection, which read *)
(* them when it was opened or last committed.                              *)
ReadTable ==
    /\ Asking /\ call.pc \in {"idle", "reading"}
    /\ Len(call.at) < Statements(call.family)
    /\ \E n \in IF call.family = "roots" THEN 0..Len(feed) ELSE {Len(feed)} :
          Step([call EXCEPT !.pc = "reading", !.at = Append(@, n)])

(* The query is answered; the ABI converts all of the answer, or none.     *)
Answered ==
    /\ Asking /\ call.pc = "reading"
    /\ Len(call.at) = Statements(call.family)
    /\ LET answer == AnswerAt(call.at)
           native == Native(answer)
       IN Step([call EXCEPT !.pc = IF native.ok THEN "handed" ELSE "refused",
                            !.answer = answer, !.native = native.items])

(* The binding builds its own values, and releases the result set whether  *)
(* that succeeds or not.                                                   *)
Taken ==
    /\ Asking /\ call.pc = "handed"
    /\ Step([call EXCEPT !.pc = "done", !.native = <<>>,
                         !.value = Found(Rebuilt(call.native))])

CallNext ==
    \/ call = NoCall /\ Next /\ UNCHANGED call
    \/ OtherCommits \/ ReadTable \/ Answered \/ Taken

CallSpec     == CallInit /\ [][CallNext]_callVars
LiveCallSpec == CallSpec /\ WF_callVars(call = NoCall /\ Run /\ UNCHANGED call)
-----------------------------------------------------------------------------
Whole(n) == AnswerAt([i \in 1..Statements(call.family) |-> n])
Window   == call.at[1]..CallSeq!Last(call.at)
Over     == Asking /\ call.pc \in {"handed", "refused", "done"}

(* A list that was read by several statements is the list of one instant:  *)
(* nothing an overlapping commit did is shown by halves.  A dependency set *)
(* and a representation are put together from several instants, and then   *)
(* what was read first is not newer than what was read last: the header of *)
(* a set speaks of these entries or of ones they have replaced, and a      *)
(* representation has the resources of its members.  A query fails only    *)
(* when its subject is missing or when an activity was committed under it. *)
ReadsAreWhole ==
    Over =>
      IF ~call.answer.ok
      THEN \/ ~Whole(call.at[1]).ok
           \/ call.family = "activities" /\ Whole(call.at[1]) # Whole(CallSeq!Last(call.at))
      ELSE CASE call.family = "dependencies" ->
                  \A i \in DOMAIN call.answer.items : \E n, m \in Window :
                      /\ n <= m
                      /\ i \in DOMAIN Whole(n).items \cap DOMAIN Whole(m).items
                      /\ Whole(n).items[i].recorded_at = call.answer.items[i].recorded_at
                      /\ Whole(m).items[i].dependencies = call.answer.items[i].dependencies
             [] call.family = "representations" ->
                  \A i \in DOMAIN call.answer.items :
                      LET x == call.answer.items[i] IN
                      {r.id : r \in Range(x.resources)}
                          = {m.resource : m \in Range(x.structure.members)}
             [] OTHER -> \E n \in Window : call.answer = Whole(n)

(* What a client gets is what the library answered, value for value, but   *)
(* for the media roots of the locators in a representation.  Metadata that *)
(* a writer entered comes back with its structure and order: texts and     *)
(* references as they were, a decimal or a rational as the same number in  *)
(* its normal form, which may not be the form it was entered in (1.50 is   *)
(* 1.5, 2/4 is 1/2).  Excepted are numbers that do not fit the C type they *)
(* are passed in, and zero over a denominator beyond the signed numbers:   *)
(* that comes back as -1.  The binding fails after the library has         *)
(* answered only when a text that nobody validates holds a NUL.            *)
Said(x) == IF call.family = "representations" THEN SaidOfRepresentation(x) ELSE x

AnswersSurvive ==
    Over =>
      /\ call.pc = "done" => call.value = Found(Each(Said, call.answer.items))
      /\ call.pc = "done" /\ call.family = "metadata" =>
            \A i \in DOMAIN call.value.items :
                Tells(call.value.items[i].value, Written(call.details))
      /\ call.pc = "refused" /\ call.answer.ok =>
            call.family \in {"assets", "roots"} /\ call.details = "odd"
=============================================================================

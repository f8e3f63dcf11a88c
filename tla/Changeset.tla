----------------------------- MODULE Changeset -----------------------------
(***************************************************************************)
(* What one Dev prompt's changeset goes through between the crew's answer  *)
(* and the preview: _phase_post_crew with its safety nets, the minimality  *)
(* review and the dry run with its one retry.  Module Pipeline follows the *)
(* turn and treats a changeset as opaque; this module follows its content. *)
(*                                                                         *)
(* A value in an item is known by who wrote it: the agent, the intent      *)
(* registry, a module, or the Insights handoff.  An agent's value is never *)
(* equal to theirs, and never empty.  What an LLM writes is a choice.      *)
(***************************************************************************)
EXTENDS Sequences, Classification

CONSTANTS Roles,     \* roles of the site
          NamedBy,   \* the modules that have naming_patterns
          RolesOf,   \* permissions_add_roles of each module
          RulesOf,   \* validation_rules of each module
          Outputs,   \* what an LLM may answer
          Remarks,   \* what a specialist LLM may note
          BaseRole   \* the role of the registry's permissions default

Severities == {"advisory", "warning", "blocker"}
Containers == {"none", "list", "wrapped", "bare"}

\* One JSON value of an answer.  A marked one has op, operation, type, or
\* doctype with data; annotated are the fields the agent says it defaulted.
Entry  == {e \in [dict : BOOLEAN, marked : BOOLEAN, doctype : DocTypes,
                  gives : SUBSET Fields, annotated : SUBSET Fields,
                  roles : SUBSET Roles] :
             /\ e.marked => e.dict
             /\ e.annotated \subseteq e.gives
             /\ e.roles # {} => "permissions" \in e.gives}
Output == [container : Containers, entries : Seq(Entry)]
Remark == [issue : STRING, severity : Severities]
Rule   == [issue : STRING, severity : Severities,
           doctype : DocTypes, given : SUBSET Fields]

Sources == {"unset", "agent", "default", "added", "handoff"}

ASSUME ChangesetAssumption ==
    /\ Modules \cap Sources = {} /\ NamedBy \subseteq Modules
    /\ RolesOf \in [Modules -> SUBSET Roles] /\ BaseRole \in Roles
    /\ RulesOf \in [Modules -> SUBSET Rule]
    /\ Outputs \subseteq Output
    /\ Remarks \subseteq Remark

VARIABLES turn,      \* what the earlier phases classified
          stage,     \* the net or step that runs next
          changes,   \* ctx.changes: pos orders the list
          filled,    \* history: the backfill did not fail
          notes,     \* ctx.module_validation_notes
          pruned,    \* ctx.removed_by_reflection
          verdict    \* ctx.dry_run_result, and the changeset it was given on

vars == <<turn, stage, changes, filled, notes, pruned, verdict>>

(***************************************************************************)
(* Extraction.                                                             *)
(***************************************************************************)
Item == [from : {"crew", "rescue", "fix"}, pos : Nat, doctype : DocTypes,
         gives : SUBSET Fields, annotated : SUBSET Fields,
         granted : SUBSET Roles,              \* roles the agent gave
         data : [Fields -> Sources \cup Modules], roles : SUBSET Roles,
         pill : [Fields -> {"none", "user", "default"}]]

\* The normalised item has op, doctype and data: an agent's own
\* field_defaults_meta is not copied.
Normalised(e, from, i) ==
    [from |-> from, pos |-> i, doctype |-> e.doctype,
     gives |-> e.gives, annotated |-> e.annotated, granted |-> e.roles,
     data  |-> [f \in Fields |-> IF f \in e.gives THEN "agent" ELSE "unset"],
     roles |-> e.roles, pill |-> [f \in Fields |-> "none"]]

\* A list is taken as it is, a wrapped list or a bare dict only if every
\* part looks like a changeset item; entries that are no dict are skipped.
Taken(o) ==
    {i \in DOMAIN o.entries :
        /\ o.entries[i].dict
        /\ o.container # "none"
        /\ o.container = "list" \/ \A j \in DOMAIN o.entries : o.entries[j].marked}

ExtractChanges(o, from) ==
    {Normalised(o.entries[i], from, i) : i \in Taken(o)}

(***************************************************************************)
(* Backfill of registry and module defaults.                               *)
(***************************************************************************)
Absent(c, schema) == {f \in schema.defaults : c.data[f] = "unset"}

FromRegistryOver(c, schema) ==
    [c EXCEPT !.data  = [f \in Fields |-> IF f \in schema.defaults THEN "default" ELSE @[f]],
              !.pill  = [f \in Fields |-> IF f \in schema.defaults THEN "default" ELSE @[f]]]
FromRegistry(c, schema) ==
    LET absent == Absent(c, schema)
        pill(f) == IF f \in absent THEN "default"
                   ELSE IF f \in schema.defaults \cup schema.bare THEN "user" ELSE "none"
    IN  [c EXCEPT !.data  = [f \in Fields |-> IF f \in absent THEN "default" ELSE @[f]],
                  !.roles = IF "permissions" \in absent THEN {BaseRole} ELSE @,
                  !.pill  = [f \in Fields |-> IF @[f] = "none" THEN pill(f) ELSE @[f]]]

AddRoles(c, ms) ==
    LET new == (UNION {RolesOf[m] : m \in ms}) \ c.roles
    IN  IF new = {} THEN c
        ELSE [c EXCEPT !.roles = @ \cup new,
                       !.data["permissions"] = IF @ = "unset" THEN "added" ELSE @,
                       !.pill["permissions"] = "default"]

SwapNamingAnyway(c, m) ==
    IF m \in NamedBy
    THEN [c EXCEPT !.data["autoname"] = m, !.pill["autoname"] = "default"]
    ELSE c
SwapNaming(c, m) ==
    IF c.pill["autoname"] = "default" /\ m \in NamedBy
    THEN [c EXCEPT !.data["autoname"] = m]
    ELSE c

Backfilled(c) ==
    IF turn.intent = "unknown" \/ ~turn.builders THEN c
    ELSE LET schema == Schema[turn.intent]
             base   == FromRegistry(c, schema)
         IN  CASE schema.doctype # c.doctype -> c
               [] schema.doctype = c.doctype /\ turn.module = NoModule -> base
               [] OTHER -> AddRoles(SwapNaming(AddRoles(base, {turn.module}), turn.module),
                                    turn.secondaries)

(***************************************************************************)
(* The Insights handoff: a name for a report without one, if the candidate *)
(* suggests one, and for an aggregation the fields the specialist is not   *)
(* trusted with.                                                           *)
(***************************************************************************)
Forced(candidate) ==
    {f \in {"report_type", "query"} : "query" \in candidate}
    \cup {f \in {"ref_doctype"} : {"query", "target"} \subseteq candidate}
Named(candidate, c) ==
    {f \in {"report_name"} : "name" \in candidate /\ c.data[f] = "unset"}

Write(c, fs) ==
    [c EXCEPT !.data = [f \in Fields |-> IF f \in fs THEN "handoff" ELSE @[f]],
              !.pill = [f \in Fields |-> IF f \in fs THEN "default" ELSE @[f]]]

HandedOffIfMissing(c) ==
    IF c.doctype # "Report" THEN c
    ELSE Write(c, Named(turn.candidate, c)
                  \cup {f \in Forced(turn.candidate) : c.data[f] = "unset"})
HandedOff(c) ==
    IF c.doctype # "Report" THEN c
    ELSE Write(c, Named(turn.candidate, c) \cup Forced(turn.candidate))

(***************************************************************************)
(* Notes of the module specialists.                                        *)
(***************************************************************************)
Id(c)        == <<c.from, c.pos>>
Index(cs, c) == Cardinality({d \in cs : d.pos < c.pos})
NoIndex      == -1
NoItem       == <<"all", 0>>      \* about no item in particular
Note == [by : Modules, issue : STRING, severity : Severities,
         index : Int, about : {"crew", "rescue", "fix", "all"} \X Nat]

Applies(r, c) == r.doctype = c.doctype /\ \A f \in r.given : c.data[f] = "agent"

RuleNotesAmongHits(m, cs) ==
    UNION {LET hits == {c \in cs : Applies(r, c)}
           IN  {[by |-> m, issue |-> r.issue, severity |-> r.severity,
                 index |-> Index(hits, c), about |-> Id(c)] : c \in hits}
           : r \in RulesOf[m]}
\* The index is the item's place in the list the specialist was given.
RuleNotes(m, cs) ==
    UNION {{[by |-> m, issue |-> r.issue, severity |-> r.severity,
             index |-> Index(cs, c), about |-> Id(c)]
            : r \in {q \in RulesOf[m] : Applies(q, c)}} : c \in cs}

\* The rules' notes, then those of the LLM's that no rule has made.
ValidateOutput(m, cs, said) ==
    LET ruled == RuleNotes(m, cs)
    IN  ruled \cup {[by |-> m, issue |-> s.issue, severity |-> s.severity,
                     index |-> NoIndex, about |-> NoItem]
                    : s \in {q \in said : \A n \in ruled : n.issue # q.issue}}

Capped(ns) ==
    {[n EXCEPT !.severity = IF @ = "blocker" THEN "warning" ELSE @] : n \in ns}

(***************************************************************************)
(* The steps of _phase_post_crew.                                          *)
(***************************************************************************)
NoVerdict == [status |-> "none", of |-> {}]
Statuses  == {"ok", "invalid", "infra_error"}

Init ==
    /\ turn = NoTurn
    /\ stage = "classify" /\ changes = {} /\ filled = FALSE
    /\ notes = {} /\ pruned = {} /\ verdict = NoVerdict

\* The orchestrator keeps the prompt in the Dev mode, and the classifiers of
\* intent and module name the turn.
Classify ==
    /\ stage = "classify"
    /\ \E p \in Prompts, f \in Flags : "dev" \in Modes(p, f) /\ turn' \in TurnsOf(p, f)
    /\ stage' = "extract"
    /\ UNCHANGED <<changes, filled, notes, pruned, verdict>>

\* Chat, Insights and Plan answer themselves; there is no changeset.
Divert ==
    /\ stage = "classify"
    /\ \E p \in Prompts, f \in Flags : Modes(p, f) # {"dev"}
    /\ stage' = "diverted"
    /\ UNCHANGED <<turn, changes, filled, notes, pruned, verdict>>

\* _detect_drift, then _extract_changes; a text that drifted holds nothing.
Extract ==
    /\ stage = "extract"
    /\ \/ \E o \in Outputs : changes' = ExtractChanges(o, "crew")
       \/ changes' = {}
    /\ stage' = "rescue"
    /\ UNCHANGED <<turn, filled, notes, pruned, verdict>>

\* apply_rescue_if_empty; a rescue that raises answers nothing.
Rescue ==
    /\ stage = "rescue"
    /\ \E o \in Outputs :
          changes' = IF changes # {} THEN changes ELSE ExtractChanges(o, "rescue")
    /\ stage' = "backfill"
    /\ UNCHANGED <<turn, filled, notes, pruned, verdict>>

\* apply_defaults_backfill replaces the list when all items are done; an
\* exception is swallowed and leaves the list as it was.
Backfill ==
    /\ stage = "backfill"
    /\ \E done \in BOOLEAN :
          /\ filled' = done
          /\ changes' = IF done THEN {Backfilled(c) : c \in changes} ELSE changes
    /\ stage' = "handoff"
    /\ UNCHANGED <<turn, notes, pruned, verdict>>

\* apply_report_handoff_safety_net.
Handoff ==
    /\ stage = "handoff"
    /\ changes' = {HandedOff(c) : c \in changes}
    /\ stage' = "validate"
    /\ UNCHANGED <<turn, filled, notes, pruned, verdict>>

\* apply_module_validation.  A secondary module that raises is left out; if
\* the primary raises there are no notes at all.
Validate ==
    /\ stage = "validate"
    /\ \E asked \in SUBSET (turn.secondaries \cup ({turn.module} \ {NoModule})) :
       \E said \in [asked -> SUBSET Remarks] :
          notes' = IF changes = {} \/ turn.module \notin asked THEN {}
                   ELSE ValidateOutput(turn.module, changes, said[turn.module])
                        \cup UNION {Capped(ValidateOutput(m, changes, said[m]))
                                    : m \in asked \ {turn.module}}
    /\ stage' = "gate"
    /\ UNCHANGED <<turn, changes, filled, pruned, verdict>>

\* emit_empty_changeset_error.
RefuseEmpty ==
    /\ stage = "gate" /\ changes = {}
    /\ stage' = "refused"
    /\ UNCHANGED <<turn, changes, filled, notes, pruned, verdict>>

\* reflect_minimality: what the reviewer flags goes, unless it is nothing,
\* everything or not asked (the flag is off, one item, an LLM that fails).
Prunable(cs) == (SUBSET cs) \ {cs}
Reflect ==
    /\ stage = "gate" /\ changes # {}
    /\ \E flagged \in Prunable(changes) :
          /\ pruned' = flagged
          /\ changes' = changes \ flagged
    /\ stage' = "dry_run"
    /\ UNCHANGED <<turn, filled, notes, verdict>>

\* _dry_run_with_retry without a client.
SkipDryRun ==
    /\ stage = "dry_run"
    /\ verdict' = [status |-> "skipped", of |-> changes]
    /\ stage' = "preview"
    /\ UNCHANGED <<turn, changes, filled, notes, pruned>>

\* The static pre-check and the savepoint run give one verdict; any but ok,
\* a failing infrastructure included, sends the Developer back once.
DryRun ==
    /\ stage = "dry_run"
    /\ \E s \in Statuses :
          /\ verdict' = [status |-> s, of |-> changes]
          /\ stage' = IF s = "ok" THEN "preview" ELSE "retry"
    /\ UNCHANGED <<turn, changes, filled, notes, pruned>>

\* The fix replaces the changeset and is run again, or leaves both alone.
Retry ==
    /\ stage = "retry"
    /\ \E o \in Outputs, s \in Statuses :
          LET fix == ExtractChanges(o, "fix") IN
          IF fix = {} THEN UNCHANGED <<changes, verdict>>
          ELSE changes' = fix /\ verdict' = [status |-> s, of |-> fix]
    /\ stage' = "preview"
    /\ UNCHANGED <<turn, filled, notes, pruned>>

\* The changeset message.
Preview ==
    /\ stage = "preview"
    /\ stage' = "shown"
    /\ UNCHANGED <<turn, changes, filled, notes, pruned, verdict>>

Next == \/ Classify \/ Divert \/ Extract \/ Rescue \/ Backfill \/ Handoff
        \/ Validate \/ RefuseEmpty \/ Reflect \/ SkipDryRun \/ DryRun \/ Retry \/ Preview

Spec == Init /\ [][Next]_vars

(***************************************************************************)
(* Properties.                                                             *)
(***************************************************************************)
TypeOK ==
    /\ turn \in Turns /\ Cardinality(turn.secondaries) <= MaxSecondaries
    /\ stage \in {"classify", "diverted", "extract", "rescue", "backfill", "handoff",
                  "validate", "gate", "refused", "dry_run", "retry", "preview", "shown"}
    /\ changes \subseteq Item /\ pruned \subseteq Item
    /\ filled \in BOOLEAN
    /\ notes \subseteq Note
    /\ verdict.status \in Statuses \cup {"none", "skipped"}
    /\ verdict.of \subseteq Item

\* The item has been through the backfill of its turn's intent.
Enriched(c) ==
    /\ c.from # "fix" /\ filled
    /\ turn.intent # "unknown" /\ Schema[turn.intent].doctype = c.doctype

\* "User-provided values are never overwritten" (backfill_defaults.py): from
\* extraction to preview a value the agent gave stays, and the roles it gave
\* stay among the item's, whatever registry, modules and handoff add.  The
\* one exception is the handoff of an aggregation, on its three fields.
AgentValuesKept ==
    \A c \in changes :
        /\ c.granted \subseteq c.roles
        /\ \A f \in c.gives :
              \/ c.data[f] = "agent"
              \/ /\ c.data[f] = "handoff" /\ c.doctype = "Report"
                 /\ f \in Forced(turn.candidate)

\* What the preview's pills say of an item of the turn's intent, after all
\* nets: every field with a registry default has a value; a pill reads
\* default exactly when someone other than the agent wrote the value, or
\* added roles to it; a naming pattern is the primary module's and replaced
\* no name of the agent's.
PillsTellWriter ==
    \A c \in changes :
        stage \notin {"extract", "rescue", "backfill"} /\ Enriched(c) =>
        LET schema == Schema[turn.intent] IN
        /\ \A f \in schema.defaults : c.data[f] # "unset"
        /\ \A f \in schema.defaults \cup schema.bare :
              c.pill[f] = "user" <=>
                 /\ c.data[f] \in {"agent", "unset"}
                 /\ f = "permissions" => c.roles = c.granted
        /\ c.data["autoname"] \in Modules =>
              c.data["autoname"] = turn.module /\ "autoname" \notin c.gives

\* "the handoff's pre-rendered query is authoritative" (report_handoff.py):
\* in every report the crew or the rescue wrote the preview shows the
\* handoff's type and query if the candidate is an aggregation, its table if
\* it has one too, its name if it suggests one and the agent gave none, and
\* nothing else of it, though the backfill has run before and the review
\* after.
HandoffIsAuthoritative ==
    \A c \in changes, f \in Fields :
        stage \notin {"extract", "rescue", "backfill", "handoff"} /\ c.from # "fix"
        /\ c.doctype = "Report" =>
        (c.data[f] = "handoff" <=>
           \/ f \in {"report_type", "query"} /\ "query" \in turn.candidate
           \/ f = "ref_doctype" /\ {"query", "target"} \subseteq turn.candidate
           \/ f = "report_name" /\ "name" \in turn.candidate /\ f \notin c.gives)

\* The changeset about to be shown is not empty, has one author, and is the
\* one its verdict was given on; unless the fix replaced it, it holds
\* nothing the review has dropped.
ShownIsVetted ==
    stage \in {"preview", "shown"} =>
        /\ changes # {} /\ verdict.of = changes
        /\ \A c, d \in changes : c.from = d.from
        /\ changes \cap pruned = {}

\* A note names its item by a place in the list shown.
FindsItsItem(n) ==
    \E c \in changes : Id(c) = n.about /\ Index(changes, c) = n.index

\* What a client can rely on of the notes: only the primary module blocks a
\* deploy; no specialist repeats its own rule; and until a fix replaces the
\* list, changeset_index finds its item in ctx.changes exactly if the review
\* has dropped neither that item nor one before it (module_specialist.py 58-83,
\* 507-525; reflection.py 156-243).
NotesTraceBack ==
    /\ \A n \in notes : n.severity = "blocker" => n.by = turn.module
    /\ \A n, k \in notes :
          n.by = k.by /\ n.issue = k.issue /\ n.about = NoItem => k.about = NoItem
    /\ (\A c \in changes : c.from # "fix") =>
          \A n \in notes : n.index # NoIndex =>
             (FindsItsItem(n) <=>
                /\ \E c \in changes : Id(c) = n.about
                /\ \A d \in pruned : n.about[2] <= d.pos)

=============================================================================

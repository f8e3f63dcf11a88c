--------------------------- MODULE Classification ---------------------------
(***************************************************************************)
(* How a prompt becomes a turn: the orchestrator's mode, then for the Dev  *)
(* mode the intent, the primary module and the secondaries.  Each of the   *)
(* classifiers tries fixed rules first and asks an LLM only if no rule     *)
(* speaks; what the LLM says is a choice, and whatever fails is one of its *)
(* choices too.  A prompt is known by what the rules see of it.            *)
(***************************************************************************)
EXTENDS Integers, FiniteSets

CONSTANTS Modules,        \* modules of the registry, by name
          Order,          \* the place of each one's file
          MaxSecondaries  \* most secondaries of a turn

NoModule == "no module"

ASSUME ClassificationAssumption ==
    /\ Modules \subseteq STRING /\ IsFiniteSet(Modules) /\ NoModule \notin Modules
    /\ Order \in [Modules -> Nat]
    /\ \A m, n \in Modules : Order[m] = Order[n] => m = n
    /\ MaxSecondaries \in Nat

(***************************************************************************)
(* Intents and turns.                                                      *)
(***************************************************************************)
Fields   == {"module", "is_submittable", "autoname", "permissions",
             "ref_doctype", "report_type", "report_name", "query"}
DocTypes == {"DocType", "Report", "Other"}

Schema ==
    [create_doctype |-> [doctype  |-> "DocType", bare |-> {"module"},
                         defaults |-> {"is_submittable", "autoname", "permissions"}],
     create_report  |-> [doctype  |-> "Report", bare |-> {"module", "ref_doctype"},
                         defaults |-> {"report_type"}]]
Intents == DOMAIN Schema \cup {"unknown"}

\* A Save-as-Report trailer is whatever the client appended: it parses as an
\* object or not, and an object may have a suggested name, an aggregation with
\* its query, and a target DocType, each of them or none.
Parts   == {"name", "query", "target"}
Markers == {{}} \cup {{"object"} \cup ps : ps \in SUBSET Parts}

Turn == [builders    : BOOLEAN,
         intent      : Intents,
         module      : Modules \cup {NoModule},
         secondaries : SUBSET Modules,
         candidate   : Markers]

\* The flags gate the classifiers, so what they leave unset needs no flag.
Turns == {t \in Turn :
            /\ t.candidate # {} => t.intent = "create_report"
            /\ t.intent # "unknown" \/ t.module # NoModule => t.builders
            /\ t.secondaries # {} => t.module # NoModule
            /\ t.module \notin t.secondaries}

NoTurn == [builders |-> FALSE, intent |-> "unknown", module |-> NoModule,
           secondaries |-> {}, candidate |-> {}]

(***************************************************************************)
(* What the rules see: the user's switch, how the prompt begins, whether   *)
(* an analytics phrase is in it, the first intent family with a pattern in *)
(* it, a Save-as-Report trailer, the module of its first DocType name, and *)
(* the modules with a keyword in it.  A greeting is the whole prompt.      *)
(***************************************************************************)
Overrides == {"auto", "dev", "plan", "insights"}
Openings  == {"greeting", "build", "other"}
Families  == DOMAIN Schema \cup {"none"}

Prompt == [override  : Overrides,
           opening   : Openings,
           analytics : BOOLEAN,
           family    : Families,
           marker    : Markers,
           target    : Modules \cup {NoModule},
           keywords  : SUBSET Modules]

Prompts == {p \in Prompt : p.opening = "greeting" =>
              /\ ~p.analytics /\ p.family = "none" /\ p.marker = {}
              /\ p.target = NoModule /\ p.keywords = {}}

Flags == [orchestrated : BOOLEAN, builders : BOOLEAN, handoff : BOOLEAN,
          specialists : BOOLEAN, multi : BOOLEAN]

(***************************************************************************)
(* Mode.                                                                   *)
(***************************************************************************)
\* The model's answer, or "chat" or "dev" when it has none to trust.
LlmModes == {"dev", "plan", "insights", "chat"}

FastPath(p) ==
    CASE p.opening = "greeting" -> "chat"
      [] p.opening = "build"    -> "dev"
      [] p.opening = "other"    -> IF p.analytics THEN "insights" ELSE "none"

\* A Dev switch does not hold for an analytics phrase, wherever in the
\* prompt it stands; nothing sets force_dev_override.
Overridden(p) ==
    IF p.override = "dev" /\ p.analytics THEN "insights" ELSE p.override

Modes(p, f) ==
    CASE ~f.orchestrated -> {"dev"}
      [] f.orchestrated /\ p.override # "auto" -> {Overridden(p)}
      [] OTHER -> IF FastPath(p) = "none" THEN LlmModes ELSE {FastPath(p)}

(***************************************************************************)
(* Intent.                                                                 *)
(***************************************************************************)
Candidate(p, f) == IF f.handoff THEN p.marker ELSE {}

IntentsOf(p, f) ==
    CASE Candidate(p, f) # {} -> {"create_report"}
      [] Candidate(p, f) = {} /\ p.analytics -> {"unknown"}
      [] OTHER -> IF p.family = "none" THEN Intents ELSE {p.family}

(***************************************************************************)
(* Modules.                                                                *)
(***************************************************************************)
\* The first of them in the order of the files, if there are any.
Leading(ms) == {m \in ms : \A n \in ms : Order[m] <= Order[n]}

ModulesOf(p, f) ==
    CASE ~f.specialists -> {NoModule}
      [] f.specialists /\ p.target # NoModule -> {p.target}
      [] OTHER -> IF p.keywords = {} THEN Modules \cup {NoModule} ELSE Leading(p.keywords)

OthersAndPrimary(p, f, module) ==
    IF ~f.specialists \/ ~f.multi THEN {}
    ELSE {m \in p.keywords :
            Cardinality({n \in p.keywords : Order[n] < Order[m]}) < MaxSecondaries}
\* The first other modules with a keyword in the prompt.
Others(p, f, module) ==
    LET rest == p.keywords \ {module}
    IN  IF ~f.specialists \/ ~f.multi THEN {}
        ELSE {m \in rest : Cardinality({n \in rest : Order[n] < Order[m]}) < MaxSecondaries}

TurnsOf(p, f) ==
    IF ~f.builders THEN {NoTurn}
    ELSE {[builders |-> TRUE, intent |-> i, module |-> m,
           secondaries |-> Others(p, f, m), candidate |-> Candidate(p, f)]
          : i \in IntentsOf(p, f), m \in ModulesOf(p, f)}
=============================================================================

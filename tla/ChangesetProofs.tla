-------------------------- MODULE ChangesetProofs --------------------------
(***************************************************************************)
(* Proofs about module Changeset, for any modules, roles and answers.      *)
(* Every net treats the items one by one, so the lemmas follow one item    *)
(* through extraction, backfill and handoff; the invariant says at which   *)
(* stage an item has come how far.  The notes of the specialists come      *)
(* after, with the bound on how many there are of those.                   *)
(***************************************************************************)
EXTENDS Changeset, FiniteSetTheorems, TLAPS

(***************************************************************************)
(* One item.                                                               *)
(***************************************************************************)
\* As _extract_changes leaves it.
Fresh(c) ==
    /\ c.roles = c.granted /\ (c.granted # {} => "permissions" \in c.gives)
    /\ \A f \in Fields : /\ c.data[f] = IF f \in c.gives THEN "agent" ELSE "unset"
                         /\ c.pill[f] = "none"

\* What the agent gave is there, and nothing of the handoff's.
Kept(c) ==
    /\ c.granted \subseteq c.roles
    /\ \A f \in c.gives : c.data[f] = "agent"
    /\ \A f \in Fields : c.data[f] # "handoff"
    /\ "report_name" \in c.gives \/ c.data["report_name"] = "unset"

Told(c, schema) ==
    /\ \A f \in schema.defaults : c.data[f] # "unset"
    /\ \A f \in schema.defaults \cup schema.bare :
          c.pill[f] = "user" <=>
             /\ c.data[f] \in {"agent", "unset"}
             /\ f = "permissions" => c.roles = c.granted
    /\ c.data["autoname"] \in Modules =>
          c.data["autoname"] = turn.module /\ "autoname" \notin c.gives

\* A name that is shown as defaulted is not the agent's.
FreeName(c) == c.pill["autoname"] = "default" => "autoname" \notin c.gives

\* What is not touched by any net.
SameOrigin(b, c) ==
    /\ b.from = c.from /\ b.pos = c.pos /\ b.doctype = c.doctype
    /\ b.gives = c.gives /\ b.granted = c.granted /\ b.annotated = c.annotated

\* An extracted item is typed, fresh, and its author's.
LEMMA ExtractFresh ==
    ASSUME NEW o \in Outputs, NEW from \in {"crew", "rescue", "fix"},
           NEW c \in ExtractChanges(o, from)
    PROVE  c \in Item /\ Fresh(c) /\ c.from = from
<1>1. PICK i \in Taken(o) : c = Normalised(o.entries[i], from, i)
  BY DEF ExtractChanges
<1>2. o \in Output
  BY ChangesetAssumption DEF ChangesetAssumption
<1>3. i \in Nat /\ o.entries[i] \in Entry
  <2>1. o.entries \in Seq(Entry) /\ i \in DOMAIN o.entries
    BY <1>2 DEF Output, Taken
  <2>. QED BY <2>1
<1>. DEFINE e == o.entries[i]
<1>4. /\ c.from = from /\ c.pos = i /\ c.doctype = e.doctype /\ c.gives = e.gives
      /\ c.annotated = e.annotated /\ c.granted = e.roles /\ c.roles = e.roles
      /\ c.data = [f \in Fields |-> IF f \in e.gives THEN "agent" ELSE "unset"]
      /\ c.pill = [f \in Fields |-> "none"]
  BY <1>1 DEF Normalised
<1>5. c \in Item
  <2>1. /\ e.doctype \in DocTypes /\ e.gives \in SUBSET Fields
        /\ e.annotated \in SUBSET Fields /\ e.roles \in SUBSET Roles
    BY <1>3 DEF Entry
  <2>2. c.data \in [Fields -> Sources \cup Modules]
    BY <1>4 DEF Sources
  <2>3. c.pill \in [Fields -> {"none", "user", "default"}]
    BY <1>4
  <2>. QED BY <1>1, <1>3, <1>4, <2>1, <2>2, <2>3 DEF Normalised, Item
<1>6. Fresh(c)
  BY <1>3, <1>4 DEF Fresh, Entry
<1>. QED BY <1>4, <1>5, <1>6

\* The registry fills what is absent and marks all its fields.
LEMMA RegistryFills ==
    ASSUME NEW c \in Item, Fresh(c), NEW k \in DOMAIN Schema
    PROVE  LET b == FromRegistry(c, Schema[k]) IN
           b \in Item /\ SameOrigin(b, c) /\ Kept(b) /\ Told(b, Schema[k]) /\ FreeName(b)
<1>. DEFINE schema == Schema[k]
            b == FromRegistry(c, schema)
            absent == Absent(c, schema)
            own == schema.defaults \cup schema.bare
<1>1. /\ schema.defaults \subseteq Fields /\ schema.bare \subseteq Fields
      /\ schema.defaults \cap schema.bare = {}
  BY DEF Schema, Fields
<1>2. absent = {f \in schema.defaults : f \notin c.gives}
  BY <1>1 DEF Absent, Fresh
<1>3. /\ b.from = c.from /\ b.pos = c.pos /\ b.doctype = c.doctype
      /\ b.gives = c.gives /\ b.granted = c.granted /\ b.annotated = c.annotated
  BY DEF FromRegistry, Item
<1>4. b.data = [f \in Fields |-> IF f \in absent THEN "default" ELSE c.data[f]]
  BY DEF FromRegistry, Item
<1>5. b.roles = IF "permissions" \in absent THEN {BaseRole} ELSE c.roles
  BY DEF FromRegistry, Item
<1>6. b.pill = [f \in Fields |-> IF f \in absent THEN "default"
                                 ELSE IF f \in own THEN "user" ELSE "none"]
  <2>1. b.pill = [f \in Fields |-> IF c.pill[f] = "none"
                       THEN (IF f \in absent THEN "default"
                             ELSE IF f \in own THEN "user" ELSE "none")
                       ELSE c.pill[f]]
    BY DEF FromRegistry, Item
  <2>. QED BY <2>1 DEF Fresh
<1>7. b \in Item
  <2>1. b.data \in [Fields -> Sources \cup Modules]
    BY <1>4 DEF Item, Sources
  <2>2. b.roles \in SUBSET Roles
    BY <1>5, ChangesetAssumption DEF ChangesetAssumption, Item
  <2>3. b.pill \in [Fields -> {"none", "user", "default"}]
    BY <1>6
  <2>. QED BY <1>3, <2>1, <2>2, <2>3 DEF Item, FromRegistry
<1>8. Kept(b)
  <2>1. b.granted \subseteq b.roles
    BY <1>2, <1>3, <1>5 DEF Fresh
  <2>2. \A f \in b.gives : b.data[f] = "agent"
    BY <1>2, <1>3, <1>4 DEF Fresh, Item
  <2>3. \A f \in Fields : b.data[f] # "handoff"
    BY <1>4 DEF Fresh
  <2>4. "report_name" \in b.gives \/ b.data["report_name"] = "unset"
    BY <1>3, <1>4 DEF Fresh, Fields, Absent, Schema
  <2>. QED BY <2>1, <2>2, <2>3, <2>4 DEF Kept
<1>9. \A f \in schema.defaults : b.data[f] # "unset"
  BY <1>1, <1>2, <1>4 DEF Fresh
<1>10. ASSUME NEW f \in own
       PROVE  b.pill[f] = "user" <=>
                 /\ b.data[f] \in {"agent", "unset"}
                 /\ f = "permissions" => b.roles = b.granted
  <2>1. f \in Fields
    BY <1>1
  <2>2. CASE f \in absent
    BY <1>4, <1>6, <2>1, <2>2
  <2>3. CASE f \notin absent
    <3>1. b.pill[f] = "user"
      BY <1>6, <2>1, <2>3
    <3>2. b.data[f] \in {"agent", "unset"}
      BY <1>4, <2>1, <2>3 DEF Fresh
    <3>3. f = "permissions" => b.roles = b.granted
      BY <1>3, <1>5, <2>3 DEF Fresh
    <3>. QED BY <3>1, <3>2, <3>3
  <2>. QED BY <2>2, <2>3
<1>11. b.data["autoname"] \notin Modules
  BY <1>4, ChangesetAssumption DEF ChangesetAssumption, Fresh, Sources, Fields
<1>12. Told(b, schema)
  BY <1>9, <1>10, <1>11 DEF Told
<1>13. FreeName(b)
  BY <1>2, <1>3, <1>6 DEF FreeName, Fields
<1>. QED BY <1>3, <1>7, <1>8, <1>12, <1>13 DEF SameOrigin

\* Modules add roles and say so.
LEMMA RolesAdded ==
    ASSUME NEW c \in Item, NEW ms \in SUBSET Modules, NEW k \in DOMAIN Schema,
           Kept(c), Told(c, Schema[k]), FreeName(c)
    PROVE  LET b == AddRoles(c, ms) IN
           b \in Item /\ SameOrigin(b, c) /\ Kept(b) /\ Told(b, Schema[k]) /\ FreeName(b)
<1>. DEFINE b == AddRoles(c, ms)
            new == (UNION {RolesOf[m] : m \in ms}) \ c.roles
            own == Schema[k].defaults \cup Schema[k].bare
<1>1. CASE new = {}
  BY <1>1 DEF AddRoles, SameOrigin
<1>2. CASE new # {}
  <2>1. b = [c EXCEPT !.roles = @ \cup new,
                      !.data["permissions"] = IF @ = "unset" THEN "added" ELSE @,
                      !.pill["permissions"] = "default"]
    BY <1>2 DEF AddRoles
  <2>2. /\ b.from = c.from /\ b.pos = c.pos /\ b.doctype = c.doctype
        /\ b.gives = c.gives /\ b.granted = c.granted /\ b.annotated = c.annotated
        /\ b.roles = c.roles \cup new
        /\ b.data = [c.data EXCEPT !["permissions"] = IF @ = "unset" THEN "added" ELSE @]
        /\ b.pill = [c.pill EXCEPT !["permissions"] = "default"]
    BY <2>1 DEF Item
  <2>3. /\ c.data \in [Fields -> Sources \cup Modules]
        /\ c.pill \in [Fields -> {"none", "user", "default"}]
        /\ c.gives \in SUBSET Fields /\ c.roles \in SUBSET Roles
    BY DEF Item
  <2>4. new \in SUBSET Roles
    BY ChangesetAssumption DEF ChangesetAssumption
  <2>5. \A f \in Fields : f # "permissions" => b.data[f] = c.data[f] /\ b.pill[f] = c.pill[f]
    BY <2>2, <2>3
  <2>6. /\ b.data["permissions"] = IF c.data["permissions"] = "unset" THEN "added"
                                   ELSE c.data["permissions"]
        /\ b.pill["permissions"] = "default"
    BY <2>2, <2>3 DEF Fields
  <2>7. b \in Item
    <3>1. b.data \in [Fields -> Sources \cup Modules]
      BY <2>2, <2>3, ZenonT(30) DEF Sources
    <3>2. b.pill \in [Fields -> {"none", "user", "default"}]
      BY <2>2, <2>3
    <3>3. b.roles \in SUBSET Roles
      BY <2>2, <2>3, <2>4
    <3>. QED BY <2>1, <2>2, <3>1, <3>2, <3>3 DEF Item
  <2>8. Kept(b)
    BY <2>2, <2>3, <2>5, <2>6 DEF Kept, Fields
  <2>9. FreeName(b)
    BY <2>2, <2>5 DEF FreeName, Fields
  <2>10. \A f \in Schema[k].defaults : b.data[f] # "unset"
    BY <2>5, <2>6 DEF Told, Schema, Fields
  <2>11. ASSUME NEW f \in own
         PROVE  b.pill[f] = "user" <=>
                   /\ b.data[f] \in {"agent", "unset"}
                   /\ f = "permissions" => b.roles = b.granted
    <3>1. CASE f = "permissions"
      <4>1. b.roles # b.granted
        <5>1. PICK r \in new : TRUE
          BY <1>2
        <5>2. r \in b.roles /\ r \notin c.roles
          BY <2>2, <5>1
        <5>3. r \notin b.granted
          BY <2>2, <5>2 DEF Kept
        <5>. QED BY <5>2, <5>3
      <4>2. b.pill[f] # "user"
        BY <2>6, <3>1
      <4>. QED BY <3>1, <4>1, <4>2
    <3>2. CASE f # "permissions"
      <4>1. f \in Fields
        BY DEF Schema, Fields
      <4>. QED BY <2>5, <3>2, <4>1 DEF Told
    <3>. QED BY <3>1, <3>2
  <2>12. Told(b, Schema[k])
    BY <2>2, <2>5, <2>10, <2>11 DEF Told, Fields
  <2>. QED BY <2>2, <2>7, <2>8, <2>9, <2>12 DEF SameOrigin
<1>. QED BY <1>1, <1>2

\* The primary module names what the registry has named.
LEMMA NamingSwapped ==
    ASSUME NEW c \in Item, turn.module \in Modules, NEW k \in DOMAIN Schema,
           Kept(c), Told(c, Schema[k]), FreeName(c)
    PROVE  LET b == SwapNaming(c, turn.module) IN
           b \in Item /\ SameOrigin(b, c) /\ Kept(b) /\ Told(b, Schema[k]) /\ FreeName(b)
<1>. DEFINE b == SwapNaming(c, turn.module)
            own == Schema[k].defaults \cup Schema[k].bare
<1>1. CASE b = c
  BY <1>1 DEF SameOrigin
<1>2. CASE b # c
  <2>1. /\ c.pill["autoname"] = "default"
        /\ b = [c EXCEPT !.data["autoname"] = turn.module]
    BY <1>2 DEF SwapNaming
  <2>2. /\ b.from = c.from /\ b.pos = c.pos /\ b.doctype = c.doctype
        /\ b.gives = c.gives /\ b.granted = c.granted /\ b.annotated = c.annotated
        /\ b.roles = c.roles /\ b.pill = c.pill
        /\ b.data = [c.data EXCEPT !["autoname"] = turn.module]
    BY <2>1 DEF Item
  <2>3. c.data \in [Fields -> Sources \cup Modules] /\ c.gives \in SUBSET Fields
    BY DEF Item
  <2>4. /\ \A f \in Fields : f # "autoname" => b.data[f] = c.data[f]
        /\ b.data["autoname"] = turn.module
    BY <2>2, <2>3 DEF Fields
  <2>5. turn.module \notin {"agent", "unset", "handoff"}
    BY ChangesetAssumption DEF ChangesetAssumption, Sources
  <2>6. b \in Item
    <3>1. b.data \in [Fields -> Sources \cup Modules]
      BY <2>2, <2>3
    <3>. QED BY <2>1, <2>2, <3>1 DEF Item
  <2>7. "autoname" \notin b.gives /\ FreeName(b)
    BY <2>1, <2>2 DEF FreeName
  <2>8. Kept(b)
    BY <2>2, <2>3, <2>4, <2>5, <2>7 DEF Kept, Fields
  <2>9. \A f \in Schema[k].defaults : b.data[f] # "unset"
    BY <2>4, <2>5 DEF Told, Schema, Fields
  <2>10. ASSUME NEW f \in own
         PROVE  b.pill[f] = "user" <=>
                   /\ b.data[f] \in {"agent", "unset"}
                   /\ f = "permissions" => b.roles = b.granted
    <3>1. CASE f = "autoname"
      BY <2>1, <2>2, <2>4, <2>5, <3>1
    <3>2. CASE f # "autoname"
      <4>1. f \in Fields
        BY DEF Schema, Fields
      <4>. QED BY <2>2, <2>4, <3>2, <4>1 DEF Told
    <3>. QED BY <3>1, <3>2
  <2>11. Told(b, Schema[k])
    BY <2>4, <2>7, <2>9, <2>10 DEF Told
  <2>. QED BY <2>2, <2>6, <2>7, <2>8, <2>11 DEF SameOrigin
<1>. QED BY <1>1, <1>2
\* apply_defaults_backfill on one item.
LEMMA ItemBackfilled ==
    ASSUME NEW c \in Item, Fresh(c), turn \in Turns
    PROVE  LET b == Backfilled(c) IN
           /\ b \in Item /\ SameOrigin(b, c) /\ Kept(b)
           /\ turn.intent # "unknown" /\ Schema[turn.intent].doctype = c.doctype
                 => Told(b, Schema[turn.intent])
<1>. DEFINE b == Backfilled(c)
            schema == Schema[turn.intent]
            base == FromRegistry(c, schema)
<1>1. turn \in Turn /\ (turn.intent # "unknown" => turn.builders)
  BY DEF Turns
<1>2. c.gives \in SUBSET Fields
  BY DEF Item
<1>3. CASE turn.intent = "unknown" \/ ~turn.builders
  <2>1. b = c
    BY <1>3 DEF Backfilled
  <2>. QED BY <1>1, <1>2, <1>3, <2>1 DEF SameOrigin, Kept, Fresh, Fields
<1>4. CASE turn.intent # "unknown" /\ turn.builders
  <2>1. turn.intent \in DOMAIN Schema
    BY <1>1, <1>4 DEF Turn, Intents
  <2>2. base \in Item /\ SameOrigin(base, c) /\ Kept(base) /\ Told(base, schema) /\ FreeName(base)
    BY <2>1, RegistryFills
  <2>3. CASE schema.doctype # c.doctype
    <3>1. b = c
      BY <1>4, <2>3 DEF Backfilled
    <3>. QED BY <1>2, <2>3, <3>1 DEF SameOrigin, Kept, Fresh, Fields
  <2>4. CASE schema.doctype = c.doctype /\ turn.module = NoModule
    <3>1. b = base
      BY <1>4, <2>4 DEF Backfilled
    <3>. QED BY <2>2, <3>1
  <2>5. CASE schema.doctype = c.doctype /\ turn.module # NoModule
    <3>1. turn.module \in Modules /\ turn.secondaries \in SUBSET Modules
      BY <1>1, <2>5 DEF Turn
    <3>. DEFINE one == AddRoles(base, {turn.module})
                two == SwapNaming(one, turn.module)
    <3>2. b = AddRoles(two, turn.secondaries)
      BY <1>4, <2>5 DEF Backfilled
    <3>3. /\ one \in Item /\ SameOrigin(one, base) /\ Kept(one)
          /\ Told(one, schema) /\ FreeName(one)
      BY <2>1, <2>2, <3>1, RolesAdded
    <3>4. /\ two \in Item /\ SameOrigin(two, one) /\ Kept(two)
          /\ Told(two, schema) /\ FreeName(two)
      BY <2>1, <3>1, <3>3, NamingSwapped
    <3>5. b \in Item /\ SameOrigin(b, two) /\ Kept(b) /\ Told(b, schema)
      BY <2>1, <3>1, <3>2, <3>4, RolesAdded
    <3>6. SameOrigin(b, c)
      BY <2>2, <3>3, <3>4, <3>5 DEF SameOrigin
    <3>. QED BY <3>5, <3>6
  <2>. QED BY <2>3, <2>4, <2>5
<1>. QED BY <1>3, <1>4

\* The handoff's exception, stated of one item.
KeptButForced(c) ==
    /\ c.granted \subseteq c.roles
    /\ \A f \in c.gives :
          \/ c.data[f] = "agent"
          \/ /\ c.data[f] = "handoff" /\ c.doctype = "Report"
             /\ f \in Forced(turn.candidate)
Authoritative(c) ==
    c.doctype = "Report" =>
    \A f \in Fields :
        c.data[f] = "handoff" <=>
           \/ f \in {"report_type", "query"} /\ "query" \in turn.candidate
           \/ f = "ref_doctype" /\ {"query", "target"} \subseteq turn.candidate
           \/ f = "report_name" /\ "name" \in turn.candidate /\ f \notin c.gives

\* apply_report_handoff_safety_net on one item.
LEMMA ItemHandedOff ==
    ASSUME NEW c \in Item, Kept(c)
    PROVE  LET b == HandedOff(c) IN
           /\ b \in Item /\ SameOrigin(b, c) /\ KeptButForced(b) /\ Authoritative(b)
           /\ \A k \in DOMAIN Schema : Told(c, Schema[k]) => Told(b, Schema[k])
<1>. DEFINE b == HandedOff(c)
            fs == Named(turn.candidate, c) \cup Forced(turn.candidate)
<1>1. CASE c.doctype # "Report"
  <2>1. b = c
    BY <1>1 DEF HandedOff
  <2>. QED BY <1>1, <2>1 DEF SameOrigin, Kept, KeptButForced, Authoritative
<1>2. CASE c.doctype = "Report"
  <2>1. b = Write(c, fs)
    BY <1>2 DEF HandedOff
  <2>2. /\ b.from = c.from /\ b.pos = c.pos /\ b.doctype = c.doctype
        /\ b.gives = c.gives /\ b.granted = c.granted /\ b.annotated = c.annotated
        /\ b.roles = c.roles
        /\ b.data = [f \in Fields |-> IF f \in fs THEN "handoff" ELSE c.data[f]]
        /\ b.pill = [f \in Fields |-> IF f \in fs THEN "default" ELSE c.pill[f]]
    BY <2>1 DEF Write, Item
  <2>3. /\ c.data \in [Fields -> Sources \cup Modules]
        /\ c.pill \in [Fields -> {"none", "user", "default"}]
        /\ c.gives \in SUBSET Fields
    BY DEF Item
  <2>4. fs \subseteq {"report_name", "report_type", "ref_doctype", "query"}
    BY DEF Named, Forced
  <2>5. b \in Item
    <3>1. b.data \in [Fields -> Sources \cup Modules]
      BY <2>2, <2>3 DEF Sources
    <3>2. b.pill \in [Fields -> {"none", "user", "default"}]
      BY <2>2, <2>3
    <3>. QED BY <2>1, <2>2, <3>1, <3>2 DEF Item, Write
  <2>6. KeptButForced(b)
    <3>1. ASSUME NEW f \in b.gives
          PROVE  \/ b.data[f] = "agent"
                 \/ /\ b.data[f] = "handoff" /\ b.doctype = "Report"
                    /\ f \in Forced(turn.candidate)
      <4>1. f \in Fields /\ c.data[f] = "agent"
        BY <2>2, <2>3 DEF Kept
      <4>2. f \notin Named(turn.candidate, c)
        BY <4>1 DEF Named
      <4>. QED BY <1>2, <2>2, <4>1, <4>2
    <3>2. b.granted \subseteq b.roles
      BY <2>2 DEF Kept
    <3>. QED BY <3>1, <3>2 DEF KeptButForced
  <2>7. Authoritative(b)
    <3>1. \A f \in Fields : b.data[f] = "handoff" <=> f \in fs
      BY <2>2 DEF Kept
    <3>2. c.data["report_name"] = "unset" <=> "report_name" \notin c.gives
      BY DEF Kept
    <3>3. \A f \in Fields : f \in fs <=>
             \/ f \in {"report_type", "query"} /\ "query" \in turn.candidate
             \/ f = "ref_doctype" /\ {"query", "target"} \subseteq turn.candidate
             \/ f = "report_name" /\ "name" \in turn.candidate /\ f \notin c.gives
      BY <3>2 DEF Named, Forced
    <3>. QED BY <2>2, <3>1, <3>3 DEF Authoritative
  <2>8. ASSUME NEW k \in DOMAIN Schema, Told(c, Schema[k])
        PROVE  Told(b, Schema[k])
    <3>1. \A f \in Schema[k].defaults : b.data[f] # "unset"
      BY <2>2, <2>8 DEF Told, Schema, Fields
    <3>2. ASSUME NEW f \in Schema[k].defaults \cup Schema[k].bare
          PROVE  b.pill[f] = "user" <=>
                    /\ b.data[f] \in {"agent", "unset"}
                    /\ f = "permissions" => b.roles = b.granted
      <4>1. f \in Fields
        BY DEF Schema, Fields
      <4>2. CASE f \in fs
        BY <2>2, <4>1, <4>2
      <4>3. CASE f \notin fs
        BY <2>2, <2>8, <4>1, <4>3 DEF Told
      <4>. QED BY <4>2, <4>3
    <3>3. b.data["autoname"] = c.data["autoname"]
      BY <2>2, <2>4 DEF Fields
    <3>. QED BY <2>2, <2>8, <3>1, <3>2, <3>3 DEF Told
  <2>. QED BY <2>2, <2>5, <2>6, <2>7, <2>8 DEF SameOrigin
<1>. QED BY <1>1, <1>2

(***************************************************************************)
(* The invariant.                                                          *)
(***************************************************************************)
AtExtraction == {"classify", "extract", "rescue", "backfill"}
AfterReview  == {"dry_run", "retry", "preview", "shown"}

Typed == /\ turn \in Turns /\ changes \subseteq Item
         /\ stage = "classify" => changes = {}

Extracted     == stage \in AtExtraction => \A c \in changes : Fresh(c)
BeforeHandoff == stage = "handoff" => \A c \in changes : Kept(c)

\* A changeset has one author, and only the retry brings in the third.
Authors ==
    /\ \A c, d \in changes : c.from = d.from
    /\ \A c \in pruned : c.from # "fix"
    /\ stage \notin {"preview", "shown"} => \A c \in changes : c.from # "fix"

Dropped == changes \cap pruned = {} /\ (stage \notin AfterReview => pruned = {})

Judged == /\ stage \in AfterReview => changes # {}
          /\ stage \in {"retry", "preview", "shown"} => verdict.of = changes

IInv == /\ Typed /\ Extracted /\ BeforeHandoff /\ Authors /\ Dropped /\ Judged
        /\ AgentValuesKept /\ PillsTellWriter /\ HandoffIsAuthoritative

\* Whatever the switches, the flags and the LLM, a turn is one of Turns: a
\* candidate comes with its intent, secondaries with another primary.
LEMMA TurnsAreTurns ==
    ASSUME NEW p \in Prompts, NEW f \in Flags, NEW t \in TurnsOf(p, f)
    PROVE  t \in Turns
<1>1. CASE ~f.builders
  <2>1. t = NoTurn
    BY <1>1 DEF TurnsOf
  <2>2. NoTurn \in Turn
    BY DEF NoTurn, Turn, Intents, Markers
  <2>. QED BY <2>1, <2>2 DEF NoTurn, Turns
<1>2. CASE f.builders
  <2>1. PICK i \in IntentsOf(p, f), m \in ModulesOf(p, f) :
          t = [builders |-> TRUE, intent |-> i, module |-> m,
               secondaries |-> Others(p, f, m), candidate |-> Candidate(p, f)]
    BY <1>2 DEF TurnsOf
  <2>2. /\ p.family \in Families /\ p.target \in Modules \cup {NoModule}
        /\ p.marker \in Markers /\ p.keywords \in SUBSET Modules
    BY DEF Prompts, Prompt
  <2>3. Candidate(p, f) \in Markers
    BY <2>2 DEF Candidate, Markers
  <2>4. i \in Intents /\ (Candidate(p, f) # {} => i = "create_report")
    BY <2>2 DEF IntentsOf, Intents, Families, Schema
  <2>5. m \in Modules \cup {NoModule}
    BY <2>2 DEF ModulesOf, Leading
  <2>6. Others(p, f, m) \in SUBSET Modules /\ m \notin Others(p, f, m)
    BY <2>2 DEF Others
  <2>7. Others(p, f, m) # {} => m # NoModule
    BY <2>2, ClassificationAssumption DEF ClassificationAssumption, Others, ModulesOf, Leading
  <2>. QED BY <2>1, <2>3, <2>4, <2>5, <2>6, <2>7 DEF Turns, Turn
<1>. QED BY <1>1, <1>2

\* A set of natural numbers has a smallest one.
LEMMA SmallestOf ==
    ASSUME NEW S \in SUBSET Nat, S # {}
    PROVE  \E n \in S : \A k \in S : n <= k
<1>. DEFINE R == OpToRel(<, Nat)
<1>1. PICK n \in S : \A k \in S : ~(<<k, n>> \in R)
  BY NatLessThanWellFounded, WFMin
<1>2. \A k \in S : k < n => <<k, n>> \in R
  BY DEF OpToRel
<1>. HIDE DEF R
<1>3. \A k \in S : ~(k < n)
  BY <1>1, <1>2, Zenon
<1>4. \A k \in S : n <= k
  BY <1>3
<1>. QED BY <1>4

\* The leading module of some is there and is one, as no two share a file.
LEMMA OneLeads ==
    ASSUME NEW ms \in SUBSET Modules, ms # {}
    PROVE  \E m \in ms : Leading(ms) = {m}
<1>. DEFINE places == {Order[m] : m \in ms}
<1>0. \A m \in Modules : Order[m] \in Nat
  BY ClassificationAssumption DEF ClassificationAssumption
<1>1. places \in SUBSET Nat /\ places # {}
  BY <1>0
<1>2. PICK n \in places : \A k \in places : n <= k
  BY <1>1, SmallestOf
<1>3. PICK m \in ms : Order[m] = n
  BY <1>2
<1>4. \A k \in ms : Order[m] <= Order[k]
  BY <1>2, <1>3
<1>5. ASSUME NEW k \in ms, \A l \in ms : Order[k] <= Order[l]
      PROVE  k = m
  <2>1. Order[k] = Order[m]
    BY <1>0, <1>4, <1>5
  <2>. QED BY <2>1, ClassificationAssumption DEF ClassificationAssumption
<1>. QED BY <1>4, <1>5 DEF Leading

\* A rule speaks for the intent, and one for the module if there are to be any.
Ruled(p, f) ==
    /\ Candidate(p, f) # {} \/ p.analytics \/ p.family # "none"
    /\ ~f.specialists \/ p.target # NoModule \/ p.keywords # {}

\* Every prompt leads to a turn, and to one only if rules speak for its intent and its
\* module: the LLM decides nothing else (classify_intent, detect_module).
THEOREM PromptsLeadToTurns ==
    ASSUME NEW p \in Prompts, NEW f \in Flags
    PROVE  /\ TurnsOf(p, f) # {}
           /\ ~f.builders \/ Ruled(p, f) => \E t : TurnsOf(p, f) = {t}
<1>0. p.keywords \in SUBSET Modules /\ p.family \in Families
  BY DEF Prompts, Prompt
<1>1. CASE ~f.builders
  BY <1>1 DEF TurnsOf
<1>2. CASE f.builders
  <2>1. /\ \E i : i \in IntentsOf(p, f)
        /\ Candidate(p, f) # {} \/ p.analytics \/ p.family # "none"
              => \E i : IntentsOf(p, f) = {i}
    BY DEF IntentsOf, Intents
  <2>2. /\ \E m : m \in ModulesOf(p, f)
        /\ ~f.specialists \/ p.target # NoModule \/ p.keywords # {}
              => \E m : ModulesOf(p, f) = {m}
    <3>1. CASE ~f.specialists
      BY <3>1 DEF ModulesOf
    <3>2. CASE f.specialists /\ p.target # NoModule
      BY <3>2 DEF ModulesOf
    <3>3. CASE f.specialists /\ p.target = NoModule /\ p.keywords = {}
      BY <3>3 DEF ModulesOf
    <3>4. CASE f.specialists /\ p.target = NoModule /\ p.keywords # {}
      <4>1. PICK m \in p.keywords : Leading(p.keywords) = {m}
        BY <1>0, <3>4, OneLeads
      <4>. QED BY <3>4, <4>1 DEF ModulesOf
    <3>. QED BY <3>1, <3>2, <3>3, <3>4
  <2>. DEFINE T(i, m) == [builders |-> TRUE, intent |-> i, module |-> m,
                          secondaries |-> Others(p, f, m), candidate |-> Candidate(p, f)]
  <2>3. TurnsOf(p, f) = {T(i, m) : i \in IntentsOf(p, f), m \in ModulesOf(p, f)}
    BY <1>2 DEF TurnsOf
  <2>. HIDE DEF T
  <2>4. TurnsOf(p, f) # {}
    BY <2>1, <2>2, <2>3
  <2>5. ASSUME Ruled(p, f) PROVE \E t : TurnsOf(p, f) = {t}
    <3>1. PICK i : IntentsOf(p, f) = {i}
      BY <2>1, <2>5 DEF Ruled
    <3>2. PICK m : ModulesOf(p, f) = {m}
      BY <2>2, <2>5 DEF Ruled
    <3>3. TurnsOf(p, f) = {T(i, m)}
      BY <2>3, <3>1, <3>2
    <3>. QED BY <3>3
  <2>. QED BY <1>2, <2>4, <2>5
<1>. QED BY <1>1, <1>2

\* No turn, no changeset at the start.
LEMMA InitIInv == Init => IInv
<1>1. NoTurn \in Turns
  BY DEF NoTurn, Turns, Turn, Intents, Markers
<1>. QED BY <1>1 DEF Init, IInv, Typed, Extracted, BeforeHandoff, Authors, Dropped, Judged,
       AgentValuesKept, PillsTellWriter, HandoffIsAuthoritative, AfterReview, Item

\* Freshly extracted items have every property of the later stages that
\* speaks of them.
LEMMA FreshIsKept ==
    ASSUME NEW c \in Item, Fresh(c)
    PROVE  Kept(c) /\ KeptButForced(c)
BY DEF Item, Fresh, Kept, KeptButForced, Fields

\* Every stage keeps the invariant.
LEMMA StepIInv == IInv /\ [Next]_vars => IInv'
<1>. SUFFICES ASSUME IInv, [Next]_vars
              PROVE  IInv'
  OBVIOUS
<1>. USE DEF AtExtraction, AfterReview
<1>0. /\ turn \in Turns /\ changes \subseteq Item
      /\ stage = "classify" => changes = {}
      /\ stage \in AtExtraction => \A c \in changes : Fresh(c)
      /\ \A c \in changes : KeptButForced(c)
  BY DEF IInv, Typed, Extracted, AgentValuesKept, KeptButForced
<1>1. CASE Extract
  <2>1. /\ turn' = turn /\ pruned' = pruned /\ stage = "extract" /\ stage' = "rescue"
        /\ \A c \in changes' : c \in Item /\ Fresh(c) /\ c.from = "crew"
    BY <1>1, ExtractFresh DEF Extract
  <2>2. \A c \in changes' : KeptButForced(c)'
    BY <2>1, FreshIsKept DEF KeptButForced
  <2>3. (AgentValuesKept /\ PillsTellWriter /\ HandoffIsAuthoritative)'
    BY <2>1, <2>2 DEF AgentValuesKept, KeptButForced, PillsTellWriter, HandoffIsAuthoritative
  <2>4. (Typed /\ Extracted /\ BeforeHandoff /\ Judged)'
    BY <1>0, <2>1 DEF Typed, Extracted, BeforeHandoff, Judged, Fresh
  <2>5. (Authors /\ Dropped)'
    BY <2>1 DEF IInv, Authors, Dropped
  <2>. QED BY <2>3, <2>4, <2>5 DEF IInv
<1>2. CASE Rescue
  <2>1. /\ turn' = turn /\ pruned' = pruned /\ stage = "rescue" /\ stage' = "backfill"
        /\ \/ changes' = changes
           \/ \A c \in changes' : c \in Item /\ Fresh(c) /\ c.from = "rescue"
    BY <1>2, ExtractFresh DEF Rescue
  <2>2. \A c \in changes' : c \in Item /\ Fresh(c)
    BY <1>0, <2>1
  <2>3. \A c \in changes' : KeptButForced(c)'
    BY <2>1, <2>2, FreshIsKept DEF KeptButForced
  <2>4. (AgentValuesKept /\ PillsTellWriter /\ HandoffIsAuthoritative)'
    BY <2>1, <2>3 DEF AgentValuesKept, KeptButForced, PillsTellWriter, HandoffIsAuthoritative
  <2>5. (Typed /\ Extracted /\ BeforeHandoff /\ Judged)'
    BY <1>0, <2>1, <2>2 DEF Typed, Extracted, BeforeHandoff, Judged, Fresh
  <2>6. (Authors /\ Dropped)'
    BY <2>1 DEF IInv, Authors, Dropped
  <2>. QED BY <2>4, <2>5, <2>6 DEF IInv
<1>3. CASE Backfill
  <2>1. /\ turn' = turn /\ pruned' = pruned /\ stage = "backfill" /\ stage' = "handoff"
        /\ filled' \in BOOLEAN
        /\ changes' = IF filled' THEN {Backfilled(c) : c \in changes} ELSE changes
    BY <1>3 DEF Backfill
  <2>2. \A b \in changes' : \E c \in changes :
          /\ b \in Item /\ SameOrigin(b, c) /\ Kept(b)
          /\ filled' /\ turn.intent # "unknown" /\ Schema[turn.intent].doctype = b.doctype
                => Told(b, Schema[turn.intent])
    <3>1. CASE filled'
      <4>. SUFFICES ASSUME NEW c \in changes
                    PROVE  LET b == Backfilled(c) IN
                           /\ b \in Item /\ SameOrigin(b, c) /\ Kept(b)
                           /\ turn.intent # "unknown" /\ Schema[turn.intent].doctype = b.doctype
                                 => Told(b, Schema[turn.intent])
        BY <2>1, <3>1
      <4>1. c \in Item /\ Fresh(c)
        BY <1>0, <2>1
      <4>. QED BY <1>0, <4>1, ItemBackfilled DEF SameOrigin
    <3>2. CASE ~filled'
      BY <1>0, <2>1, <3>2, FreshIsKept DEF SameOrigin
    <3>. QED BY <3>1, <3>2
  <2>3. AgentValuesKept'
    BY <2>2 DEF AgentValuesKept, Kept
  <2>4. PillsTellWriter'
    BY <2>1, <2>2 DEF PillsTellWriter, Enriched, Told
  <2>5. (HandoffIsAuthoritative /\ Typed /\ Extracted /\ Judged)'
    BY <1>0, <2>1, <2>2 DEF HandoffIsAuthoritative, Typed, Extracted, Judged
  <2>6. BeforeHandoff'
    BY <2>2 DEF BeforeHandoff, Kept
  <2>7. (Authors /\ Dropped)'
    <3>1. \A b \in changes' : \E c \in changes : b.from = c.from
      BY <2>2 DEF SameOrigin
    <3>. QED BY <2>1, <3>1 DEF IInv, Authors, Dropped
  <2>. QED BY <2>3, <2>4, <2>5, <2>6, <2>7 DEF IInv
<1>4. CASE Handoff
  <2>1. /\ turn' = turn /\ pruned' = pruned /\ stage = "handoff" /\ stage' = "validate"
        /\ filled' = filled /\ changes' = {HandedOff(c) : c \in changes}
    BY <1>4 DEF Handoff
  <2>2. \A c \in changes : c \in Item /\ Kept(c)
    BY <1>0, <2>1 DEF IInv, BeforeHandoff
  <2>3. \A b \in changes' : \E c \in changes :
          /\ b \in Item /\ SameOrigin(b, c) /\ KeptButForced(b) /\ Authoritative(b)
          /\ \A k \in DOMAIN Schema : Told(c, Schema[k]) => Told(b, Schema[k])
    <3>. SUFFICES ASSUME NEW c \in changes
                  PROVE  LET b == HandedOff(c) IN
                         /\ b \in Item /\ SameOrigin(b, c) /\ KeptButForced(b) /\ Authoritative(b)
                         /\ \A k \in DOMAIN Schema : Told(c, Schema[k]) => Told(b, Schema[k])
      BY <2>1
    <3>. QED BY <2>2, ItemHandedOff
  <2>4. AgentValuesKept'
    BY <2>1, <2>3 DEF AgentValuesKept, KeptButForced
  <2>5. PillsTellWriter'
    <3>. SUFFICES ASSUME NEW b \in changes', Enriched(b)'
                  PROVE  Told(b, Schema[turn.intent])'
      BY DEF PillsTellWriter, Told
    <3>1. PICK c \in changes :
            /\ SameOrigin(b, c)
            /\ \A k \in DOMAIN Schema : Told(c, Schema[k]) => Told(b, Schema[k])
      BY <2>3
    <3>2. Enriched(c) /\ turn.intent \in DOMAIN Schema
      BY <1>0, <2>1, <3>1 DEF Enriched, SameOrigin, Turns, Turn, Intents
    <3>3. Told(c, Schema[turn.intent])
      BY <2>1, <3>2 DEF IInv, PillsTellWriter, Told
    <3>4. Told(b, Schema[turn.intent])
      BY <3>1, <3>2, <3>3
    <3>. QED BY <2>1, <3>4 DEF Told
  <2>6. HandoffIsAuthoritative'
    BY <2>1, <2>3 DEF HandoffIsAuthoritative, Authoritative
  <2>7. (Typed /\ Extracted /\ BeforeHandoff /\ Judged)'
    BY <1>0, <2>1, <2>3 DEF Typed, Extracted, BeforeHandoff, Judged
  <2>8. (Authors /\ Dropped)'
    <3>1. \A b \in changes' : \E c \in changes : b.from = c.from
      BY <2>3 DEF SameOrigin
    <3>. QED BY <2>1, <3>1 DEF IInv, Authors, Dropped
  <2>. QED BY <2>4, <2>5, <2>6, <2>7, <2>8 DEF IInv
<1>5. ASSUME UNCHANGED <<turn, changes, filled, pruned>>,
             \/ stage = "validate" /\ stage' = "gate"
             \/ stage = "gate" /\ stage' = "refused"
             \/ stage = "dry_run" /\ stage' \in {"retry", "preview"} /\ verdict'.of = changes
             \/ stage = "preview" /\ stage' = "shown" /\ verdict'.of = changes
             \/ stage = "retry" /\ stage' = "preview" /\ UNCHANGED verdict
      PROVE  IInv'
  <2>1. stage \notin AtExtraction \cup {"handoff"} /\ stage' \notin AtExtraction \cup {"handoff"}
    BY <1>5
  <2>2. (Typed /\ Extracted /\ BeforeHandoff)'
    BY <1>0, <1>5, <2>1 DEF Typed, Extracted, BeforeHandoff
  <2>3. Authors'
    BY <1>5 DEF IInv, Authors
  <2>4. (Dropped /\ Judged)'
    BY <1>5 DEF IInv, Dropped, Judged
  <2>5. AgentValuesKept'
    BY <1>5 DEF IInv, AgentValuesKept
  <2>6. PillsTellWriter'
    BY <1>5, <2>1 DEF IInv, PillsTellWriter, Enriched
  <2>7. HandoffIsAuthoritative'
    BY <1>5, <2>1 DEF IInv, HandoffIsAuthoritative
  <2>. QED BY <2>2, <2>3, <2>4, <2>5, <2>6, <2>7 DEF IInv
<1>6. CASE Validate
  BY <1>5, <1>6 DEF Validate
<1>7. CASE RefuseEmpty
  BY <1>5, <1>7 DEF RefuseEmpty
<1>8. CASE SkipDryRun
  BY <1>5, <1>8 DEF SkipDryRun
<1>9. CASE DryRun
  <2>1. PICK s \in Statuses : /\ verdict' = [status |-> s, of |-> changes]
                              /\ stage' = IF s = "ok" THEN "preview" ELSE "retry"
    BY <1>9 DEF DryRun
  <2>2. verdict'.of = changes /\ stage' \in {"retry", "preview"}
    BY <2>1
  <2>. QED BY <1>5, <1>9, <2>2 DEF DryRun
<1>10. CASE Preview
  BY <1>5, <1>10 DEF Preview, IInv, Judged
<1>11. CASE Reflect
  <2>1. /\ turn' = turn /\ filled' = filled /\ stage = "gate" /\ stage' = "dry_run"
        /\ changes # {} /\ pruned' \in Prunable(changes) /\ changes' = changes \ pruned'
    BY <1>11 DEF Reflect
  <2>2. changes' \subseteq changes /\ pruned' \subseteq changes /\ changes' # {}
    BY <2>1 DEF Prunable
  <2>3. (Typed /\ Extracted /\ BeforeHandoff /\ Dropped /\ Judged)'
    BY <1>0, <2>1, <2>2 DEF Typed, Extracted, BeforeHandoff, Dropped, Judged
  <2>4. Authors'
    BY <2>1, <2>2 DEF IInv, Authors
  <2>5. AgentValuesKept'
    BY <2>1, <2>2 DEF IInv, AgentValuesKept
  <2>6. PillsTellWriter'
    BY <2>1, <2>2 DEF IInv, PillsTellWriter, Enriched
  <2>7. HandoffIsAuthoritative'
    BY <2>1, <2>2 DEF IInv, HandoffIsAuthoritative
  <2>. QED BY <2>3, <2>4, <2>5, <2>6, <2>7 DEF IInv
<1>12. CASE Retry
  <2>1. /\ UNCHANGED <<turn, filled, pruned>> /\ stage = "retry" /\ stage' = "preview"
        /\ \E o \in Outputs, s \in Statuses :
              IF ExtractChanges(o, "fix") = {} THEN UNCHANGED <<changes, verdict>>
              ELSE /\ changes' = ExtractChanges(o, "fix")
                   /\ verdict' = [status |-> s, of |-> ExtractChanges(o, "fix")]
    BY <1>12 DEF Retry
  <2>2. CASE UNCHANGED <<changes, verdict>>
    BY <1>5, <2>1, <2>2
  <2>3. CASE \E o \in Outputs, s \in Statuses :
               /\ ExtractChanges(o, "fix") # {} /\ changes' = ExtractChanges(o, "fix")
               /\ verdict' = [status |-> s, of |-> ExtractChanges(o, "fix")]
    <3>1. changes' # {} /\ verdict'.of = changes'
      BY <2>3
    <3>2. \A c \in changes' : c \in Item /\ Fresh(c) /\ c.from = "fix"
      BY <2>3, ExtractFresh
    <3>3. \A c \in changes' : KeptButForced(c)'
      BY <2>1, <3>2, FreshIsKept DEF KeptButForced
    <3>4. (AgentValuesKept /\ PillsTellWriter /\ HandoffIsAuthoritative)'
      BY <3>2, <3>3 DEF AgentValuesKept, KeptButForced, PillsTellWriter, Enriched,
                        HandoffIsAuthoritative
    <3>5. (Typed /\ Extracted /\ BeforeHandoff /\ Judged)'
      BY <1>0, <2>1, <3>1, <3>2 DEF Typed, Extracted, BeforeHandoff, Judged
    <3>6. (Authors /\ Dropped)'
      BY <2>1, <3>2 DEF IInv, Authors, Dropped
    <3>. QED BY <3>4, <3>5, <3>6 DEF IInv
  <2>. QED BY <2>1, <2>2, <2>3
<1>13. ASSUME stage = "classify", stage' \in {"extract", "diverted"}, turn' \in Turns,
              UNCHANGED <<changes, filled, pruned>>
       PROVE  IInv'
  <2>1. changes' = {} /\ pruned' = {}
    BY <1>0, <1>13 DEF IInv, Dropped
  <2>2. (AgentValuesKept /\ PillsTellWriter /\ HandoffIsAuthoritative)'
    BY <2>1 DEF AgentValuesKept, PillsTellWriter, HandoffIsAuthoritative
  <2>. QED BY <1>13, <2>1, <2>2 DEF IInv, Typed, Extracted, BeforeHandoff, Authors, Dropped, Judged
<1>14. CASE Classify
  BY <1>13, <1>14, TurnsAreTurns DEF Classify
<1>15. CASE Divert
  BY <1>0, <1>13, <1>15 DEF Divert
<1>16. CASE UNCHANGED vars
  BY <1>16 DEF vars, IInv, Typed, Extracted, Fresh, BeforeHandoff, Kept, Authors, Dropped,
     Judged, AgentValuesKept, PillsTellWriter, Enriched, HandoffIsAuthoritative
<1>. QED BY <1>1, <1>2, <1>3, <1>4, <1>6, <1>7, <1>8, <1>9, <1>10, <1>11, <1>12, <1>14,
           <1>15, <1>16 DEF Next

\* From the extraction to the preview the items are what each stage is to make of them
\* (the safety nets of runner.py, in their order).
THEOREM ChangesetInvariant == Spec => []IInv
BY InitIInv, StepIInv, PTL DEF Spec

(***************************************************************************)
(* Theorems.                                                               *)
(***************************************************************************)
\* Whatever the registry, the modules and the handoff add, a value the agent
\* gave reaches the preview, but for the three fields of an aggregation.
THEOREM AgentValuesAreKept == Spec => []AgentValuesKept
<1>1. IInv => AgentValuesKept
  BY DEF IInv
<1>. QED BY <1>1, ChangesetInvariant, PTL

\* A default pill stands exactly where someone other than the agent wrote, no
\* registry default is missing, and only the primary module names.
THEOREM PillsAreTrue == Spec => []PillsTellWriter
<1>1. IInv => PillsTellWriter
  BY DEF IInv
<1>. QED BY <1>1, ChangesetInvariant, PTL

\* Whatever parts a candidate has, and unless the retry replaces it, a report
\* shows of the handoff the query, type and table of its aggregation and a
\* name the agent left out, and nothing else.
THEOREM HandoffPrevails == Spec => []HandoffIsAuthoritative
<1>1. IInv => HandoffIsAuthoritative
  BY DEF IInv
<1>. QED BY <1>1, ChangesetInvariant, PTL

\* The preview is not empty, has one author, carries the verdict given on it,
\* and holds nothing the review has dropped.
THEOREM PreviewIsOfTheVerdict == Spec => []ShownIsVetted
<1>1. IInv => ShownIsVetted
  BY DEF IInv, ShownIsVetted, Authors, Dropped, Judged, AfterReview
<1>. QED BY <1>1, ChangesetInvariant, PTL

(***************************************************************************)
(* The secondaries and the notes.                                          *)
(***************************************************************************)
\* detect_all stops after MaxSecondaries modules: those it takes have
\* different numbers of modules before them, all below that.
LEMMA OthersBounded ==
    ASSUME NEW p \in Prompts, NEW f, NEW m
    PROVE  Cardinality(Others(p, f, m)) <= MaxSecondaries
<1>. DEFINE rest == p.keywords \ {m}
            Before(n) == {k \in rest : Order[k] < Order[n]}
            rank == [n \in Others(p, f, m) |-> Cardinality(Before(n))]
<1>1. MaxSecondaries \in Nat
  BY ClassificationAssumption DEF ClassificationAssumption
<1>2. rest \in SUBSET Modules /\ IsFiniteSet(Modules) /\ IsFiniteSet(rest)
  <2>1. p.keywords \in SUBSET Modules
    BY DEF Prompts, Prompt
  <2>2. IsFiniteSet(Modules)
    BY ClassificationAssumption DEF ClassificationAssumption
  <2>. QED BY <2>1, <2>2, FS_Subset
<1>3. CASE ~f.specialists \/ ~f.multi
  <2>1. Others(p, f, m) = {}
    BY <1>3 DEF Others
  <2>. QED BY <1>1, <2>1, FS_EmptySet
<1>4. CASE f.specialists /\ f.multi
  <2>1. Others(p, f, m) = {n \in rest : Cardinality(Before(n)) < MaxSecondaries}
    BY <1>4 DEF Others
  <2>2. \A n \in rest : /\ IsFiniteSet(Before(n)) /\ Cardinality(Before(n)) \in Nat
                        /\ Order[n] \in Nat /\ n \notin Before(n)
    <3>. SUFFICES ASSUME NEW n \in rest
                  PROVE  /\ IsFiniteSet(Before(n)) /\ Cardinality(Before(n)) \in Nat
                         /\ Order[n] \in Nat /\ n \notin Before(n)
      OBVIOUS
    <3>1. Before(n) \in SUBSET rest
      OBVIOUS
    <3>2. IsFiniteSet(Before(n)) /\ Cardinality(Before(n)) \in Nat
      BY <1>2, <3>1, FS_Subset, FS_CardinalityType
    <3>3. Order[n] \in Nat
      BY <1>2, ClassificationAssumption DEF ClassificationAssumption
    <3>. QED BY <3>2, <3>3
  <2>3. ASSUME NEW n \in rest, NEW k \in rest, Order[n] < Order[k]
        PROVE  Cardinality(Before(n)) # Cardinality(Before(k))
    <3>1. Before(n) \in SUBSET Before(k) /\ n \in Before(k)
      <4>1. \A x \in rest : Order[x] \in Nat
        BY <2>2
      <4>2. \A x \in rest : Order[x] < Order[n] => Order[x] < Order[k]
        BY <2>3, <4>1
      <4>. QED BY <2>3, <4>2
    <3>2. Before(n) # Before(k) /\ IsFiniteSet(Before(k))
      BY <2>2, <3>1
    <3>. QED BY <3>1, <3>2, FS_Subset
  <2>4. ASSUME NEW n \in Others(p, f, m), NEW k \in Others(p, f, m), rank[n] = rank[k]
        PROVE  n = k
    <3>1. n \in rest /\ k \in rest /\ Cardinality(Before(n)) = Cardinality(Before(k))
      BY <2>1, <2>4
    <3>2. Order[n] = Order[k]
      <4>1. ~(Order[n] < Order[k])
        BY <2>3, <3>1
      <4>2. ~(Order[k] < Order[n])
        BY <2>3, <3>1
      <4>. QED BY <2>2, <3>1, <4>1, <4>2, SMTT(30)
    <3>. QED BY <1>2, <3>1, <3>2, ClassificationAssumption DEF ClassificationAssumption
  <2>5. rank \in [Others(p, f, m) -> 0..(MaxSecondaries - 1)]
    <3>1. \A n \in Others(p, f, m) : Cardinality(Before(n)) \in 0..(MaxSecondaries - 1)
      <4>. SUFFICES ASSUME NEW n \in Others(p, f, m)
                    PROVE  Cardinality(Before(n)) \in 0..(MaxSecondaries - 1)
        OBVIOUS
      <4>1. n \in rest /\ Cardinality(Before(n)) < MaxSecondaries
        BY <2>1
      <4>2. Cardinality(Before(n)) \in Nat
        BY <2>2, <4>1
      <4>. QED BY <1>1, <4>1, <4>2
    <3>. HIDE DEF Before
    <3>. QED BY <3>1
  <2>6. rank \in Injection(Others(p, f, m), 0..(MaxSecondaries - 1))
    BY <2>4, <2>5 DEF Injection, IsInjective
  <2>7. /\ IsFiniteSet(0..(MaxSecondaries - 1))
        /\ Cardinality(0..(MaxSecondaries - 1)) = MaxSecondaries
    BY <1>1, FS_Interval
  <2>. QED BY <2>6, <2>7, FS_Injection
<1>. QED BY <1>3, <1>4

\* Whatever turn a prompt leads to, its secondaries are few.
LEMMA SecondariesBounded ==
    ASSUME NEW p \in Prompts, NEW f, NEW t \in TurnsOf(p, f)
    PROVE  Cardinality(t.secondaries) <= MaxSecondaries
<1>1. CASE ~f.builders
  BY <1>1, FS_EmptySet, ClassificationAssumption DEF ClassificationAssumption, TurnsOf, NoTurn
<1>2. CASE f.builders
  <2>1. \E m : t.secondaries = Others(p, f, m)
    BY <1>2 DEF TurnsOf
  <2>. QED BY <2>1, OthersBounded
<1>. QED BY <1>1, <1>2

\* A list has finitely many items, and the nets only replace them.
LEMMA ImageFinite ==
    ASSUME NEW S, IsFiniteSet(S), NEW f, f = [x \in S |-> f[x]]
    PROVE  IsFiniteSet({f[x] : x \in S})
<1>1. f \in Surjection(S, {f[x] : x \in S})
  BY DEF Surjection
<1>. QED BY <1>1, FS_Surjection

\* An answer yields finitely many items.
LEMMA ExtractFinite ==
    ASSUME NEW o \in Outputs, NEW from
    PROVE  IsFiniteSet(ExtractChanges(o, from))
<1>. DEFINE f == [i \in Taken(o) |-> Normalised(o.entries[i], from, i)]
<1>1. o.entries \in Seq(Entry)
  BY ChangesetAssumption DEF ChangesetAssumption, Output
<1>2. IsFiniteSet(1..Len(o.entries)) /\ DOMAIN o.entries = 1..Len(o.entries)
  BY <1>1, FS_Interval
<1>3. IsFiniteSet(Taken(o))
  BY <1>2, FS_Subset DEF Taken
<1>4. IsFiniteSet({f[i] : i \in Taken(o)})
  BY <1>3, ImageFinite
<1>5. {f[i] : i \in Taken(o)} = ExtractChanges(o, from)
  BY DEF ExtractChanges
<1>. QED BY <1>4, <1>5

\* n is about an item of cs, at the place it has there.
Placed(n, cs) == \E c \in cs : Id(c) = n.about /\ Index(cs, c) = n.index

\* validate_output of one module: typed notes in its name; its rules' are
\* placed, its LLM's are about nothing in particular and repeat no rule.
LEMMA NotesOfModule ==
    ASSUME NEW m \in Modules, NEW cs, cs \subseteq Item, IsFiniteSet(cs),
           NEW said, said \subseteq Remarks,
           NEW n \in ValidateOutput(m, cs, said)
    PROVE  /\ n \in Note /\ n.by = m
           /\ n.index # NoIndex => Placed(n, cs)
           /\ n.about = NoItem => \A k \in ValidateOutput(m, cs, said) :
                                     k.issue = n.issue => k.about = NoItem
<1>. DEFINE ruled == RuleNotes(m, cs)
            told  == {[by |-> m, issue |-> s.issue, severity |-> s.severity,
                       index |-> NoIndex, about |-> NoItem]
                      : s \in {q \in said : \A k \in ruled : k.issue # q.issue}}
<1>1. ValidateOutput(m, cs, said) = ruled \cup told
  BY DEF ValidateOutput
<1>2. ASSUME NEW k \in ruled
      PROVE  k \in Note /\ k.by = m /\ Placed(k, cs) /\ k.about # NoItem
  <2>1. PICK c \in cs, r \in RulesOf[m] :
           k = [by |-> m, issue |-> r.issue, severity |-> r.severity,
                index |-> Index(cs, c), about |-> Id(c)]
    BY <1>2 DEF RuleNotes
  <2>2. r \in Rule
    BY ChangesetAssumption DEF ChangesetAssumption
  <2>3. Index(cs, c) \in Nat
    BY FS_Subset, FS_CardinalityType DEF Index
  <2>4. c.from \in {"crew", "rescue", "fix"} /\ c.pos \in Nat
    BY DEF Item
  <2>5. /\ k.by = m /\ k.issue = r.issue /\ k.severity = r.severity
        /\ k.index = Index(cs, c) /\ k.about = Id(c)
    BY <2>1
  <2>6. k \in Note
    BY <2>1, <2>2, <2>3, <2>4 DEF Note, Rule, Id
  <2>7. k.about # NoItem
    BY <2>4, <2>5 DEF Id, NoItem
  <2>. QED BY <2>5, <2>6, <2>7 DEF Placed
<1>3. ASSUME NEW k \in told
      PROVE  /\ k \in Note /\ k.by = m /\ k.index = NoIndex /\ k.about = NoItem
             /\ \A j \in ruled : j.issue # k.issue
  <2>1. PICK s \in said :
           /\ \A j \in ruled : j.issue # s.issue
           /\ k = [by |-> m, issue |-> s.issue, severity |-> s.severity,
                   index |-> NoIndex, about |-> NoItem]
    BY <1>3
  <2>2. s \in Remark
    BY ChangesetAssumption DEF ChangesetAssumption
  <2>3. k \in Note
    BY <2>1, <2>2 DEF Note, Remark, NoIndex, NoItem
  <2>. QED BY <2>1, <2>3
<1>. HIDE DEF ruled, told
<1>4. CASE n \in ruled
  BY <1>2, <1>4
<1>5. CASE n \in told
  <2>1. \A k \in ruled \cup told : k.issue = n.issue => k.about = NoItem
    BY <1>3, <1>5
  <2>. QED BY <1>1, <1>3, <1>5, <2>1
<1>. QED BY <1>1, <1>4, <1>5

\* A secondary's notes are capped below blocker, and else as they were.
LEMMA CappedNote ==
    ASSUME NEW ns, ns \subseteq Note, NEW n \in Capped(ns)
    PROVE  /\ n \in Note /\ n.severity # "blocker"
           /\ \E k \in ns : /\ n.by = k.by /\ n.issue = k.issue
                            /\ n.index = k.index /\ n.about = k.about
<1>1. PICK k \in ns : n = [k EXCEPT !.severity = IF @ = "blocker" THEN "warning" ELSE @]
  BY DEF Capped
<1>2. k \in Note
  OBVIOUS
<1>3. /\ n.by = k.by /\ n.issue = k.issue /\ n.index = k.index /\ n.about = k.about
      /\ n.severity = IF k.severity = "blocker" THEN "warning" ELSE k.severity
  BY <1>1, <1>2 DEF Note
<1>4. n \in Note
  BY <1>1, <1>2 DEF Note, Severities
<1>. QED BY <1>3, <1>4

Stages  == {"classify", "diverted", "extract", "rescue", "backfill", "handoff",
            "validate", "gate", "refused", "dry_run", "retry", "preview", "shown"}
Unnoted == {"classify", "diverted", "extract", "rescue", "backfill", "handoff", "validate"}

\* What TypeOK adds to Typed, and that a changeset is finite: the index of a
\* note counts items.
Filed == /\ stage \in Stages /\ filled \in BOOLEAN
         /\ Cardinality(turn.secondaries) <= MaxSecondaries
         /\ IsFiniteSet(changes) /\ IsFiniteSet(pruned) /\ pruned \subseteq Item
         /\ verdict.status \in Statuses \cup {"none", "skipped"}
         /\ verdict.of \subseteq Item

\* There are no notes before the validation.  An index is the place of its
\* item among those shown and dropped, until a fix replaces them.
Noted == /\ notes \subseteq Note
         /\ stage \in Unnoted => notes = {}
         /\ \A n \in notes : n.severity = "blocker" => n.by = turn.module
         /\ \A n, k \in notes :
               n.by = k.by /\ n.issue = k.issue /\ n.about = NoItem => k.about = NoItem
         /\ (\A c \in changes : c.from # "fix") =>
               \A n \in notes : n.index # NoIndex => Placed(n, changes \cup pruned)

\* No notes at the start.
LEMMA InitNoted == Init => Filed /\ Noted
<1>. SUFFICES ASSUME Init PROVE Filed /\ Noted
  OBVIOUS
<1>1. Filed
  <2>1. turn.secondaries = {} /\ changes = {} /\ pruned = {}
    BY DEF Init, NoTurn
  <2>2. /\ IsFiniteSet(changes) /\ IsFiniteSet(pruned)
        /\ Cardinality(turn.secondaries) <= MaxSecondaries
    BY <2>1, FS_EmptySet, ClassificationAssumption DEF ClassificationAssumption
  <2>3. verdict.status = "none" /\ verdict.of = {}
    BY DEF Init, NoVerdict
  <2>. QED BY <2>1, <2>2, <2>3 DEF Init, Filed, Stages
<1>2. Noted
  BY DEF Init, Noted
<1>. QED BY <1>1, <1>2

\* Every stage keeps the changeset finite and the verdict of its type.
LEMMA FiledKept == IInv /\ Filed /\ [Next]_vars => Filed'
<1>. SUFFICES ASSUME IInv, Filed, [Next]_vars
              PROVE  Filed'
  OBVIOUS
<1>0. changes \subseteq Item
  BY DEF IInv, Typed
<1>1. CASE Classify
  BY <1>1, SecondariesBounded DEF Classify, Filed, Stages
<1>2. CASE Extract
  <2>1. IsFiniteSet(changes')
    BY <1>2, ExtractFinite, FS_EmptySet DEF Extract
  <2>. QED BY <1>2, <2>1 DEF Extract, Filed, Stages
<1>3. CASE Rescue
  <2>1. IsFiniteSet(changes')
    BY <1>3, ExtractFinite DEF Rescue, Filed
  <2>. QED BY <1>3, <2>1 DEF Rescue, Filed, Stages
<1>4. CASE Backfill
  <2>. DEFINE g == [c \in changes |-> Backfilled(c)]
  <2>1. IsFiniteSet({g[c] : c \in changes})
    BY ImageFinite DEF Filed
  <2>2. {g[c] : c \in changes} = {Backfilled(c) : c \in changes}
    OBVIOUS
  <2>3. IsFiniteSet(changes')
    BY <1>4, <2>1, <2>2 DEF Backfill, Filed
  <2>. QED BY <1>4, <2>3 DEF Backfill, Filed, Stages
<1>5. CASE Handoff
  <2>. DEFINE g == [c \in changes |-> HandedOff(c)]
  <2>1. IsFiniteSet({g[c] : c \in changes})
    BY ImageFinite DEF Filed
  <2>2. {g[c] : c \in changes} = {HandedOff(c) : c \in changes}
    OBVIOUS
  <2>3. IsFiniteSet(changes')
    BY <1>5, <2>1, <2>2 DEF Handoff
  <2>. QED BY <1>5, <2>3 DEF Handoff, Filed, Stages
<1>6. CASE Reflect
  <2>1. IsFiniteSet(changes') /\ IsFiniteSet(pruned') /\ pruned' \subseteq Item
    BY <1>0, <1>6, FS_Subset DEF Reflect, Prunable, Filed
  <2>. QED BY <1>6, <2>1 DEF Reflect, Filed, Stages
<1>7. CASE SkipDryRun
  BY <1>0, <1>7 DEF SkipDryRun, Filed, Stages
<1>8. CASE DryRun
  <2>1. PICK s \in Statuses : verdict' = [status |-> s, of |-> changes]
    BY <1>8 DEF DryRun
  <2>2. verdict'.status \in Statuses \cup {"none", "skipped"} /\ verdict'.of \subseteq Item
    BY <1>0, <2>1
  <2>3. stage' \in Stages /\ UNCHANGED <<turn, changes, filled, pruned>>
    BY <1>8 DEF DryRun, Stages
  <2>. QED BY <2>2, <2>3 DEF Filed
<1>9. CASE Retry
  <2>1. PICK o \in Outputs, s \in Statuses :
           IF ExtractChanges(o, "fix") = {} THEN UNCHANGED <<changes, verdict>>
           ELSE /\ changes' = ExtractChanges(o, "fix")
                /\ verdict' = [status |-> s, of |-> ExtractChanges(o, "fix")]
    BY <1>9 DEF Retry
  <2>2. IsFiniteSet(ExtractChanges(o, "fix")) /\ ExtractChanges(o, "fix") \subseteq Item
    BY ExtractFinite, ExtractFresh
  <2>3. /\ IsFiniteSet(changes')
        /\ verdict'.status \in Statuses \cup {"none", "skipped"} /\ verdict'.of \subseteq Item
    BY <2>1, <2>2 DEF Filed
  <2>4. stage' \in Stages /\ UNCHANGED <<turn, filled, pruned>>
    BY <1>9 DEF Retry, Stages
  <2>. QED BY <2>3, <2>4 DEF Filed
<1>10. CASE Divert \/ Validate \/ RefuseEmpty \/ Preview
  BY <1>10 DEF Divert, Validate, RefuseEmpty, Preview, Filed, Stages
<1>11. CASE UNCHANGED vars
  BY <1>11 DEF vars, Filed
<1>. QED BY <1>1, <1>2, <1>3, <1>4, <1>5, <1>6, <1>7, <1>8, <1>9, <1>10, <1>11 DEF Next

\* A step that writes no notes keeps their places if the items shown and
\* dropped stay the same, or a fix has replaced those shown.
LEMMA TraceKept ==
    ASSUME Noted, UNCHANGED <<turn, notes>>, stage' \notin Unnoted \/ stage' = stage,
           \/ changes' \cup pruned' = changes \cup pruned
              /\ \A c \in changes : c.from # "fix"
           \/ changes' = changes /\ pruned' = pruned
           \/ \E c \in changes' : c.from = "fix"
    PROVE  Noted'
<1>1. (\A n \in notes : n.severity = "blocker" => n.by = turn.module)'
  BY DEF Noted
<1>2. (\A n, k \in notes :
          n.by = k.by /\ n.issue = k.issue /\ n.about = NoItem => k.about = NoItem)'
  BY DEF Noted
<1>3. ASSUME \A c \in changes' : c.from # "fix"
      PROVE  changes' \cup pruned' = changes \cup pruned /\ \A c \in changes : c.from # "fix"
  BY <1>3
<1>4. ((\A c \in changes : c.from # "fix") =>
          \A n \in notes : n.index # NoIndex => Placed(n, changes \cup pruned))'
  <2>. SUFFICES ASSUME \A c \in changes' : c.from # "fix",
                       NEW n \in notes, n.index # NoIndex
                PROVE  Placed(n, changes' \cup pruned')
    BY DEF Placed, Index, Id
  <2>1. Placed(n, changes \cup pruned)
    BY <1>3 DEF Noted
  <2>. QED BY <1>3, <2>1
<1>5. notes' \subseteq Note /\ (stage' \in Unnoted => notes' = {})
  BY DEF Noted
<1>. QED BY <1>1, <1>2, <1>4, <1>5 DEF Noted

\* apply_module_validation: the notes of the primary, and of the secondaries
\* below blocker, each about an item of the changeset it was given.
LEMMA ValidateNotes ==
    ASSUME IInv, Filed, Noted, Validate
    PROVE  Noted'
<1>. USE DEF AtExtraction, AfterReview
<1>0. /\ stage = "validate" /\ stage' = "gate" /\ UNCHANGED <<turn, changes, pruned>>
      /\ turn \in Turns /\ changes \subseteq Item /\ pruned = {}
      /\ IsFiniteSet(changes)
  BY DEF Validate, IInv, Typed, Dropped, Filed
<1>1. CASE notes' = {}
  BY <1>0, <1>1 DEF Noted, Unnoted
<1>2. CASE notes' # {}
  <2>1. PICK asked \in SUBSET (turn.secondaries \cup ({turn.module} \ {NoModule})) :
        \E said \in [asked -> SUBSET Remarks] :
           notes' = IF changes = {} \/ turn.module \notin asked THEN {}
                    ELSE ValidateOutput(turn.module, changes, said[turn.module])
                         \cup UNION {Capped(ValidateOutput(m, changes, said[m]))
                                     : m \in asked \ {turn.module}}
    BY DEF Validate
  <2>2. PICK said \in [asked -> SUBSET Remarks] :
           notes' = IF changes = {} \/ turn.module \notin asked THEN {}
                    ELSE ValidateOutput(turn.module, changes, said[turn.module])
                         \cup UNION {Capped(ValidateOutput(m, changes, said[m]))
                                     : m \in asked \ {turn.module}}
    BY <2>1
  <2>3. turn.module \in asked
    BY <1>2, <2>2
  <2>4. asked \subseteq Modules
    BY <1>0 DEF Turns, Turn
  <2>. DEFINE N(m) == ValidateOutput(m, changes, said[m])
  <2>5. \A m \in asked : \A n \in N(m) :
           /\ n \in Note /\ n.by = m
           /\ n.index # NoIndex => Placed(n, changes)
           /\ n.about = NoItem => \A k \in N(m) : k.issue = n.issue => k.about = NoItem
    <3>. SUFFICES ASSUME NEW m \in asked, NEW n \in N(m)
                  PROVE  /\ n \in Note /\ n.by = m
                         /\ n.index # NoIndex => Placed(n, changes)
                         /\ n.about = NoItem => \A k \in N(m) : k.issue = n.issue => k.about = NoItem
      OBVIOUS
    <3>1. m \in Modules /\ said[m] \subseteq Remarks
      BY <2>2, <2>4
    <3>. QED BY <1>0, <3>1, NotesOfModule
  <2>6. \A n \in notes' : \E m \in asked :
           \/ m = turn.module /\ n \in N(m)
           \/ m # turn.module /\ n \in Capped(N(m))
    <3>1. notes' = N(turn.module) \cup UNION {Capped(N(m)) : m \in asked \ {turn.module}}
      BY <1>2, <2>2
    <3>. HIDE DEF N
    <3>. QED BY <2>3, <3>1
  <2>. HIDE DEF N
  \* A note is a module's own, but for the severity of a secondary's.
  <2>7. \A n \in notes' : \E m \in asked : \E k \in N(m) :
           /\ n \in Note /\ n.by = m
           /\ n.issue = k.issue /\ n.index = k.index /\ n.about = k.about
           /\ n.severity = "blocker" => m = turn.module
    <3>. SUFFICES ASSUME NEW n \in notes'
                  PROVE  \E m \in asked : \E k \in N(m) :
                            /\ n \in Note /\ n.by = m
                            /\ n.issue = k.issue /\ n.index = k.index /\ n.about = k.about
                            /\ n.severity = "blocker" => m = turn.module
      OBVIOUS
    <3>1. PICK m \in asked : \/ m = turn.module /\ n \in N(m)
                             \/ m # turn.module /\ n \in Capped(N(m))
      BY <2>6
    <3>2. CASE m = turn.module /\ n \in N(m)
      BY <2>5, <3>2
    <3>3. CASE n \in Capped(N(m))
      <4>1. N(m) \subseteq Note
        BY <2>5
      <4>2. n \in Note /\ n.severity # "blocker"
        BY <3>3, <4>1, CappedNote
      <4>3. PICK k \in N(m) : /\ n.by = k.by /\ n.issue = k.issue
                              /\ n.index = k.index /\ n.about = k.about
        BY <3>3, <4>1, CappedNote
      <4>. QED BY <2>5, <4>2, <4>3
    <3>. QED BY <3>1, <3>2, <3>3
  <2>8. notes' \subseteq Note
    BY <2>7
  <2>9. \A n \in notes' : n.severity = "blocker" => n.by = turn'.module
    BY <1>0, <2>7
  <2>10. \A n, k \in notes' :
            n.by = k.by /\ n.issue = k.issue /\ n.about = NoItem => k.about = NoItem
    <3>. SUFFICES ASSUME NEW n \in notes', NEW k \in notes',
                         n.by = k.by, n.issue = k.issue, n.about = NoItem
                  PROVE  k.about = NoItem
      OBVIOUS
    <3>1. PICK m \in asked : \E j \in N(m) :
             n.by = m /\ n.issue = j.issue /\ n.about = j.about
      BY <2>7
    <3>2. PICK i \in N(m) : n.issue = i.issue /\ n.about = i.about
      BY <3>1
    <3>3. PICK l \in asked : \E j \in N(l) :
             k.by = l /\ k.issue = j.issue /\ k.about = j.about
      BY <2>7
    <3>4. l = m
      BY <3>1, <3>3
    <3>5. PICK j \in N(m) : k.issue = j.issue /\ k.about = j.about
      BY <3>3, <3>4
    <3>6. i.about = NoItem /\ j.issue = i.issue
      BY <3>2, <3>5
    <3>7. j.about = NoItem
      BY <2>5, <3>2, <3>5, <3>6
    <3>. QED BY <3>5, <3>7
  <2>11. \A n \in notes' : n.index # NoIndex => Placed(n, changes' \cup pruned')
    <3>. SUFFICES ASSUME NEW n \in notes', n.index # NoIndex
                  PROVE  Placed(n, changes' \cup pruned')
      OBVIOUS
    <3>1. PICK m \in asked : \E k \in N(m) : n.index = k.index /\ n.about = k.about
      BY <2>7
    <3>2. PICK k \in N(m) : n.index = k.index /\ n.about = k.about
      BY <3>1
    <3>3. Placed(k, changes)
      BY <2>5, <3>2
    <3>4. changes' \cup pruned' = changes
      BY <1>0
    <3>. QED BY <3>2, <3>3, <3>4 DEF Placed
  <2>12. ((\A c \in changes : c.from # "fix") =>
            \A n \in notes : n.index # NoIndex => Placed(n, changes \cup pruned))'
    BY <2>11 DEF Placed, Index, Id
  <2>. QED BY <1>0, <2>8, <2>9, <2>10, <2>12 DEF Noted, Unnoted
<1>. QED BY <1>1, <1>2

\* Every stage keeps the notes in their places.
LEMMA NotedKept == IInv /\ Filed /\ Noted /\ [Next]_vars => Noted'
<1>. SUFFICES ASSUME IInv, Filed, Noted, [Next]_vars
              PROVE  Noted'
  OBVIOUS
<1>. USE DEF Unnoted
<1>1. CASE Classify \/ Divert \/ Extract \/ Rescue \/ Backfill \/ Handoff
  <2>1. notes = {} /\ notes' = {}
    BY <1>1 DEF Noted, Classify, Divert, Extract, Rescue, Backfill, Handoff
  <2>. QED BY <2>1 DEF Noted
<1>2. CASE Validate
  BY <1>2, ValidateNotes
<1>3. CASE RefuseEmpty \/ SkipDryRun \/ DryRun \/ Preview
  <2>1. UNCHANGED <<turn, notes, changes, pruned>> /\ stage' \notin Unnoted
    BY <1>3 DEF RefuseEmpty, SkipDryRun, DryRun, Preview
  <2>. QED BY <2>1, TraceKept
<1>4. CASE Reflect
  <2>1. /\ UNCHANGED <<turn, notes>> /\ stage = "gate" /\ stage' = "dry_run"
        /\ changes' \cup pruned' = changes
    BY <1>4 DEF Reflect, Prunable
  <2>2. pruned = {} /\ \A c \in changes : c.from # "fix"
    BY <2>1 DEF IInv, Dropped, Authors, AfterReview
  <2>. QED BY <2>1, <2>2, TraceKept
<1>5. CASE Retry
  <2>1. UNCHANGED <<turn, notes, pruned>> /\ stage' = "preview"
    BY <1>5 DEF Retry
  <2>2. changes' = changes \/ \E c \in changes' : c.from = "fix"
    <3>1. CASE changes' # changes
      <4>1. PICK o \in Outputs : /\ ExtractChanges(o, "fix") # {}
                                 /\ changes' = ExtractChanges(o, "fix")
        BY <1>5, <3>1 DEF Retry
      <4>. QED BY <4>1, ExtractFresh
    <3>. QED BY <3>1
  <2>. QED BY <2>1, <2>2, TraceKept
<1>6. CASE UNCHANGED vars
  BY <1>6, TraceKept DEF vars
<1>. QED BY <1>1, <1>2, <1>3, <1>4, <1>5, <1>6 DEF Next

\* Only the validation writes notes, and what it writes can be traced back to the items
\* it saw (the module specialists' validate pass).
THEOREM ChangesetNotes == Spec => [](Filed /\ Noted)
<1>1. Init => Filed /\ Noted
  BY InitNoted
<1>2. IInv /\ Filed /\ Noted /\ [Next]_vars => (Filed /\ Noted)'
  BY FiledKept, NotedKept
<1>. QED BY <1>1, <1>2, ChangesetInvariant, PTL DEF Spec

\* Turn, items, notes and verdict have their types at every stage; a turn has
\* at most MaxSecondaries secondaries, whatever keywords a prompt holds.
THEOREM ChangesetTypes == Spec => []TypeOK
<1>1. IInv /\ Filed /\ Noted => TypeOK
  BY DEF IInv, Typed, Filed, Noted, TypeOK, Stages
<1>. QED BY <1>1, ChangesetInvariant, ChangesetNotes, PTL

\* An index is a place among the items shown and dropped; it is the same place
\* among those shown if and only if none was dropped before.
LEMMA IndexShifts ==
    ASSUME NEW cs, NEW ps, cs \subseteq Item, ps \subseteq Item, cs \cap ps = {},
           IsFiniteSet(cs), IsFiniteSet(ps), NEW c \in cs
    PROVE  Index(cs, c) = Index(cs \cup ps, c) <=> \A d \in ps : c.pos <= d.pos
<1>. DEFINE B(S) == {d \in S : d.pos < c.pos}
<1>0. \A d \in cs \cup ps : d.pos \in Nat
  BY DEF Item
<1>1. B(cs) \in SUBSET B(cs \cup ps) /\ IsFiniteSet(B(cs \cup ps))
  <2>1. IsFiniteSet(cs \cup ps)
    BY FS_Union
  <2>. QED BY <2>1, FS_Subset
<1>2. (\A d \in ps : c.pos <= d.pos) <=> B(cs) = B(cs \cup ps)
  <2>1. ASSUME \A d \in ps : c.pos <= d.pos
        PROVE  B(cs) = B(cs \cup ps)
    BY <1>0, <2>1
  <2>2. ASSUME B(cs) = B(cs \cup ps), NEW d \in ps
        PROVE  c.pos <= d.pos
    <3>1. ~(d.pos < c.pos)
      BY <2>2
    <3>. QED BY <1>0, <3>1
  <2>. QED BY <2>1, <2>2
<1>3. Cardinality(B(cs)) = Cardinality(B(cs \cup ps)) <=> B(cs) = B(cs \cup ps)
  <2>. HIDE DEF B
  <2>. QED BY <1>1, FS_Subset
<1>. QED BY <1>2, <1>3 DEF Index

\* Only the primary module blocks, no specialist repeats its own rule, and
\* until a fix replaces the list an index finds its item in it exactly if the
\* review has dropped neither the item nor one before it.
THEOREM NotesFindTheirItems == Spec => []NotesTraceBack
<1>1. IInv /\ Filed /\ Noted => NotesTraceBack
  <2>. SUFFICES ASSUME IInv, Filed, Noted, \A c \in changes : c.from # "fix",
                       NEW n \in notes, n.index # NoIndex
                PROVE  FindsItsItem(n) <=>
                          /\ \E c \in changes : Id(c) = n.about
                          /\ \A d \in pruned : n.about[2] <= d.pos
    BY DEF Noted, NotesTraceBack
  <2>1. PICK u \in changes \cup pruned :
           Id(u) = n.about /\ Index(changes \cup pruned, u) = n.index
    BY DEF Noted, Placed
  <2>2. ASSUME NEW c \in changes, Id(c) = n.about
        PROVE  Index(changes, c) = n.index <=> \A d \in pruned : n.about[2] <= d.pos
    <3>1. c.pos = u.pos /\ n.about[2] = c.pos
      BY <2>1, <2>2 DEF Id
    <3>2. Index(changes \cup pruned, c) = n.index
      BY <2>1, <3>1 DEF Index
    <3>3. Index(changes, c) = Index(changes \cup pruned, c)
             <=> \A d \in pruned : c.pos <= d.pos
      BY IndexShifts DEF IInv, Typed, Dropped, Filed
    <3>. QED BY <3>1, <3>2, <3>3
  <2>. QED BY <2>2 DEF FindsItsItem
<1>. QED BY <1>1, ChangesetInvariant, ChangesetNotes, PTL
=============================================================================

---------------------------- MODULE MCChangeset ----------------------------
\* Three modules, one with a naming pattern and one with no conventions, and
\* at most one secondary; answers that hold a bare or a full
\* item of the intent's doctype, another item, stray JSON, or nothing.
EXTENDS Changeset

MCModules == {"accounts", "custom", "stock"}
MCOrder   == [accounts |-> 1, custom |-> 2, stock |-> 3]
MCNamedBy == {"accounts"}
MCRoles   == {"System Manager", "Accounts Manager", "Author"}
MCRolesOf == [accounts |-> {"Accounts Manager"}, custom |-> {"Accounts Manager", "Author"},
              stock |-> {}]
MCRulesOf ==
    [accounts |-> {[issue |-> "needs role", severity |-> "advisory",
                    doctype |-> "DocType", given |-> {"module"}],
                   [issue |-> "posts to ledger", severity |-> "blocker",
                    doctype |-> "Report", given |-> {}]},
     custom   |-> {[issue |-> "unusual", severity |-> "blocker",
                    doctype |-> "DocType", given |-> {}]},
     stock    |-> {}]
MCRemarks == {[issue |-> "unusual", severity |-> "blocker"]}

Given(doctype, gives, annotated, roles) ==
    [dict |-> TRUE, marked |-> TRUE, doctype |-> doctype,
     gives |-> gives, annotated |-> annotated, roles |-> roles]
Bare == Given("DocType", {}, {}, {})
Full == Given("DocType", {"module", "autoname", "permissions"}, {"autoname"}, {"Accounts Manager"})
Half == Given("Report", {"query"}, {}, {})
Whole == Given("Report", {"module", "report_type", "ref_doctype", "report_name"}, {"report_type"}, {})
Field == Given("Other", {}, {}, {})
Stray == [Field EXCEPT !.marked = FALSE]
Prose == [Stray EXCEPT !.dict = FALSE]

MCOutputs ==
    {[container |-> "none", entries |-> <<>>],
     [container |-> "bare", entries |-> <<Stray>>],
     [container |-> "bare", entries |-> <<Whole>>],
     [container |-> "wrapped", entries |-> <<Full, Stray>>],
     [container |-> "wrapped", entries |-> <<Field, Bare>>],
     [container |-> "list", entries |-> <<Prose, Full>>],
     [container |-> "list", entries |-> <<Stray, Full, Half>>],
     [container |-> "list", entries |-> <<Half, Bare>>]}
=============================================================================

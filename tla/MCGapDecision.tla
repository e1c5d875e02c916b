--------------------------- MODULE MCGapDecision ---------------------------
(* The inputs are every row status with every scope of a domain and one     *)
(* capability; and two capabilities with selectors of every specificity.    *)
EXTENDS GapDecision

Ratifications ==
  {<<"draft", "validate">>, <<"reviewed", "qualify">>, <<"confirmed", "validate">>}

Selector(steps, classes) == [steps |-> steps, categories |-> {}, classes |-> classes]

ProfileOf(ratification, owned, scope, capabilities) ==
  [status |-> ratification[1], stage |-> ratification[2], declared |-> TRUE,
   owned |-> owned, coverage |-> scope[1], mode |-> scope[2], owner |-> scope[3],
   capabilities |-> capabilities]

Capability(selector, scope) ==
  [selector |-> selector, coverage |-> scope[1], mode |-> scope[2], owner |-> scope[3]]

\* Every scope alone; a few scopes under every override of a capability.
Scopes == Coverages \X Modes \X Actors
OverriddenScopes ==
  {<<"covered", "test", "isv">>, <<"gap", "evidence", "isv">>,
   <<"out_of_scope", "skip", "other">>}
Overrides ==
  (Coverages \cup {Inherit}) \X (Modes \cup {Inherit}) \X (Actors \cup {Inherit})

Undeclared(ratification) ==
  [status |-> ratification[1], stage |-> ratification[2], declared |-> FALSE,
   owned |-> FALSE, coverage |-> "unknown", mode |-> "deferred", owner |-> "other",
   capabilities |-> {}]

ScopeProfiles ==
  {Undeclared(n) : n \in Ratifications} \cup
  {ProfileOf(n, o, s, {}) : n \in Ratifications, o \in BOOLEAN, s \in Scopes} \cup
  {ProfileOf(n, o, s, {Capability(Selector({"create"}, {}), x)}) :
     n \in Ratifications, o \in BOOLEAN, s \in OverriddenScopes, x \in Overrides}

RowOf(status, missing, fixable, step, class) ==
  [status |-> status, stepMissing |-> missing, fixable |-> fixable, hasTarget |-> fixable,
   values |-> [steps |-> step, categories |-> NoValue, classes |-> class]]

ScopeRows ==
  {RowOf(s, FALSE, f, "create", NoValue) : s \in RowStatuses, f \in BOOLEAN} \cup
  {RowOf("skipped", TRUE, TRUE, "create", NoValue), RowOf("fail", FALSE, TRUE, "delete", NoValue)}

\* Selectors of every specificity over one step and one validation class.
Selectors ==
  {Selector(s, c) : s \in {{}, {"create"}, {Wildcard}, {"create", Wildcard}},
                    c \in {{}, {"Check"}, {Wildcard}}}

SelectorScopes ==
  {<<"covered", "test", Inherit>>, <<"out_of_scope", "skip", Inherit>>}

SelectorProfiles ==
  {ProfileOf(<<"reviewed", "validate">>, TRUE, <<"gap", "test", "isv">>,
             {Capability(s, x), Capability(t, y), Capability(u, z)}) :
     s \in Selectors, t \in Selectors, u \in Selectors,
     x \in SelectorScopes, y \in SelectorScopes, z \in SelectorScopes}

SelectorRows ==
  {RowOf("fail", FALSE, TRUE, s, c) :
     s \in {"create", "delete", NoValue}, c \in {"Check", NoValue}}

MCProfiles == ScopeProfiles \cup SelectorProfiles

MCRows == ScopeRows \cup SelectorRows
=============================================================================

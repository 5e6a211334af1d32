------------------------------ MODULE Selectors ------------------------------
(***************************************************************************)
(* Which account a selector names (lpc-core/src/selector.rs): --account of *)
(* a command, LARKSWITCH_ACCOUNT, the arguments of lpcctl.                 *)
(*                                                                         *)
(* A selector is id:<id>, alias:<alias> or a bare token, each possibly     *)
(* within app:<id or label>/.  Its parsing is left out: a selector is the  *)
(* record that parse_selector returns.                                     *)
(***************************************************************************)
EXTENDS Naturals, FiniteSets

CONSTANTS
  App,     \* the ids of apps
  Label,   \* labels of apps; a label may look like the id of an app
  Account, \* ids of accounts
  Alias,   \* aliases of accounts; one may look like an id
  User,    \* users, as the open id
  NameOf,  \* the display name of a user; it may look like either
  None

ASSUME SelectorsAssumption == None \notin App \cup Label \cup Account \cup Alias

Token == Account \cup Alias \cup {NameOf[u] : u \in User}

Selector ==
  [app: App \cup Label \cup {None}, by: {"id"}, value: Account]
    \cup [app: App \cup Label \cup {None}, by: {"alias"}, value: Alias]
    \cup [app: App \cup Label \cup {None}, by: {"bare"}, value: Token]

-----------------------------------------------------------------------------
\* The apps a key may mean: by id or by label; of several, the one with that id.
AppsOf(catalog, key) ==
  LET found == {a \in DOMAIN catalog.apps : a = key \/ catalog.apps[a].label = key}
  IN IF key = None THEN DOMAIN catalog.apps
     ELSE IF Cardinality(found) > 1 THEN found \cap {key} ELSE found

\* The accounts within the scope of a selector.
InScope(catalog, key) ==
  {c \in DOMAIN catalog.accounts : catalog.accounts[c].app \in AppsOf(catalog, key)}

Aliased(catalog, scope, alias) == {c \in scope : catalog.accounts[c].alias = alias}
Named(catalog, scope, name) == {c \in scope : NameOf[catalog.accounts[c].user] = name}

\* A bare token is an id if it looks like one, or else an alias, or else a display
\* name.
Bare(catalog, scope, token) ==
  LET aliased == Aliased(catalog, scope, token)
  IN IF token \in Account THEN scope \cap {token}
     ELSE IF aliased # {} THEN aliased ELSE Named(catalog, scope, token)

\* What a selector matches.  One account is the answer; none is an error, and so
\* are several (AccountAmbiguous).
Matches(catalog, sel) ==
  LET scope == InScope(catalog, sel.app)
  IN CASE sel.by = "id"    -> scope \cap {sel.value}
       [] sel.by = "alias" -> Aliased(catalog, scope, sel.value)
       [] sel.by = "bare"  -> Bare(catalog, scope, sel.value)
=============================================================================

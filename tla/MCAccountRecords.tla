-------------------------- MODULE MCAccountRecords --------------------------
(* An instance of AccountRecords: two apps, one of which may be labelled like *)
(* the other; two users, one of whom is called like an alias.                 *)
EXTENDS AccountRecords, TLC

CONSTANTS a1, a2, u1, u2, x, s1, s2, l1, l2

MCNameOf == [u \in User |-> IF u = u1 THEN "Ann" ELSE x]

MCSource(u, l) == [app |-> a1, users |-> {u}, lang |-> l, safe |-> TRUE]

MCJobs ==
  {[op |-> "import", label |-> a2, source |-> MCSource(u1, l1)],
   [op |-> "app", label |-> a1, source |-> MCSource(u1, l2), fresh |-> FALSE],
   [op |-> "app", label |-> a2, fresh |-> TRUE,
    source |-> [app |-> a2, users |-> {}, lang |-> l1, safe |-> TRUE]],
   [op |-> "login", app |-> a1, user |-> u1],
   [op |-> "login", app |-> a2, user |-> u2],
   [op |-> "refresh", app |-> a1],
   [op |-> "policy", app |-> a1, selected |-> {s2}],
   [op |-> "policy", app |-> a1, selected |-> {}],
   [op |-> "open"]}
   \cup {[op |-> "alias", account |-> i, alias |-> x] : i \in Account}
   \cup {[op |-> "reauth", account |-> i] : i \in Account}
   \cup {[op |-> "remove", account |-> i] : i \in Account}

\* No store yet; and two apps whose labels mislead, with one account.
MCApps ==
  [a \in {a1, a2} |-> [label |-> IF a = a1 THEN a2 ELSE a1,
                      available |-> {s1, s2}, policy |-> {s1}]]

MCBefore ==
  {[apps |-> [a \in {} |-> None], accounts |-> [i \in {} |-> None]]}
    \cup {[apps |-> MCApps,
            accounts |-> [i \in {c} |->
              [app |-> a1, user |-> u1, alias |-> None, shared |-> FALSE]]] : c \in Account}

MCSymmetry == Permutations(Proc) \cup Permutations(Account)
=============================================================================

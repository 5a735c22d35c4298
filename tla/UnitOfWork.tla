----------------------------- MODULE UnitOfWork -----------------------------
(***************************************************************************)
(* What SQLAlchemyUnitOfWork gives a service call: one session, one        *)
(* transaction.  The ORM keeps the values a row had when it was loaded; at *)
(* commit it emits UPDATE ... SET <changed columns> WHERE id = <id>.  No   *)
(* model declares a version_id_col and no statement locks a row or raises  *)
(* the isolation level, so the row may have changed since it was loaded and*)
(* the columns the call left alone keep whatever value they have by then.  *)
(***************************************************************************)

Changed(loaded, new) == {c \in DOMAIN loaded : new[c] # loaded[c]}

\* the values of the changed columns; the others are blank, not stale
Assigned(loaded, new, blank) ==
  [c \in DOMAIN loaded |-> IF new[c] # loaded[c] THEN new[c] ELSE blank[c]]

Flush(current, changed, new) ==
  [c \in DOMAIN current |-> IF c \in changed THEN new[c] ELSE current[c]]

=============================================================================

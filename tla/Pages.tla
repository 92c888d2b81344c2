-------------------------------- MODULE Pages --------------------------------
(***************************************************************************)
(* Cursor pagination as every list of the API does it: findAll of          *)
(* BaseRepository, and search and listForConversation of its subclasses,   *)
(* which repeat it line by line.  A page is asked for by the id of the     *)
(* last row of the page before, one row more than it holds is fetched, and *)
(* whether that row is there is what hasMore says.  What orderBy makes of  *)
(* the table is the relation of a row to the rows that sort below it.      *)
(***************************************************************************)
EXTENDS Naturals, FiniteSets

CONSTANT None   \* no cursor: the first page, or no next one

Below(above, row, rows) == {other \in rows : <<row, other>> \in above}

\* take: the first n rows.  skip: 1 passes over the first.
FirstOf(n, above, rows) ==
  {row \in rows : Cardinality({other \in rows : <<other, row>> \in above}) < n}
Skip(above, rows) == rows \ FirstOf(1, above, rows)

\* findMany with cursor { id } and skip, where rows is what matches of the table.
\* Without a unique column in orderBy, Prisma takes the rows that match from the
\* one with that id on.  If that row is gone or no longer matches there is nothing,
\* or what sorts below the place it had, for an engine that compares columns.
MutFromNoSkip(above, rows, cursor) ==
  IF cursor = None \/ cursor \notin rows THEN {rows} ELSE {{cursor} \union Below(above, cursor, rows)}
From(above, rows, cursor) ==
  IF cursor = None THEN {rows}
  ELSE IF cursor \in rows THEN {Skip(above, {cursor} \union Below(above, cursor, rows))}
  ELSE {{}, Skip(above, Below(above, cursor, rows))}

LastOf(above, rows) == CHOOSE row \in rows : \A other \in rows \ {row} : <<other, row>> \in above

\* take + 1 rows are fetched: the extra one only says that there are more.
MutPageOfExtra(above, rows, take) ==
  LET results == FirstOf(take + 1, above, rows) IN
  [data |-> FirstOf(take, above, results),
   next |-> IF Cardinality(results) > take THEN LastOf(above, results) ELSE None]
PageOf(above, rows, take) ==
  LET results == FirstOf(take + 1, above, rows)
      data == FirstOf(take, above, results) IN
  [data |-> data,
   next |-> IF Cardinality(results) > take THEN LastOf(above, data) ELSE None]
=============================================================================

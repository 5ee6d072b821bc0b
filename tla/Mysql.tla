------------------------------- MODULE Mysql -------------------------------
(***************************************************************************)
(* Queries of a MySQL server (carp_mysql.hpp): a CarpMysqlConnection with  *)
(* the statements it has prepared, CarpMysqlStatementQuerys and            *)
(* CarpMysqlQuerys that execute on it, connect again when the connection   *)
(* is found lost, and read what the server has answered.                   *)
(*                                                                         *)
(* The client library and the server are external.  A call of the library  *)
(* may find the connection lost, before the server has executed what it is *)
(* asked, after it, or while the result is on its way.  A cell of a result *)
(* is a number, the length of a string, or NULL, by the type of its column;*)
(* buffers that grow are left out.                                         *)
(***************************************************************************)
EXTENDS Integers, SequencesExt

CONSTANT MysqlLimits    \* bounds of the model: see MCServices

VARIABLE mysql

vars == <<mysql>>

NULL == -1      \* of the database

(* `asked` is history: what the last Execute has come to.  `ran` counts how*)
(* often the server has executed it, `given` and `with` are the parameter  *)
(* it was to have and had, `cells` what is to be read, `read` how many of  *)
(* them the application is past, `got` and `due` the cell that was read    *)
(* last and the one in its place.                                          *)
NotAsked == [answer |-> "none", ran |-> 0, given |-> <<>>, with |-> <<>>, lost |-> FALSE,
             cells |-> <<>>, read |-> 0, got |-> 0, due |-> 0]

NewStatementQuery(m_need_reset) ==
    [m_sql |-> 0, m_bind_input |-> <<>>, m_bind_outputs |-> <<>>,
     m_row_index |-> 0, m_row_count |-> 0, m_col_index |-> 0, m_col_count |-> 0,
     m_need_reset |-> m_need_reset, asked |-> NotAsked]

NewQuery == [NewStatementQuery(FALSE) EXCEPT !.m_row_index = -1]

(* m_need_reset of a statement query is not initialized.                   *)
Init ==
  \E limit \in MysqlLimits, m_need_reset \in BOOLEAN :
    mysql = [limit |-> limit,
             m_mysql |-> 0,             \* the connection, 0 is null
             m_stmt_map |-> <<>>,
             query |-> [q \in 1..limit.queries |-> NewStatementQuery(m_need_reset)],
             plain |-> [p \in 1..limit.plain |-> NewQuery],
             links |-> 0, alive |-> FALSE,      \* of m_mysql
             pending |-> FALSE,         \* results not fetched: it refuses every command
             calls |-> 0, faults |-> 0,
             crashed |-> FALSE]

Sqls(s) == DOMAIN s.limit.sqls
Sql(s, sql) == s.limit.sqls[sql]

Cells(s, sql) == FlattenSeq(Sql(s, sql).rows)

-----------------------------------------------------------------------------
(* The connection.                                                         *)

Faulty(s) == IF s.faults < s.limit.faults THEN {[s EXCEPT !.faults = @ + 1]} ELSE {}

Lost(s) == {[t EXCEPT !.alive = FALSE] : t \in Faulty(s)}

Close(s) == [s EXCEPT !.m_stmt_map = <<>>, !.m_mysql = 0, !.alive = FALSE, !.pending = FALSE]

Open(s) ==
    IF s.m_mysql # 0 THEN {s}
    ELSE {[s EXCEPT !.links = @ + 1, !.m_mysql = s.links + 1, !.alive = TRUE]} \cup Faulty(s)

ReOpen(s) == Open(Close(s))

(* What a call of the library comes to: `ok`, or the connection is `gone`. *)
Outcome(s, ok, gone) == [s |-> s, ok |-> ok, gone |-> gone]

NewStmt(s, sql) ==
    [link |-> s.m_mysql,
     bound |-> 0,       \* the query whose buffers it is bound to; -1 if they are freed
     value_length |-> [col \in 1..Sql(s, sql).cols |-> 0]]

GetStmt(s, sql) ==
    IF s.m_mysql = 0 THEN {Outcome(s, FALSE, FALSE)}
    ELSE IF sql \in DOMAIN s.m_stmt_map THEN {Outcome(s, TRUE, FALSE)}
    ELSE IF s.pending THEN {Outcome(s, FALSE, FALSE)}
    ELSE IF ~s.alive THEN {Outcome(s, FALSE, TRUE)}
    ELSE IF Sql(s, sql).multi THEN {Outcome(s, FALSE, FALSE)}
    ELSE {Outcome([s EXCEPT !.m_stmt_map = (sql :> NewStmt(s, sql)) @@ @], TRUE, FALSE)}
           \cup {Outcome(t, FALSE, TRUE) : t \in Lost(s)}

(* It is prepared, if need be after the connection was made again.         *)
Prepare(s, sql) ==
    UNION {IF ~g.gone THEN {g}
           ELSE UNION {GetStmt(t, sql) : t \in ReOpen(g.s)} : g \in GetStmt(s, sql)}

-----------------------------------------------------------------------------
(* CarpMysqlStatementQuery.                                                *)

(* End frees the buffers of the parameters.                                *)
End(s, q) ==
    [s EXCEPT !.query[q] = [@ EXCEPT !.m_col_index = 0, !.m_bind_input = <<>>,
                                     !.m_bind_outputs = <<>>],
              !.m_stmt_map = [sql \in DOMAIN @ |->
                                IF @[sql].bound = q THEN [@[sql] EXCEPT !.bound = -1] ELSE @[sql]]]

Clear(s, q) == [End(s, q) EXCEPT !.query[q].m_need_reset = FALSE, !.query[q].asked = NotAsked]

Reset(s, q) == IF s.query[q].m_need_reset THEN Clear(s, q) ELSE s

Fail(s, q) == [End(s, q) EXCEPT !.query[q].asked.answer = "false"]

(* Mutant: a statement is bound once. *)
BindFirst(s, q, sql) ==
    IF s.m_stmt_map[sql].bound # 0 \/ Sql(s, sql).params = 0 \/ s.query[q].m_bind_input = <<>>
      THEN s
    ELSE [s EXCEPT !.m_stmt_map[sql].bound = q]

Bind(s, q, sql) ==
    IF s.query[q].m_bind_input = <<>> \/ Sql(s, sql).params = 0 THEN s
    ELSE [s EXCEPT !.m_stmt_map[sql].bound = q]

Parameter(s, sql) ==
    IF Sql(s, sql).params = 0 THEN <<>>
    ELSE SubSeq(s.query[s.m_stmt_map[sql].bound].m_bind_input, 1, 1)

(* mysql_stmt_execute: the server executes it, refuses it, or is lost.     *)
Run(s, q, sql) ==
    LET bound == s.m_stmt_map[sql].bound
        ran == [s EXCEPT !.query[q].asked.ran = @ + 1,
                         !.query[q].asked.with = Parameter(s, sql)]
    IN  IF Sql(s, sql).params > 0 /\ bound = 0 THEN {Outcome(s, FALSE, FALSE)}
        ELSE IF Sql(s, sql).params > 0 /\ bound = -1
          THEN {Outcome([s EXCEPT !.crashed = TRUE], TRUE, FALSE)}
        ELSE IF s.pending THEN {Outcome(s, FALSE, FALSE)}
        ELSE IF ~s.alive THEN {Outcome(s, FALSE, TRUE)}
        ELSE {Outcome(ran, TRUE, FALSE)}
               \cup {Outcome(t, FALSE, FALSE) : t \in Faulty(s)}
               \cup {Outcome(t, FALSE, TRUE) : t \in Lost(s)}
               \cup {Outcome([t EXCEPT !.query[q].asked.lost = TRUE], FALSE, TRUE) : t \in Lost(ran)}

BindAndRun(s, q, sql) ==
    UNION {IF ~g.ok THEN {g} ELSE Run(Bind(g.s, q, sql), q, sql) : g \in Prepare(s, sql)}

(* After ReOpen the statement is asked for once, not prepared again.       *)
RunAgain(s, q, sql) ==
    UNION {IF ~g.ok THEN {g} ELSE Run(Bind(g.s, q, sql), q, sql) :
             g \in UNION {GetStmt(t, sql) : t \in ReOpen(s)}}

(* A NULL leaves the length, and the buffer, of what was fetched before.   *)
Fetched(stmt, rows, row, col) ==
    LET set == {r \in 1..row : rows[r][col] # NULL}
    IN  IF set = {} THEN stmt.value_length[col] ELSE rows[Max(set)][col]

(* The result is copied.  If it is lost on its way, it has no rows.        *)
Store(s, q, sql, rows) ==
    LET stmt == s.m_stmt_map[sql]
        value == [r \in DOMAIN rows |->
                    [c \in 1..Sql(s, sql).cols |-> Fetched(stmt, rows, r, c)]]
        copied == [r \in DOMAIN rows |->
                     [c \in 1..Sql(s, sql).cols |->
                        [buffer_type |-> Sql(s, sql).types[c], value |-> value[r][c]]]]
    IN  [s EXCEPT
           !.query[q] = [@ EXCEPT !.m_bind_outputs = copied, !.m_row_index = 0,
                                  !.m_row_count = Len(rows), !.m_col_index = 0,
                                  !.m_col_count = Sql(s, sql).cols,
                                  !.asked.answer = "true", !.asked.cells = FlattenSeq(rows)],
           !.m_stmt_map[sql].value_length = IF rows = <<>> THEN @ ELSE value[Len(rows)]]

Stored(s, q, sql) ==
    {Store(s, q, sql, Sql(s, sql).rows)}
      \cup {Store(t, q, sql, <<>>) : t \in {u \in Lost(s) : Sql(s, sql).cols > 0}}

Begin(s, q) ==
    LET sql == s.query[q].m_sql
        t == [s EXCEPT !.query[q].m_need_reset = TRUE,
                       !.query[q].asked = [NotAsked EXCEPT !.given = s.query[q].m_bind_input]]
    IN  IF sql = 0 THEN {Fail(t, q)}
        ELSE UNION {IF r.ok THEN IF r.s.crashed THEN {r.s} ELSE Stored(r.s, q, sql)
                    ELSE {Fail(r.s, q)} :
               r \in UNION {IF f.gone /\ sql \in DOMAIN f.s.m_stmt_map
                              THEN RunAgain(f.s, q, sql) ELSE {f} : f \in BindAndRun(t, q, sql)}}

-----------------------------------------------------------------------------
(* Reading, of a statement query.                                          *)

Query(q) == mysql.query[q]

HasNext(q) == Query(q).m_row_index < Query(q).m_row_count

NextRow(s, q) ==
    LET t == [s EXCEPT !.query[q].m_col_index = 0, !.query[q].m_row_index = @ + 1]
    IN  IF t.query[q].m_row_index >= t.query[q].m_row_count THEN End(t, q) ELSE t

(* A row is left out by the application's Next.                            *)
PastRow(asked, cols) ==
    IF asked.cells = <<>> \/ asked.read >= Len(asked.cells) THEN asked
    ELSE [asked EXCEPT !.read = (asked.read \div cols + 1) * cols]

PastCell(asked, got) ==
    [asked EXCEPT !.read = @ + 1, !.got = got, !.due = asked.cells[asked.read + 1]]

(* ReadString takes every cell, ReadInt and the others only one of their   *)
(* type and size: ReadLong none, where a long has more bytes than a LONG.  *)
SizeOf(type) == CASE type = "tiny" -> 1 [] type = "long" -> 4 [] OTHER -> 0

Readers ==
    {[type |-> "string", size |-> 0], [type |-> "tiny", size |-> 1],
     [type |-> "long", size |-> 4], [type |-> "long", size |-> 8]}

Takes(reader, type) ==
    reader.type = "string" \/ (SizeOf(type) >= reader.size /\ reader.type = type)

(* What is refused stays the next cell. *)
ReadCell(s, q, reader) ==
    LET query == s.query[q]
    IN  IF query.m_col_index >= query.m_col_count \/ query.m_row_index >= query.m_row_count THEN s
        ELSE IF query.m_row_index + 1 \notin DOMAIN query.m_bind_outputs
          THEN [s EXCEPT !.crashed = TRUE]
        ELSE LET data == query.m_bind_outputs[query.m_row_index + 1][query.m_col_index + 1]
                 t == [s EXCEPT !.query[q].m_col_index = @ + 1,
                                !.query[q].asked = PastCell(@, data.value)]
             IN  IF ~Takes(reader, data.buffer_type) THEN s
                 ELSE IF query.m_col_index + 1 >= query.m_col_count THEN NextRow(t, q) ELSE t

-----------------------------------------------------------------------------
(* CarpMysqlQuery.                                                         *)

EndPlain(s, p) ==
    [s EXCEPT !.plain[p] = [@ EXCEPT !.m_bind_outputs = <<>>, !.m_row_index = -1,
                                     !.m_row_count = 0, !.m_col_index = 0]]

ClearPlain(s, p) ==
    [EndPlain(s, p) EXCEPT !.plain[p].m_need_reset = FALSE, !.plain[p].asked = NotAsked]

FailPlain(s, p) == [EndPlain(s, p) EXCEPT !.plain[p].asked.answer = "false"]

(* mysql_query.                                                            *)
RunPlain(s, p) ==
    LET ran == [s EXCEPT !.plain[p].asked.ran = @ + 1]
    IN  IF s.m_mysql = 0 THEN {Outcome(s, FALSE, FALSE)}
        ELSE IF s.pending THEN {Outcome(s, FALSE, FALSE)}
        ELSE IF ~s.alive THEN {Outcome(s, FALSE, TRUE)}
        ELSE {Outcome(ran, TRUE, FALSE)}
               \cup {Outcome(t, FALSE, FALSE) : t \in Faulty(s)}
               \cup {Outcome(t, FALSE, TRUE) : t \in Lost(s)}
               \cup {Outcome([t EXCEPT !.plain[p].asked.lost = TRUE], FALSE, TRUE) : t \in Lost(ran)}

StorePlain(s, p, rows, cols) ==
    [s EXCEPT !.plain[p] =
       [@ EXCEPT !.m_bind_outputs = [r \in DOMAIN rows |->
                                       [c \in 1..cols |-> Max({rows[r][c], 0})]],
                 !.m_row_index = -1, !.m_row_count = Len(rows), !.m_col_count = cols,
                 !.asked.answer = "true", !.asked.cells = FlattenSeq(rows)]]

(* Of several statements, the results of the others are thrown away.       *)
StoredPlain(s, p) ==
    LET sql == Sql(s, s.plain[p].m_sql)
    IN  {StorePlain(s, p, sql.rows, sql.cols)}
          \cup {StorePlain(t, p, <<>>, 0) : t \in {u \in Lost(s) : sql.cols > 0}}

BeginPlain(s, p) ==
    LET t == [s EXCEPT !.plain[p].m_need_reset = TRUE, !.plain[p].asked = NotAsked]
    IN  IF t.plain[p].m_sql = 0 THEN {[t EXCEPT !.plain[p].asked.answer = "false"]}
        ELSE UNION {IF r.ok THEN StoredPlain(r.s, p) ELSE {FailPlain(r.s, p)} :
               r \in UNION {IF f.gone THEN UNION {RunPlain(u, p) : u \in ReOpen(f.s)}
                            ELSE {f} : f \in RunPlain(t, p)}}

NextPlain(s, p) ==
    LET plain == s.plain[p]
    IN  IF plain.m_row_index + 1 >= Len(plain.m_bind_outputs) THEN s
        ELSE [s EXCEPT !.plain[p] =
                [@ EXCEPT !.m_row_index = plain.m_row_index + 1, !.m_col_index = 0,
                          !.asked.read = (plain.m_row_index + 1) * plain.m_col_count]]

ReadPlain(s, p) ==
    LET plain == s.plain[p]
    IN  IF \/ plain.m_col_index >= plain.m_col_count
           \/ plain.m_row_index \notin 0..(Len(plain.m_bind_outputs) - 1) THEN s
        ELSE [s EXCEPT !.plain[p].m_col_index = @ + 1,
                       !.plain[p].asked =
                         PastCell(@, plain.m_bind_outputs[plain.m_row_index + 1]
                                                         [plain.m_col_index + 1])]

-----------------------------------------------------------------------------
(* What the application calls, and the connection's end.                   *)

Called == [mysql EXCEPT !.calls = @ + 1]

CallOpen == mysql.m_mysql = 0 /\ mysql' \in Open(Called)

CallClose == mysql.limit.closes /\ mysql.m_mysql # 0 /\ mysql' = Close(Called)

ReleaseStmt ==
    /\ mysql.limit.closes
    /\ \E sql \in DOMAIN mysql.m_stmt_map :
         mysql' = [Called EXCEPT !.m_stmt_map = Restrict(@, DOMAIN @ \ {sql})]

(* Of several statements, only the first one's result is fetched.          *)
ExecuteQuery ==
    /\ mysql.m_mysql # 0
    /\ \E sql \in Sqls(mysql) :
         /\ Sql(mysql, sql).multi /\ mysql.alive /\ ~mysql.pending
         /\ mysql' = [Called EXCEPT !.pending = TRUE]

SetSQL(q, sql) ==
    mysql' = [Reset(Called, q) EXCEPT !.query[q].m_sql = sql]

CommonBindForInput(q, value) ==
    /\ Len(Query(q).m_bind_input) < 1 \/ Query(q).m_need_reset
    /\ mysql' = [Reset(Called, q) EXCEPT !.query[q].m_bind_input = Append(@, value)]

Execute(q) == mysql' \in Begin(Called, q)

CallClear(q) == mysql' = Clear(Called, q)

CallNext(q) ==
    LET s == IF HasNext(q) THEN NextRow(Called, q) ELSE End(Called, q)
    IN  mysql' = [s EXCEPT !.query[q].asked = PastRow(@, Query(q).m_col_count)]

Read(q) == \E reader \in Readers : mysql' = ReadCell(Called, q, reader)

PlainSetSql(p, sql) ==
    LET s == IF mysql.plain[p].m_need_reset THEN ClearPlain(Called, p) ELSE Called
    IN  mysql' = [s EXCEPT !.plain[p].m_sql = sql]

PlainExecute(p) == mysql' \in BeginPlain(Called, p)

PlainNext(p) == mysql' = NextPlain(Called, p)

PlainRead(p) == mysql' = ReadPlain(Called, p)

ConnectionLost == mysql.alive /\ mysql' \in Lost(mysql)

Next ==
  /\ ~mysql.crashed
  /\ \/ ConnectionLost
     \/ /\ mysql.calls < mysql.limit.calls
        /\ \/ CallOpen \/ CallClose \/ ReleaseStmt \/ ExecuteQuery
           \/ \E q \in DOMAIN mysql.query :
                \/ \E sql \in Sqls(mysql) : SetSQL(q, sql)
                \/ \E value \in mysql.limit.values : CommonBindForInput(q, value)
                \/ Execute(q) \/ CallClear(q) \/ CallNext(q) \/ Read(q)
           \/ \E p \in DOMAIN mysql.plain :
                \/ \E sql \in Sqls(mysql) : PlainSetSql(p, sql)
                \/ PlainExecute(p) \/ PlainNext(p) \/ PlainRead(p)

Spec == Init /\ [][Next]_vars

-----------------------------------------------------------------------------
(* What is asked is executed once, and with the parameter that was pushed  *)
(* for it, if one was, whoever else has used the statement; it may be twice*)
(* when the connection was lost after the server had it.                   *)
Executed(asked, params) ==
    /\ asked.ran <= IF asked.lost THEN 2 ELSE 1
    /\ asked.answer = "true" => asked.ran >= 1
    /\ asked.ran >= 1 /\ Len(asked.given) >= params => asked.with = SubSeq(asked.given, 1, params)

(* What is read is what the server has answered, in its place.  A NULL is  *)
(* read by a statement query as what was last fetched into the buffer of   *)
(* its column (line 1055).                                                 *)
InPlace(asked) == asked.due # NULL => asked.got = asked.due

(* The statements are those of the connection that is open, and queries are*)
(* executed as asked and read in full, across connections that are lost    *)
(* and made again at any of the library's calls, statements that queries   *)
(* share or that are released, and rows that are left out.                 *)
QueriesAnswered ==
    /\ \A sql \in DOMAIN mysql.m_stmt_map :
         mysql.m_mysql # 0 /\ mysql.m_stmt_map[sql].link = mysql.m_mysql
    /\ \A q \in DOMAIN mysql.query :
         /\ Query(q).m_sql # 0 =>
              Executed(Query(q).asked, Sql(mysql, Query(q).m_sql).params)
         /\ InPlace(Query(q).asked)
         /\ Query(q).asked.answer = "true" =>
              (HasNext(q) <=> Query(q).asked.read < Len(Query(q).asked.cells))
    /\ \A p \in DOMAIN mysql.plain :
         /\ Executed(mysql.plain[p].asked, 0)
         /\ InPlace(mysql.plain[p].asked)
         /\ mysql.plain[p].asked.due = NULL => mysql.plain[p].asked.got = 0
=============================================================================

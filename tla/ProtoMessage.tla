---------------------------- MODULE ProtoMessage ----------------------------
(***************************************************************************)
(* GenProtoData (rpc/generator/gorm/gen.go:352-443) renders the messages  *)
(* of one table: <T>Info, <T>ListResp and <T>ListReq.  It walks the       *)
(* table's columns twice, numbering fields as it goes and closing a       *)
(* message when it reaches the index of the last element of               *)
(* schema.Fields.  schema.Fields holds one entry per column of a known    *)
(* SQL type (generateFieldsTypes skips the others), so its length may be  *)
(* less than the number of columns.                                        *)
(*                                                                         *)
(* The model runs the two loops one column per step on a column list      *)
(* chosen in Init.  The rendered text is abstracted to a sequence of       *)
(* tokens: a message opened, a field with its number, a message closed.   *)
(* Field types, names and layout are left out.                             *)
(***************************************************************************)
EXTENDS Naturals, Sequences, FiniteSets, Functions

CONSTANTS
    Columns,       \* the columns a table may have, records [name, type, uuidName]
    MaxCols,       \* the longest column list explored
    SearchKeyNum   \* g.SearchKeyNum

ASSUME ProtoConstAssumption ==
    /\ MaxCols \in Nat \ {0}
    /\ SearchKeyNum \in Nat
    /\ \A c \in Columns : c.uuidName \in BOOLEAN

VARIABLES
    cols,    \* schema.DBMeta.Columns()
    phase,   \* "info" (first loop), "list" (second loop) or "done"
    j,       \* 1-based position of the current column
    index,   \* the next field number
    count,   \* search keys emitted so far
    out      \* the tokens rendered so far

vars == <<cols, phase, j, index, count, out>>

(* Column lists of distinct column names, up to MaxCols long, with the    *)
(* id column the generated CRUD code keys on.                             *)
ColumnLists ==
    UNION {{s \in [1..n -> Columns] :
                /\ \A a, b \in 1..n : s[a].name = s[b].name => a = b
                /\ \E a \in 1..n : s[a].name = "id"} :
           n \in 1..MaxCols}

(* generateFieldsTypes keeps the columns SQLTypeToGoType maps.            *)
Known(c) == c.type # "unknown"

(* len(schema.Fields)                                                      *)
NumFields == Cardinality({p \in DOMAIN cols : Known(cols[p])})

Open(m) == [tok |-> "open", msg |-> m]
Field(m, n, f) == [tok |-> "field", msg |-> m, num |-> n, name |-> f]
Close(m) == [tok |-> "close", msg |-> m]

Init ==
    /\ cols \in ColumnLists
    /\ phase = "info"
    /\ j = 1
    /\ index = 2
    /\ count = 0
    /\ out = <<Open("Info"), Field("Info", 1, "id")>>

Col == cols[j]

(* The first loop, gen.go:363-392: the id column is skipped, status gets  *)
(* the next number, any other column gets it and closes the message when  *)
(* its position is the last index of schema.Fields.                        *)
InfoSkipId ==
    /\ phase = "info" /\ j <= Len(cols)
    /\ Col.name = "id"
    /\ j' = j + 1
    /\ UNCHANGED <<cols, phase, index, count, out>>

(* Mutant: the status branch does not advance the field number.          *)
InfoStatusSameIndex ==
    /\ phase = "info" /\ j <= Len(cols)
    /\ Col.name = "status"
    /\ out' = Append(out, Field("Info", index, "status"))
    /\ j' = j + 1
    /\ UNCHANGED <<cols, phase, index, count>>

InfoStatus ==
    /\ phase = "info" /\ j <= Len(cols)
    /\ Col.name = "status"
    /\ out' = Append(out, Field("Info", index, "status"))
    /\ index' = index + 1
    /\ j' = j + 1
    /\ UNCHANGED <<cols, phase, count>>

InfoColumn ==
    /\ phase = "info" /\ j <= Len(cols)
    /\ Col.name \notin {"id", "status"}
    /\ out' = out \o <<Field("Info", index, Col.name)>>
                  \o (IF j = NumFields THEN <<Close("Info")>> ELSE <<>>)
    /\ index' = index + 1
    /\ j' = j + 1
    /\ UNCHANGED <<cols, phase, count>>

(* The literal ListResp block and the head of ListReq, gen.go:394-407.    *)
ListHead ==
    << Open("ListResp"), Field("ListResp", 1, "total"),
       Field("ListResp", 2, "data"), Close("ListResp"),
       Open("ListReq"), Field("ListReq", 1, "page"),
       Field("ListReq", 2, "page_size"), Field("ListReq", 3, "filter") >>

InfoEnd ==
    /\ phase = "info" /\ j > Len(cols)
    /\ out' = out \o ListHead
    /\ index' = 3
    /\ count' = 0
    /\ j' = 1
    /\ phase' = "list"
    /\ UNCHANGED cols

(* Mutant: the count < SearchKeyNum test dropped.                        *)
SearchKeyNoLimit(c, p, n) ==
    c.type = "string" /\ ~c.uuidName /\ p <= NumFields

(* Mutant: the test for "uuid" in the column name dropped.               *)
SearchKeyWithUUID(c, p, n) ==
    c.type = "string" /\ n < SearchKeyNum /\ p <= NumFields

(* gen.go:410-411: a string column whose name has no "uuid", while fewer  *)
(* than SearchKeyNum keys were emitted, within len(schema.Fields).        *)
SearchKey(c, p, n) ==
    /\ c.type = "string" /\ ~c.uuidName /\ n < SearchKeyNum
    /\ p <= NumFields

(* gen.go:420-422                                                          *)
CloseListAt(p) == IF p = NumFields THEN <<Close("ListReq")>> ELSE <<>>

ListKey ==
    /\ phase = "list" /\ j <= Len(cols)
    /\ SearchKey(Col, j, count)
    /\ out' = out \o <<Field("ListReq", index, Col.name)>> \o CloseListAt(j)
    /\ index' = index + 1
    /\ count' = count + 1
    /\ j' = j + 1
    /\ UNCHANGED <<cols, phase>>

ListOther ==
    /\ phase = "list" /\ j <= Len(cols)
    /\ ~SearchKey(Col, j, count)
    /\ out' = out \o CloseListAt(j)
    /\ j' = j + 1
    /\ UNCHANGED <<cols, phase, index, count>>

ListEnd ==
    /\ phase = "list" /\ j > Len(cols)
    /\ phase' = "done"
    /\ UNCHANGED <<cols, j, index, count, out>>

Next ==
    \/ InfoSkipId \/ InfoStatus \/ InfoColumn \/ InfoEnd
    \/ ListKey \/ ListOther \/ ListEnd

Spec == Init /\ [][Next]_vars

(***************************************************************************)
(* Properties                                                              *)
(***************************************************************************)

Token ==
    [tok : {"open", "close"}, msg : {"Info", "ListResp", "ListReq"}]
    \cup [tok : {"field"}, msg : {"Info", "ListResp", "ListReq"},
          num : Nat, name : {c.name : c \in Columns} \cup
                            {"id", "total", "data", "page", "page_size", "filter"}]

TypeOK ==
    /\ cols \in ColumnLists
    /\ phase \in {"info", "list", "done"}
    /\ j \in 1..(MaxCols + 1)
    /\ index \in Nat
    /\ count \in 0..SearchKeyNum
    /\ out \in Seq(Token)

(* The field tokens of message m, in the order they were rendered.        *)
FieldsOf(m) ==
    LET InMsg(x) == x.tok = "field" /\ x.msg = m IN SelectSeq(out, InMsg)

Names(fs) == [p \in DOMAIN fs |-> fs[p].name]

NotId(c) == c.name # "id"

(* The filter candidates of the CRUD logic, gen.go:254-256: string        *)
(* columns other than id whose names have no "uuid".                      *)
LogicCandidate(c) == c.type = "string" /\ ~c.uuidName /\ c.name # "id"

ColNames(s) == [p \in DOMAIN s |-> s[p].name]

(* The first SearchKeyNum candidates, which the logic's predicates test.  *)
LogicKeys ==
    LET cs == SelectSeq(cols, LogicCandidate)
    IN  ColNames(SubSeq(cs, 1, IF Len(cs) < SearchKeyNum THEN Len(cs)
                                                         ELSE SearchKeyNum))

(* spec.md 4.5/4.6: the Info message holds id as field 1 and every other  *)
(* column after it, numbered 2, 3, ... in column order.                   *)
InfoMatchesReference ==
    phase = "done" =>
        LET rest == ColNames(SelectSeq(cols, NotId))
            fs == FieldsOf("Info")
        IN  /\ Names(fs) = <<"id">> \o rest
            /\ \A p \in DOMAIN fs : fs[p].num = p

(* spec.md 4.5: ListReq holds page, page_size and filter, then the first  *)
(* SearchKeyNum string, non-UUID-named info columns, the keys the CRUD    *)
(* logic of gen.go:254-262 filters on.                                     *)
ListReqKeysMatchReference ==
    phase = "done" =>
        LET fs == FieldsOf("ListReq")
        IN  Names(fs) = <<"page", "page_size", "filter">> \o LogicKeys

(* protoc rejects a message in which two fields share a number: the      *)
(* fields of ListReq carry pairwise distinct numbers.                     *)
ListReqNumbersDistinct ==
    LET fs == FieldsOf("ListReq")
    IN  \A a, b \in DOMAIN fs : fs[a].num = fs[b].num => a = b

=============================================================================

--------------------------- MODULE MCProtoMessage ---------------------------
(* Columns for ProtoMessage: a UUID and a serial id, a status column, two *)
(* plain string columns, a UUID-named string and a time.                  *)
EXTENDS ProtoMessage

Column(n, t, u) == [name |-> n, type |-> t, uuidName |-> u]

IdUUID == Column("id", "uuid", FALSE)
IdSerial == Column("id", "uint64", FALSE)
Status == Column("status", "uint32", FALSE)
Title == Column("title", "string", FALSE)
Nick == Column("nick", "string", FALSE)
OwnerUUID == Column("owner_uuid", "string", TRUE)
CreatedAt == Column("created_at", "time", FALSE)

(* Columns of mapped types, and an id that is not a string.               *)
MCColumnsKnown == {IdUUID, IdSerial, Status, Title, Nick, OwnerUUID, CreatedAt}

=============================================================================

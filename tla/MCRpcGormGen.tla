---------------------------- MODULE MCRpcGormGen ----------------------------
(* Small instances of RpcGormGen for TLC: three tables, one UUID-keyed,    *)
(* one plain and one with an unsupported primary key; two services.        *)
EXTENDS RpcGormGen

CONSTANTS tu, tp, tx, sProj, sOther

MCTables == {tu, tp, tx}
MCUUIDKey == [t \in MCTables |-> t = tu]
MCUnsupported == {tx}
MCServices == {sProj, sOther}
(* Packages named after the project, as `goctl rpc new` lays them out.    *)
MCSvcSame == [t \in MCTables |-> sProj]
(* The plain table lives in a package of another name.                    *)
MCSvcOther == [t \in MCTables |-> IF t = tp THEN sOther ELSE sProj]

=============================================================================

------------------------- MODULE ProtoMessageProofs -------------------------
(***************************************************************************)
(* Proofs about ProtoMessage, the two column loops of GenProtoData.        *)
(* What the rendered messages hold (InfoMatchesReference,                  *)
(* ListReqKeysMatchReference) is stated with SelectSeq over the column     *)
(* list and stays with TLC: it needs induction over that list.             *)
(***************************************************************************)
EXTENDS ProtoMessage, TLAPS

(* A column list of Init is a sequence of columns of length 1..MaxCols.   *)
LEMMA ColumnListsType ==
    ASSUME NEW s \in ColumnLists
    PROVE  /\ s \in Seq(Columns)
           /\ Len(s) \in 1..MaxCols
<1>1. PICK n \in 1..MaxCols : s \in [1..n -> Columns]
  BY DEF ColumnLists
<1>2. n \in Nat
  BY ProtoConstAssumption
<1>3. QED
  BY <1>1, <1>2

(* The literal ListResp block and ListReq head are tokens.                 *)
LEMMA ListHeadType == ListHead \in Seq(Token)
  BY DEF ListHead, Open, Field, Close, Token

(* The ListReq closing token of gen.go:420-422 is empty or a token.       *)
LEMMA CloseListAtType == \A p : CloseListAt(p) \in Seq(Token)
<1>1. Close("ListReq") \in Token
  BY DEF Close, Token
<1>2. <<Close("ListReq")>> \in Seq(Token)
  BY <1>1
<1>3. QED
  BY <1>2 DEF CloseListAt

(* The strengthening of TypeOK: both loops stay within the column list.   *)
IInv == TypeOK /\ j \in 1..(Len(cols) + 1)

(* The current column of a loop step is a column.                         *)
LEMMA ColType ==
    ASSUME IInv, j <= Len(cols)
    PROVE  /\ Col \in Columns
           /\ Col.name \in {c.name : c \in Columns}
<1>1. cols \in Seq(Columns) /\ j \in 1..Len(cols)
  BY ColumnListsType DEF IInv, TypeOK
<1>2. QED
  BY <1>1 DEF Col

(* For every column set, bound and SearchKeyNum, every state of           *)
(* GenProtoData's two loops is well typed: the column position stays in   *)
(* 1..MaxCols + 1, at most SearchKeyNum search keys are emitted (the       *)
(* count < SearchKeyNum test of gen.go:410) and the output is a sequence   *)
(* of tokens.                                                              *)
THEOREM TypeCorrect == Spec => []TypeOK
<1>1. Init => IInv
  <2> SUFFICES ASSUME Init PROVE IInv
    OBVIOUS
  <2>1. Len(cols) \in 1..MaxCols
    BY ColumnListsType DEF Init
  <2>2. out \in Seq(Token)
    BY DEF Init, Open, Field, Token
  <2>3. QED
    BY <2>1, <2>2, ProtoConstAssumption DEF Init, IInv, TypeOK
<1>2. IInv /\ [Next]_vars => IInv'
  <2> SUFFICES ASSUME IInv, [Next]_vars PROVE IInv'
    OBVIOUS
  <2>0. Len(cols) \in 1..MaxCols /\ MaxCols \in Nat /\ SearchKeyNum \in Nat
    BY ColumnListsType, ProtoConstAssumption DEF IInv, TypeOK
  <2>1. CASE InfoSkipId
    BY <2>0, <2>1 DEF InfoSkipId, IInv, TypeOK
  <2>2. CASE InfoStatus
    <3>1. Field("Info", index, "status") \in Token
      <4>1. "status" \in {c.name : c \in Columns}
        BY <2>2, ColType DEF InfoStatus
      <4>2. QED
        BY <4>1 DEF IInv, TypeOK, Field, Token
    <3>2. QED
      BY <2>0, <2>2, <3>1 DEF InfoStatus, IInv, TypeOK
  <2>3. CASE InfoColumn
    <3>1. Field("Info", index, Col.name) \in Token
      BY <2>3, ColType DEF InfoColumn, IInv, TypeOK, Field, Token
    <3>2. Close("Info") \in Token
      BY DEF Close, Token
    <3>3. QED
      BY <2>0, <2>3, <3>1, <3>2 DEF InfoColumn, IInv, TypeOK
  <2>4. CASE InfoEnd
    BY <2>0, <2>4, ListHeadType DEF InfoEnd, IInv, TypeOK
  <2>5. CASE ListKey
    <3>1. Field("ListReq", index, Col.name) \in Token
      BY <2>5, ColType DEF ListKey, IInv, TypeOK, Field, Token
    <3>2. CloseListAt(j) \in Seq(Token)
      BY CloseListAtType
    <3>3. count < SearchKeyNum
      BY <2>5 DEF ListKey, SearchKey
    <3>4. QED
      BY <2>0, <2>5, <3>1, <3>2, <3>3 DEF ListKey, IInv, TypeOK
  <2>6. CASE ListOther
    <3>1. CloseListAt(j) \in Seq(Token)
      BY CloseListAtType
    <3>2. QED
      BY <2>0, <2>6, <3>1 DEF ListOther, IInv, TypeOK
  <2>7. CASE ListEnd
    BY <2>7 DEF ListEnd, IInv, TypeOK
  <2>8. CASE UNCHANGED vars
    BY <2>8 DEF vars, IInv, TypeOK
  <2>9. QED
    BY <2>1, <2>2, <2>3, <2>4, <2>5, <2>6, <2>7, <2>8 DEF Next
<1>3. IInv => TypeOK
  BY DEF IInv
<1>4. QED
  BY <1>1, <1>2, <1>3, PTL DEF Spec

=============================================================================

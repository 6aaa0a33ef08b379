---------------------------- MODULE MCProtoApiGen ----------------------------
(* Two models of one proto, as "User" and "Role"; each has Info, ListReq  *)
(* and ListResp messages.                                                  *)
EXTENDS ProtoApiGen

CONSTANTS mu, mr

MCModels == {mu, mr}
MCProtoMsgs == {Msg(m, kd) : m \in MCModels, kd \in {"Info", "ListReq", "ListResp"}}
MCStatusOf == [m \in MCModels |-> m = mu]
(* "User" and "Role": neither name is in the other.                       *)
MCSubNone == [a \in MCModels |-> [b \in MCModels |-> a = b]]

=============================================================================

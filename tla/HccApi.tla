------------------------------- MODULE HccApi -------------------------------
(***************************************************************************)
(* The library HccApi: a call of one of the functions modelled in          *)
(* XorBuffer, RpcRequest and Cid.  They share no state.                    *)
(***************************************************************************)
EXTENDS XorBuffer, RpcRequest, Cid

hccVars == << xorVars, postVars, cidVars >>

HccInit == XorInit /\ PostInit /\ CidInit

HccNext ==
  \/ postPc = "none" /\ cidPc = "none" /\ XorNext /\ UNCHANGED << postVars, cidVars >>
  \/ xorPc = "none" /\ cidPc = "none" /\ PostNext /\ UNCHANGED << xorVars, cidVars >>
  \/ xorPc = "none" /\ postPc = "none" /\ CidNext /\ UNCHANGED << xorVars, postVars >>

HccSpec == HccInit /\ [][HccNext]_hccVars
=============================================================================

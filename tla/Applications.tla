---------------------------- MODULE Applications ----------------------------
(***************************************************************************)
(* An application of either protocol: a SAML service provider               *)
(* (SAMLResponse, LogoutBinding) or an OIDC client (OIDCClient), with its   *)
(* claim and role mappings (ClaimMappings).                                 *)
(***************************************************************************)
EXTENDS LogoutBinding, OIDCClient

allVars == <<vars, slo, clientVars>>

AppInit == Init /\ SloInit /\ ClientInit

AppNext ==
  \/ Next /\ UNCHANGED <<slo, clientVars>>
  \/ SloNext /\ UNCHANGED clientVars
  \/ ClientNext /\ UNCHANGED <<configVars, responseVars, slo>>

AppSpec == AppInit /\ [][AppNext]_allVars

=============================================================================

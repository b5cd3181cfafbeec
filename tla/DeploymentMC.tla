---------------------------- MODULE DeploymentMC ----------------------------
(* Instances of Deployment for TLC.                                        *)
EXTENDS Deployment

AllKinds == {"rehearse", "deploy", "rollback", "recover", "retire"}
\* The kinds whose commit is outside execute()'s try block.
OutsideTry == {"rehearse", "deploy", "rollback"}

=============================================================================

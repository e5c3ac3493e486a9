----------------------------- MODULE MCAuthFlow -----------------------------
(* The user, root and an administrator.                                    *)
EXTENDS AuthFlow
CONSTANTS user, root, admin
MCIdentities == {user, root, admin}
=============================================================================


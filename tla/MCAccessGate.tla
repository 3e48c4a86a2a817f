---------------------------- MODULE MCAccessGate ----------------------------
(* The bot's list is used, or an override that names every user.            *)
EXTENDS AccessGate

NoneOrAll == {None, Users}

=============================================================================

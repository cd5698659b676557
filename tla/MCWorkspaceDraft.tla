-------------------------- MODULE MCWorkspaceDraft --------------------------
(* Two request slots: two tabs of one user, or one tab of each of two.     *)
EXTENDS WorkspaceDraft, TLC
CONSTANTS r1, r2, u1, u2
OneUser == [r \in Requests |-> u1]
TwoUsers == [r \in Requests |-> IF r = r1 THEN u1 ELSE u2]
=============================================================================

------------------------------ MODULE MCExplain ------------------------------
(***************************************************************************)
(* A hierarchy with two ways to the joint, one of which uses up the depth: *)
(* from the base over the branch, and from the base itself.  The role is   *)
(* one step behind the joint.                                              *)
(***************************************************************************)
EXTENDS Explain

CONSTANTS base, branch, joint, tip, crew, asker

UpTo(s, p) == [user |-> s, relation |-> "up", object |-> p, holds |-> TRUE, fits |-> TRUE]
MCTuple == {UpTo(branch, base), UpTo(joint, base), UpTo(joint, branch), UpTo(tip, joint),
            [UpTo(asker, tip) EXCEPT !.relation = "viewer"], [UpTo(asker, branch) EXCEPT !.relation = "viewer"]}
MCGrantedBy == [p \in {base, branch, joint, tip} |-> <<"viewer">>]
MCInherits == [p \in {base, branch, joint, tip} |-> <<"up">>]
=============================================================================

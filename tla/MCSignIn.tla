------------------------------- MODULE MCSignIn ------------------------------
(***************************************************************************)
(* Instances of SignIn.                                                    *)
(***************************************************************************)
EXTENDS SignIn, TLC

Symm == Permutations(Tabs) \union Permutations(Keys)
==============================================================================
